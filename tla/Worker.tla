------------------------------- MODULE Worker -------------------------------
(***************************************************************************)
(* The worker process: the heartbeat loop and the goroutines it starts for *)
(* its assignments (src/internal/worker/worker.go), what these do          *)
(* (executor.go), and the objects they leave in S3.                        *)
(*                                                                         *)
(* One action is one critical section of w.mu, one channel operation, one  *)
(* request to another worker or to S3, or one message of a heartbeat.  The *)
(* master's side of the messages is in the module that composes the two.   *)
(* A worker that has crashed is gone: a new process has a new id.          *)
(*                                                                         *)
(* The content of a partition is abstracted to where it came from: an      *)
(* object is the set of the URLs whose lines its reduce has gathered.      *)
(***************************************************************************)
EXTENDS Scheduler, SequencesExt

CONSTANTS
  OutputPrefix,   \* where each job wants its output
  UpdateCap       \* capacity of the channel w.reduceUpdates

ASSUME OutputPrefixAssumption == DOMAIN OutputPrefix = Jobs
ASSUME UpdateCapAssumption == UpdateCap \in Nat \ {0}

VARIABLES
  alive,        \* the worker processes that have not crashed
  busy,         \* w.State is BUSY
  current,      \* w.CurrentTask
  lastResult,   \* w.lastResult
  runs,         \* the goroutines of handleAssignment
  updates,      \* the channel w.reduceUpdates
  rpc,          \* the message that the heartbeat loop is waiting for or with
  stray,        \* heartbeats whose sender does not wait for a reply any more
  outputs,      \* w.partitionStores: the map outputs that a worker serves
  temps,        \* the temporary objects in S3
  final         \* the output objects in S3, None where there is none

localVars == <<alive, busy, current, lastResult, runs, updates, rpc, outputs>>
objectVars == <<temps, final>>
processVars == <<localVars, stray, objectVars>>

OutputPrefixes == {OutputPrefix[j] : j \in Jobs}
Temps == [job : Jobs, task : Partitions, id : AttemptIds, content : SUBSET URLs]

\* A goroutine: what it works on, how far it is, whether w.cancelTask is its
\* cancel function, whether that was called, and the state of its gather loop.
Stages == {"launched", "busy", "working", "gathering", "copied"} \cup Outcomes
Runs == [work : Issues, stage : Stages,
         cancellable : BOOLEAN, cancelled : BOOLEAN,
         pending : SUBSET URLs, downloaded : SUBSET URLs,
         allMapsComplete : BOOLEAN]
\* Mutant of Launched: the result will be about another attempt.
LaunchedAsNext(a, w) ==
  [work |-> Issue([a EXCEPT !.id = @ + 1], w), stage |-> "launched",
   cancellable |-> FALSE, cancelled |-> FALSE,
   pending |-> a.urls, downloaded |-> {}, allMapsComplete |-> a.allMaps]
Launched(a, w) ==
  [work |-> Issue(a, w), stage |-> "launched",
   cancellable |-> FALSE, cancelled |-> FALSE,
   pending |-> a.urls, downloaded |-> {}, allMapsComplete |-> a.allMaps]

Reports == Issues \X Outcomes
Requests == [kind : {"request"}, idle : BOOLEAN, task : Issues \cup {None},
             result : Reports \cup {None}]
Updates == [urls : SUBSET URLs, allMapsComplete : BOOLEAN]

WorkerTypeOK ==
  /\ alive \subseteq Workers
  /\ busy \in [Workers -> BOOLEAN]
  /\ current \in [Workers -> Issues \cup {None}]
  /\ lastResult \in [Workers -> Reports \cup {None}]
  /\ \A w \in Workers : /\ \A i \in 1 .. Len(runs[w]) : runs[w][i] \in Runs
                        /\ \A i \in 1 .. Len(updates[w]) :
                             updates[w][i] \in Updates
                        /\ Len(updates[w]) <= UpdateCap
                        /\ rpc[w].kind = "request" => rpc[w] \in Requests
  /\ outputs \in [Workers -> SUBSET (Jobs \X MapTasks)]
  /\ temps \subseteq Temps
  /\ final \in [OutputPrefixes \X Partitions -> (SUBSET URLs) \cup {None}]

\* The loop waits for its ticker, has to register again, or has not begun.
Waiting == [kind |-> "none"]
Unregistered == [kind |-> "register"]
Starting == [kind |-> "start"]

WorkerInit ==
  /\ alive = Workers
  /\ busy = [w \in Workers |-> FALSE]
  /\ current = [w \in Workers |-> None]
  /\ lastResult = [w \in Workers |-> None]
  /\ runs = [w \in Workers |-> <<>>]
  /\ updates = [w \in Workers |-> <<>>]
  /\ rpc = [w \in Workers |-> Starting]
  /\ stray = {}
  /\ outputs = [w \in Workers |-> {}]
  /\ temps = {}
  /\ final = [o \in OutputPrefixes \X Partitions |-> None]

-----------------------------------------------------------------------------
(* The heartbeat loop                                                      *)

\* The next heartbeat, as soon as the loop is back: the ticker keeps a tick that
\* a slow heartbeat has missed, and nothing waits for the goroutine of the last
\* reply.
Tick(w) ==
  /\ w \in alive
  /\ rpc[w] = Waiting
  /\ rpc' = [rpc EXCEPT ![w] =
               [kind |-> "request", idle |-> ~busy[w],
                task |-> current[w], result |-> lastResult[w]]]
  /\ UNCHANGED <<alive, busy, current, lastResult, runs, updates, outputs,
                 stray, objectVars>>

\* Mutant of GiveUp: a result counts as delivered once it was sent.
GiveUpResult(w) ==
  /\ rpc[w].kind = "request"
  /\ stray' = stray \cup {[worker |-> w, request |-> rpc[w]]}
  /\ rpc' = [rpc EXCEPT ![w] = Waiting]
  /\ lastResult' = [lastResult EXCEPT ![w] = None]
  /\ UNCHANGED <<alive, busy, current, runs, updates, outputs, objectVars>>

\* No reply in time.  The master may have seen the request, or may see it yet.
\* The next heartbeat repeats the result.
GiveUp(w) ==
  /\ rpc[w].kind = "request"
  /\ stray' = stray \cup {[worker |-> w, request |-> rpc[w]]}
  /\ rpc' = [rpc EXCEPT ![w] = Waiting]
  /\ UNCHANGED <<alive, busy, current, lastResult, runs, updates, outputs,
                 objectVars>>

\* Mutant of Receive: an update for the reduce is never dropped.
ReceiveAll(w) ==
  LET m == rpc[w]
      update == [urls |-> m.urls, allMapsComplete |-> m.allMaps]
      stopped(r) == [r EXCEPT !.cancelled = @ \/ r.cancellable]
      kept == IF m.abort THEN [i \in DOMAIN runs[w] |-> stopped(runs[w][i])]
                         ELSE runs[w]
  IN /\ m.kind = "reply"
     /\ lastResult' = [lastResult EXCEPT ![w] =
                         IF @ = m.result THEN None ELSE @]
     /\ runs' = [runs EXCEPT ![w] =
                   kept \o SetToSeq({Launched(a, w) : a \in m.given})]
     /\ updates' = [updates EXCEPT ![w] =
          IF m.urls # {} \/ m.allMaps THEN Append(@, update) ELSE @]
     /\ rpc' = [rpc EXCEPT ![w] = Waiting]
     /\ UNCHANGED <<alive, busy, current, outputs, stray, objectVars>>

\* A reply: the result is delivered, unless there is a new one; a task may have
\* to stop; a goroutine is started, without a look at whether one is running;
\* an update for the reduce is dropped when there is no room for it.
Receive(w) ==
  LET m == rpc[w]
      update == [urls |-> m.urls, allMapsComplete |-> m.allMaps]
      stopped(r) == [r EXCEPT !.cancelled = @ \/ r.cancellable]
      kept == IF m.abort THEN [i \in DOMAIN runs[w] |-> stopped(runs[w][i])]
                         ELSE runs[w]
  IN /\ m.kind = "reply"
     /\ lastResult' = [lastResult EXCEPT ![w] =
                         IF @ = m.result THEN None ELSE @]
     /\ runs' = [runs EXCEPT ![w] =
                   kept \o SetToSeq({Launched(a, w) : a \in m.given})]
     /\ updates' = [updates EXCEPT ![w] =
          IF (m.urls # {} \/ m.allMaps) /\ Len(@) < UpdateCap
            THEN Append(@, update) ELSE @]
     /\ rpc' = [rpc EXCEPT ![w] = Waiting]
     /\ UNCHANGED <<alive, busy, current, outputs, stray, objectVars>>

\* Registration fails: the next heartbeat will be answered NotFound again.  (A
\* process whose first registration fails ends.)
RegistrationFails(w) ==
  /\ rpc[w] = Unregistered
  /\ rpc' = [rpc EXCEPT ![w] = Waiting]
  /\ UNCHANGED <<alive, busy, current, lastResult, runs, updates, outputs,
                 stray, objectVars>>

-----------------------------------------------------------------------------
(* A goroutine of handleAssignment, the i-th of w                          *)

At(w, i, phase, stage) ==
  /\ i \in DOMAIN runs[w]
  /\ runs[w][i].stage = stage
  /\ runs[w][i].work.phase = phase

Move(w, i, r) == runs' = [runs EXCEPT ![w][i] = r]
To(w, i, stage) == Move(w, i, [runs[w][i] EXCEPT !.stage = stage])

\* w.cancelTask is one variable: the goroutine that starts takes it over.
SetBusy(w, i) ==
  /\ i \in DOMAIN runs[w]
  /\ runs[w][i].stage = "launched"
  /\ busy' = [busy EXCEPT ![w] = TRUE]
  /\ runs' = [runs EXCEPT ![w] = [k \in DOMAIN @ |->
       IF k = i THEN [@[k] EXCEPT !.cancellable = TRUE, !.stage = "busy"]
                ELSE [@[k] EXCEPT !.cancellable = FALSE]]]
  /\ UNCHANGED <<alive, current, lastResult, updates, rpc, outputs, stray,
                 objectVars>>

SetCurrentTask(w, i) ==
  /\ i \in DOMAIN runs[w]
  /\ runs[w][i].stage = "busy"
  /\ current' = [current EXCEPT ![w] = runs[w][i].work]
  /\ To(w, i, "working")
  /\ UNCHANGED <<alive, busy, lastResult, updates, rpc, outputs, stray,
                 objectVars>>

\* executeMap publishes its partition store.
MapSucceeds(w, i) ==
  LET k == runs[w][i].work IN
  /\ At(w, i, "map", "working")
  /\ outputs' = [outputs EXCEPT ![w] = @ \cup {<<k.job, k.task>>}]
  /\ To(w, i, "SUCCESS")
  /\ UNCHANGED <<alive, busy, current, lastResult, updates, rpc, stray,
                 objectVars>>

\* executeReduce empties the channel before it gathers.
DrainUpdates(w, i) ==
  /\ At(w, i, "reduce", "working")
  /\ updates' = [updates EXCEPT ![w] = <<>>]
  /\ To(w, i, "gathering")
  /\ UNCHANGED <<alive, busy, current, lastResult, rpc, outputs, stray,
                 objectVars>>

Serves(u) == u.worker \in alive /\ <<u.job, u.task>> \in outputs[u.worker]

DownloadPartition(w, i) ==
  LET r == runs[w][i] IN
  /\ At(w, i, "reduce", "gathering")
  /\ \E u \in r.pending :
       IF Serves(u)
         THEN Move(w, i, [r EXCEPT !.pending = @ \ {u},
                                   !.downloaded = @ \cup {u}])
         ELSE To(w, i, "FAILED")
  /\ UNCHANGED <<alive, busy, current, lastResult, updates, rpc, outputs, stray,
                 objectVars>>

TakeUpdate(w, i) ==
  LET r == runs[w][i] IN
  /\ At(w, i, "reduce", "gathering")
  /\ r.pending = {} /\ ~r.allMapsComplete
  /\ updates[w] # <<>>
  /\ Move(w, i, [r EXCEPT !.allMapsComplete = Head(updates[w]).allMapsComplete,
                          !.pending = Head(updates[w]).urls \ r.downloaded])
  /\ updates' = [updates EXCEPT ![w] = Tail(@)]
  /\ UNCHANGED <<alive, busy, current, lastResult, rpc, outputs, stray,
                 objectVars>>

\* Mutant of Upload: the loop ends with the flag, whatever is left to gather.
UploadEarly(w, i) ==
  LET r == runs[w][i] IN
  /\ At(w, i, "reduce", "gathering")
  /\ r.allMapsComplete
  /\ temps' = temps \cup {[job |-> r.work.job, task |-> r.work.task,
                           id |-> r.work.id, content |-> r.downloaded]}
  /\ To(w, i, "SUCCESS")
  /\ UNCHANGED <<alive, busy, current, lastResult, updates, rpc, outputs, stray,
                 final>>

\* The gather loop ends; the lines are sorted and reduced, the result is put.
Upload(w, i) ==
  LET r == runs[w][i] IN
  /\ At(w, i, "reduce", "gathering")
  /\ r.pending = {} /\ r.allMapsComplete
  /\ temps' = temps \cup {[job |-> r.work.job, task |-> r.work.task,
                           id |-> r.work.id, content |-> r.downloaded]}
  /\ To(w, i, "SUCCESS")
  /\ UNCHANGED <<alive, busy, current, lastResult, updates, rpc, outputs, stray,
                 final>>

TempsOf(k) == {t \in temps : t.job = k.job /\ t.task = k.task /\ t.id = k.id}

\* executePromotion: CopyObject, which fails when the temporary object is gone.
CopyObject(w, i) ==
  LET k == runs[w][i].work IN
  /\ At(w, i, "promotion", "working")
  /\ \/ TempsOf(k) = {} /\ To(w, i, "FAILED") /\ UNCHANGED final
     \/ \E t \in TempsOf(k) :
          /\ final' = [final EXCEPT ![<<OutputPrefix[k.job], k.task>>] = t.content]
          /\ To(w, i, "copied")
  /\ UNCHANGED <<alive, busy, current, lastResult, updates, rpc, outputs, stray,
                 temps>>

\* Then RemoveObject, whose failure is only logged.
RemoveObject(w, i) ==
  /\ At(w, i, "promotion", "copied")
  /\ \/ temps' = temps \ TempsOf(runs[w][i].work)
     \/ UNCHANGED temps
  /\ To(w, i, "SUCCESS")
  /\ UNCHANGED <<alive, busy, current, lastResult, updates, rpc, outputs, stray,
                 final>>

\* Anything that can go wrong before the task has its effect: the sources, the
\* child process, S3; or its context is cancelled.
Fail(w, i) ==
  /\ i \in DOMAIN runs[w]
  /\ runs[w][i].stage \in {"working", "gathering"}
  /\ To(w, i, "FAILED")
  /\ UNCHANGED <<alive, busy, current, lastResult, updates, rpc, outputs, stray,
                 objectVars>>

\* Mutant of Finish: the worker stays BUSY.
StayBusy(w, i) ==
  /\ i \in DOMAIN runs[w]
  /\ runs[w][i].stage \in Outcomes
  /\ lastResult' = [lastResult EXCEPT ![w] =
                      <<runs[w][i].work, runs[w][i].stage>>]
  /\ current' = [current EXCEPT ![w] = None]
  /\ runs' = [runs EXCEPT ![w] = RemoveAt(
       [k \in DOMAIN @ |-> [@[k] EXCEPT !.cancellable = FALSE]], i)]
  /\ UNCHANGED <<alive, busy, updates, rpc, outputs, stray, objectVars>>

\* The result is kept for the next heartbeat.
Finish(w, i) ==
  /\ i \in DOMAIN runs[w]
  /\ runs[w][i].stage \in Outcomes
  /\ lastResult' = [lastResult EXCEPT ![w] =
                      <<runs[w][i].work, runs[w][i].stage>>]
  /\ busy' = [busy EXCEPT ![w] = FALSE]
  /\ current' = [current EXCEPT ![w] = None]
  /\ runs' = [runs EXCEPT ![w] = RemoveAt(
       [k \in DOMAIN @ |-> [@[k] EXCEPT !.cancellable = FALSE]], i)]
  /\ UNCHANGED <<alive, updates, rpc, outputs, stray, objectVars>>

\* Every step of a goroutine but a failure that nothing has asked for.
RunStep(w, i) ==
  \/ SetBusy(w, i)
  \/ SetCurrentTask(w, i)
  \/ MapSucceeds(w, i)
  \/ DrainUpdates(w, i)
  \/ DownloadPartition(w, i)
  \/ TakeUpdate(w, i)
  \/ Upload(w, i)
  \/ CopyObject(w, i)
  \/ RemoveObject(w, i)
  \/ Finish(w, i)
  \/ Fail(w, i) /\ runs[w][i].cancelled

-----------------------------------------------------------------------------
\* The process is gone with its memory.  Its last heartbeat may still arrive.
WorkerCrashes(w) ==
  /\ w \in alive
  /\ alive' = alive \ {w}
  /\ busy' = [busy EXCEPT ![w] = FALSE]
  /\ current' = [current EXCEPT ![w] = None]
  /\ lastResult' = [lastResult EXCEPT ![w] = None]
  /\ runs' = [runs EXCEPT ![w] = <<>>]
  /\ updates' = [updates EXCEPT ![w] = <<>>]
  /\ rpc' = [rpc EXCEPT ![w] = Waiting]
  /\ outputs' = [outputs EXCEPT ![w] = {}]
  /\ stray' = IF rpc[w].kind = "request"
                THEN stray \cup {[worker |-> w, request |-> rpc[w]]} ELSE stray
  /\ UNCHANGED objectVars

=============================================================================
