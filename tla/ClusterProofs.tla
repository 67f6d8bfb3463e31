---------------------------- MODULE ClusterProofs ----------------------------
(***************************************************************************)
(* Proofs about Cluster: a worker whose goroutines start promptly is on    *)
(* one task at a time; the workers say nothing that the open master does   *)
(* not expect, so that what it guarantees holds in the cluster; every      *)
(* variable keeps its type; what workers say is true, whatever they do and *)
(* whatever happens to their messages; and so the cluster implements       *)
(* Control.                                                                *)
(***************************************************************************)
EXTENDS Cluster, DurabilityProofs, FiniteSetTheorems

-----------------------------------------------------------------------------
(* One task at a time                                                      *)

LEMMA SetToSeqOfOne ==
  /\ SetToSeq({}) = <<>>
  /\ \A x : SetToSeq({x}) = <<x>>
<1>1. SetToSeq({}) = <<>>
  <2>1. Cardinality({}) = 0
    BY FS_EmptySet
  <2>2. \A f \in [1 .. 0 -> {}] : f = <<>>
    OBVIOUS
  <2>3. <<>> \in [1 .. 0 -> {}] /\ IsInjective(<<>>)
    BY DEF IsInjective
  <2> QED BY <2>1, <2>2, <2>3 DEF SetToSeq
<1>2. ASSUME NEW x PROVE SetToSeq({x}) = <<x>>
  <2>1. Cardinality({x}) = 1
    BY FS_Singleton
  <2>2. \A f \in [1 .. 1 -> {x}] : f = <<x>>
    OBVIOUS
  <2>3. <<x>> \in [1 .. 1 -> {x}] /\ IsInjective(<<x>>)
    BY DEF IsInjective
  <2> QED BY <2>1, <2>2, <2>3 DEF SetToSeq
<1> QED BY <1>1, <1>2

\* A worker that is on a task has no say in getting another: it is BUSY, or its
\* goroutine is about to be started, and neither the heartbeat under way nor
\* its reply can bring an assignment.
Alone(w) ==
  \/ runs[w] = <<>>
  \/ /\ \E r : runs[w] = <<r>> /\ (r.stage = "launched" \/ busy[w])
     /\ rpc[w].kind = "request" => ~rpc[w].idle
     /\ rpc[w].kind = "reply" => rpc[w].given = {}
OneTask ==
  /\ DOMAIN runs = Workers /\ DOMAIN busy = Workers /\ DOMAIN rpc = Workers
  /\ \A w \in Workers : /\ Alone(w)
                        /\ rpc[w].kind = "reply" => AtMostOne(rpc[w].given)

LEMMA InitOneTask == ClusterInit => OneTask
BY DEF ClusterInit, WorkerInit, OneTask, Alone, Starting

\* A step of worker w alone.
LEMMA OthersStay ==
  ASSUME OneTask, NEW w \in Workers,
         DOMAIN runs' = Workers, DOMAIN busy' = Workers, DOMAIN rpc' = Workers,
         \A v \in Workers \ {w} : /\ runs'[v] = runs[v]
                                  /\ busy'[v] = busy[v]
                                  /\ rpc'[v] = rpc[v],
         Alone(w)', rpc'[w].kind = "reply" => AtMostOne(rpc'[w].given)
  PROVE  OneTask'
BY DEF OneTask, Alone

\* A goroutine that has begun makes a step.
LEMMA MoveStep ==
  ASSUME OneTask, NEW w \in Workers, NEW i \in DOMAIN runs[w], NEW r,
         runs[w][i].stage # "launched", Move(w, i, r), UNCHANGED <<busy, rpc>>
  PROVE  OneTask'
<1>1. PICK q : runs[w] = <<q>>
  BY DEF OneTask, Alone
<1>2. i = 1 /\ busy[w]
  BY <1>1 DEF OneTask, Alone
<1>3. runs'[w] = <<r>>
  BY <1>1, <1>2 DEF Move, OneTask
<1>4. Alone(w)'
  BY <1>1, <1>2, <1>3 DEF OneTask, Alone
<1> QED BY <1>4, OthersStay DEF Move, OneTask

LEMMA OneElement ==
  ASSUME NEW f, f = [k \in DOMAIN f |-> f[k]], DOMAIN f = 1 .. 1
  PROVE  f = <<f[1]>>
OBVIOUS

LEMMA SetBusyOneTask ==
  ASSUME OneTask, NEW w \in Workers, NEW i, SetBusy(w, i)
  PROVE  OneTask'
<1> DEFINE new == [k \in DOMAIN runs[w] |->
               IF k = i
                 THEN [runs[w][k] EXCEPT !.cancellable = TRUE, !.stage = "busy"]
                 ELSE [runs[w][k] EXCEPT !.cancellable = FALSE]]
<1>1. /\ i \in DOMAIN runs[w]
      /\ runs' = [runs EXCEPT ![w] = new]
      /\ busy' = [busy EXCEPT ![w] = TRUE]
      /\ UNCHANGED rpc
  <2>1. i \in DOMAIN runs[w] /\ busy' = [busy EXCEPT ![w] = TRUE]
    BY Zenon DEF SetBusy
  <2>2. UNCHANGED rpc
    BY Zenon DEF SetBusy
  <2>3. runs' = [runs EXCEPT ![w] = new]
    BY Zenon DEF SetBusy
  <2> HIDE DEF new
  <2> QED BY <2>1, <2>2, <2>3
<1> HIDE DEF new
<1>2. PICK q : runs[w] = <<q>>
  BY <1>1 DEF OneTask, Alone
<1>3. new = <<new[1]>>
  <2>1. new = [k \in DOMAIN new |-> new[k]] /\ DOMAIN new = DOMAIN runs[w]
    BY Zenon DEF new
  <2>2. DOMAIN runs[w] = 1 .. 1
    BY <1>2
  <2> QED BY <2>1, <2>2, OneElement
<1>4. runs'[w] = <<new[1]>> /\ busy'[w]
  BY <1>1, <1>3 DEF OneTask
<1>5. Alone(w)'
  BY <1>1, <1>2, <1>4 DEF OneTask, Alone
<1> QED BY <1>1, <1>5, OthersStay DEF OneTask

LEMMA FinishOneTask ==
  ASSUME OneTask, NEW w \in Workers, NEW i, Finish(w, i)
  PROVE  OneTask'
<1> DEFINE stopped == [k \in DOMAIN runs[w] |->
                         [runs[w][k] EXCEPT !.cancellable = FALSE]]
<1>1. /\ i \in DOMAIN runs[w]
      /\ runs' = [runs EXCEPT ![w] = RemoveAt(stopped, i)]
      /\ busy' = [busy EXCEPT ![w] = FALSE]
      /\ UNCHANGED rpc
  BY Zenon DEF Finish
<1>2. PICK q : runs[w] = <<q>>
  BY <1>1 DEF OneTask, Alone
<1>3. i = 1
  BY <1>1, <1>2
<1>4. stopped = <<stopped[1]>>
  <2>1. /\ stopped = [k \in DOMAIN stopped |-> stopped[k]]
        /\ DOMAIN stopped = DOMAIN runs[w]
    BY Zenon
  <2>2. DOMAIN runs[w] = 1 .. 1
    BY <1>2
  <2> HIDE DEF stopped
  <2> QED BY <2>1, <2>2, OneElement
<1> HIDE DEF stopped
<1>5. RemoveAt(stopped, 1) = <<>>
  <2>1. \A r : RemoveAt(<<r>>, 1) = <<>>
    BY DEF RemoveAt
  <2> QED BY <1>4, <2>1
<1>6. Alone(w)'
  BY <1>1, <1>3, <1>5 DEF OneTask, Alone
<1> QED BY <1>1, <1>6, OthersStay DEF OneTask

LEMMA RunStepOneTask ==
  ASSUME OneTask, NEW w \in Workers, NEW i \in DOMAIN runs[w],
         RunStep(w, i) \/ Fail(w, i)
  PROVE  OneTask'
<1>1. CASE SetBusy(w, i)
  BY <1>1, SetBusyOneTask
<1>2. CASE Finish(w, i)
  BY <1>2, FinishOneTask
<1>3. ASSUME \/ SetCurrentTask(w, i) \/ MapSucceeds(w, i) \/ DrainUpdates(w, i)
             \/ Upload(w, i) \/ RemoveObject(w, i) \/ Fail(w, i)
      PROVE  OneTask'
  <2>1. /\ \E stage : To(w, i, stage)
        /\ runs[w][i].stage # "launched"
        /\ UNCHANGED <<busy, rpc>>
    BY <1>3 DEF SetCurrentTask, MapSucceeds, DrainUpdates, Upload, RemoveObject,
       Fail, At
  <2> QED BY <2>1, MoveStep DEF To
<1>4. CASE DownloadPartition(w, i)
  <2>1. /\ \E r : Move(w, i, r)
        /\ runs[w][i].stage # "launched"
        /\ UNCHANGED <<busy, rpc>>
    BY <1>4 DEF DownloadPartition, At, To
  <2> QED BY <2>1, MoveStep
<1>5. CASE TakeUpdate(w, i)
  <2>1. /\ \E r : Move(w, i, r)
        /\ runs[w][i].stage # "launched"
        /\ UNCHANGED <<busy, rpc>>
    BY <1>5 DEF TakeUpdate, At
  <2> QED BY <2>1, MoveStep
<1>6. CASE CopyObject(w, i)
  <2>1. /\ \E stage : To(w, i, stage)
        /\ runs[w][i].stage # "launched"
        /\ UNCHANGED <<busy, rpc>>
    BY <1>6 DEF CopyObject, At
  <2> QED BY <2>1, MoveStep DEF To
<1> QED BY <1>1, <1>2, <1>3, <1>4, <1>5, <1>6 DEF RunStep

LEMMA TickOneTask ==
  ASSUME PromptStart, OneTask, NEW w \in Workers, InTime(w)
  PROVE  OneTask'
<1>1. /\ \A i \in 1 .. Len(runs[w]) : runs[w][i].stage # "launched"
      /\ rpc' = [rpc EXCEPT ![w] =
                   [kind |-> "request", idle |-> ~busy[w],
                    task |-> current[w], result |-> lastResult[w]]]
      /\ UNCHANGED <<busy, runs>>
  BY DEF InTime, Begun, Tick
<1>2. rpc'[w].kind = "request" /\ rpc'[w].idle = ~busy[w]
  BY <1>1 DEF OneTask
<1>3. runs[w] = <<>> \/ busy[w]
  BY <1>1 DEF OneTask, Alone
<1>4. Alone(w)'
  BY <1>1, <1>2, <1>3 DEF OneTask, Alone
<1> QED BY <1>1, <1>2, <1>4, OthersStay DEF OneTask

\* The loop is waiting again, with the goroutines as they are.
LEMMA LoopWaits ==
  ASSUME OneTask, NEW w \in Workers, NEW m,
         m.kind \notin {"request", "reply"}, rpc' = [rpc EXCEPT ![w] = m],
         UNCHANGED <<busy, runs>>
  PROVE  OneTask'
<1>1. rpc'[w] = m
  BY DEF OneTask
<1>2. Alone(w)'
  BY <1>1 DEF OneTask, Alone
<1> QED BY <1>1, <1>2, OthersStay DEF OneTask

LEMMA ReceiveOneTask ==
  ASSUME OneTask, NEW w \in Workers, Receive(w)
  PROVE  OneTask'
<1> DEFINE m == rpc[w]
           stopped(r) == [r EXCEPT !.cancelled = @ \/ r.cancellable]
           aborted == [i \in DOMAIN runs[w] |-> stopped(runs[w][i])]
           kept == IF m.abort THEN aborted ELSE runs[w]
           new == {Launched(a, w) : a \in m.given}
<1>1. /\ m.kind = "reply"
      /\ runs' = [runs EXCEPT ![w] = kept \o SetToSeq(new)]
      /\ rpc' = [rpc EXCEPT ![w] = Waiting]
      /\ UNCHANGED busy
  BY Zenon DEF Receive
<1>2. rpc'[w] = Waiting /\ runs'[w] = kept \o SetToSeq(new)
  BY <1>1 DEF OneTask
<1>3. CASE m.given = {}
  <2>1. SetToSeq(new) = <<>>
    BY <1>3, SetToSeqOfOne
  <2>2. CASE runs[w] = <<>>
    <3>1. aborted = <<>>
      BY <2>2
    <3>2. runs'[w] = <<>>
      BY <1>2, <2>1, <2>2, <3>1
    <3>3. Alone(w)'
      BY <3>2 DEF Alone
    <3> QED BY <1>1, <1>2, <3>3, OthersStay DEF OneTask, Waiting
  <2>3. ASSUME NEW q, runs[w] = <<q>>, q.stage = "launched" \/ busy[w]
        PROVE  OneTask'
    <3>1. aborted = <<stopped(q)>>
      BY <2>3
    <3>2. stopped(q).stage = q.stage
      OBVIOUS
    <3> HIDE DEF stopped, aborted, new
    <3>3. PICK r : kept = <<r>> /\ r.stage = q.stage
      BY <2>3, <3>1, <3>2
    <3>4. runs'[w] = <<r>>
      BY <1>2, <2>1, <3>3
    <3>5. Alone(w)'
      BY <1>1, <1>2, <2>3, <3>3, <3>4 DEF Alone, Waiting
    <3> QED BY <1>1, <1>2, <3>5, OthersStay DEF OneTask, Waiting
  <2> QED BY <2>2, <2>3 DEF OneTask, Alone
<1>4. CASE m.given # {}
  <2>1. runs[w] = <<>> /\ AtMostOne(m.given)
    BY <1>1, <1>4 DEF OneTask, Alone
  <2>2. PICK a : m.given = {a}
    BY <1>4, <2>1 DEF AtMostOne
  <2>3. new = {Launched(a, w)}
    BY <2>2
  <2>4. SetToSeq(new) = <<Launched(a, w)>>
    BY <2>3, SetToSeqOfOne
  <2>5. aborted = <<>>
    BY <2>1
  <2>6. Launched(a, w).stage = "launched"
    BY DEF Launched
  <2> HIDE DEF new, aborted
  <2>7. runs'[w] = <<Launched(a, w)>>
    BY <1>2, <2>1, <2>4, <2>5
  <2> DEFINE r == Launched(a, w)
  <2> HIDE DEF r, kept, stopped, m
  <2>8. Alone(w)'
    <3>1. runs'[w] = <<r>> /\ r.stage = "launched" /\ rpc'[w] = Waiting
      BY <1>2, <2>6, <2>7 DEF r
    <3> QED BY <3>1 DEF Alone, Waiting
  <2> QED BY <1>1, <1>2, <2>8, OthersStay DEF OneTask, Waiting
<1> QED BY <1>3, <1>4

LEMMA AnswerOneTask ==
  ASSUME OneTask, NEW w \in Workers, Answer(w)
  PROVE  OneTask'
<1>1. UNCHANGED <<busy, runs>> /\ rpc[w].kind = "request"
  BY DEF Answer
<1>2. CASE w \in registered
  <2>1. PICK slow \in SlowFor(rpc[w]) :
          rpc' = [rpc EXCEPT ![w] = Reply(w, rpc[w], slow)]
    BY <1>2 DEF Answer
  <2>2. /\ rpc'[w].kind = "reply"
        /\ rpc'[w].given =
             Heard(w, rpc[w].idle, ResultIn(rpc[w]), slow).given
    BY <2>1 DEF OneTask, Reply
  <2>3. /\ AtMostOne(rpc'[w].given)
        /\ ~rpc[w].idle => rpc'[w].given = {}
    <3>1. AtMostOne(rpc'[w].given)
      BY <2>2, HeardOffer DEF Offer
    <3>2. ~rpc[w].idle => rpc'[w].given = {}
      BY <2>2 DEF Heard, Nothing
    <3> QED BY <3>1, <3>2
  <2>4. Alone(w)'
    BY <1>1, <2>2, <2>3 DEF OneTask, Alone
  <2> QED BY <1>1, <2>1, <2>3, <2>4, OthersStay DEF OneTask
<1>3. CASE w \notin registered
  BY <1>1, <1>3, LoopWaits DEF Answer, Unregistered
<1> QED BY <1>2, <1>3

LEMMA DieOneTask ==
  ASSUME OneTask, NEW w \in Workers, WorkerCrashes(w)
  PROVE  OneTask'
<1>1. /\ runs' = [runs EXCEPT ![w] = <<>>]
      /\ busy' = [busy EXCEPT ![w] = FALSE]
      /\ rpc' = [rpc EXCEPT ![w] = Waiting]
  BY DEF WorkerCrashes
<1>2. runs'[w] = <<>> /\ rpc'[w] = Waiting
  BY <1>1 DEF OneTask
<1>3. Alone(w)'
  BY <1>2 DEF Alone
<1> QED BY <1>1, <1>2, <1>3, OthersStay DEF OneTask, Waiting

LEMMA NextOneTask ==
  ASSUME PromptStart, OneTask, [ClusterNext]_clusterVars
  PROVE  OneTask'
<1>1. ASSUME UNCHANGED <<busy, runs, rpc>> PROVE OneTask'
  BY <1>1 DEF OneTask, Alone
<1>2. ASSUME NEW w \in Workers,
             \/ Answer(w) \/ Join(w) \/ Loop(w) \/ LosePatience(w)
             \/ \E i \in DOMAIN runs[w] : Step(w, i)
             \/ TaskFails(w) \/ Die(w)
      PROVE  OneTask'
  <2>1. CASE Answer(w)
    BY <2>1, AnswerOneTask
  <2>2. CASE Join(w)
    BY <2>2, LoopWaits DEF Join, Waiting
  <2>3. CASE Loop(w)
    BY <2>3, TickOneTask, ReceiveOneTask DEF Loop
  <2>4. CASE LosePatience(w)
    BY <2>4, LoopWaits DEF LosePatience, GiveUp, RegistrationFails, Waiting
  <2>5. CASE \E i \in DOMAIN runs[w] : Step(w, i)
    BY <2>5, RunStepOneTask DEF Step
  <2>6. CASE TaskFails(w)
    BY <2>6, RunStepOneTask DEF TaskFails
  <2>7. CASE Die(w)
    BY <2>7, DieOneTask DEF Die
  <2> QED BY <1>2, <2>1, <2>2, <2>3, <2>4, <2>5, <2>6, <2>7
<1>3. ASSUME \/ \E w \in Workers : EvictSlow(w) \/ EvictDead(w)
             \/ \E x \in stray : HearStray(x)
             \/ Submit \/ Enqueue \/ Cancel \/ DeleteOutput
             \/ Housekeeping \/ MasterEnds
             \/ UNCHANGED clusterVars
      PROVE  UNCHANGED <<busy, runs, rpc>>
  BY <1>3 DEF EvictSlow, EvictDead, HearStray, Submit, Enqueue, Cancel,
     DeleteOutput, Housekeeping, MasterEnds, clusterVars, processVars, localVars
<1> QED BY <1>1, <1>2, <1>3 DEF ClusterNext

-----------------------------------------------------------------------------
(* What workers know                                                       *)

KnownRequests(w) ==
  [kind : {"request"}, idle : BOOLEAN, task : Given(w) \cup {None},
   result : (Given(w) \X Outcomes) \cup {None}]

KnownReply(w, m) ==
  /\ AtMostOne(m.given)
  /\ \A a \in m.given : Launched(a, w) \in Runs /\ Issue(a, w) \in issued
  /\ [urls |-> m.urls, allMapsComplete |-> m.allMaps] \in Updates

\* The attempts that a worker works on, names and reports are those that the
\* master has given to it.
Informed(w) ==
  /\ current[w] \in Given(w) \cup {None}
  /\ lastResult[w] \in (Given(w) \X Outcomes) \cup {None}
  /\ \A i \in DOMAIN runs[w] : runs[w][i].work \in Given(w)
  /\ rpc[w].kind = "request" => rpc[w] \in KnownRequests(w)
  /\ rpc[w].kind = "reply" => KnownReply(w, rpc[w])

Processes ==
  /\ alive \subseteq Workers
  /\ busy \in [Workers -> BOOLEAN]
  /\ current \in [Workers -> Issues \cup {None}]
  /\ lastResult \in [Workers -> Reports \cup {None}]
  /\ runs \in [Workers -> Seq(Runs)]
  /\ updates \in [Workers -> Seq(Updates)]
  /\ \A w \in Workers : Len(updates[w]) <= UpdateCap
  /\ DOMAIN rpc = Workers
  /\ outputs \in [Workers -> SUBSET (Jobs \X MapTasks)]
  /\ temps \subseteq Temps
  /\ final \in [OutputPrefixes \X Partitions -> (SUBSET URLs) \cup {None}]

Mailbox == \A x \in stray : x.worker \in Workers
                              /\ x.request \in KnownRequests(x.worker)

ProcessInv == Processes /\ Mailbox /\ \A w \in Workers : Informed(w)

LEMMA InformedStays ==
  ASSUME NEW w \in Workers, Informed(w), issued \subseteq issued',
         current'[w] = current[w], lastResult'[w] = lastResult[w],
         runs'[w] = runs[w], rpc'[w] = rpc[w]
  PROVE  Informed(w)'
<1>1. Given(w) \subseteq Given(w)'
  BY DEF Given
<1>2. KnownRequests(w) \subseteq KnownRequests(w)'
  BY <1>1 DEF KnownRequests
<1>3. \A m : KnownReply(w, m) => KnownReply(w, m)'
  BY DEF KnownReply
<1> QED BY <1>1, <1>2, <1>3 DEF Informed

LEMMA MailboxStays ==
  ASSUME Mailbox, issued \subseteq issued', stray' \subseteq stray
  PROVE  Mailbox'
<1>1. ASSUME NEW w PROVE KnownRequests(w) \subseteq KnownRequests(w)'
  BY DEF Given, KnownRequests
<1> QED BY <1>1 DEF Mailbox

LEMMA InitProcess == ClusterInit => ProcessInv
<1> SUFFICES ASSUME ClusterInit PROVE ProcessInv
  OBVIOUS
<1>1. Processes
  <2>1. /\ \A w \in Workers : Len(updates[w]) <= UpdateCap
        /\ UpdateCap \in Nat
    BY UpdateCapAssumption DEF ClusterInit, WorkerInit
  <2> QED BY <2>1 DEF ClusterInit, WorkerInit, Processes
<1>2. Mailbox
  BY DEF ClusterInit, WorkerInit, Mailbox
<1>3. \A w \in Workers : Informed(w)
  BY DEF ClusterInit, WorkerInit, Informed, Starting
<1> QED BY <1>1, <1>2, <1>3 DEF ProcessInv

\* A step of worker w alone, which the others only see as what w has learnt.
LEMMA ProcessStep ==
  ASSUME ProcessInv, NEW w \in Workers, issued \subseteq issued',
         Processes', Mailbox', Informed(w)',
         \A v \in Workers \ {w} : /\ current'[v] = current[v]
                                  /\ lastResult'[v] = lastResult[v]
                                  /\ runs'[v] = runs[v]
                                  /\ rpc'[v] = rpc[v]
  PROVE  ProcessInv'
BY InformedStays DEF ProcessInv

-----------------------------------------------------------------------------
(* The steps of a goroutine                                                *)

LEMMA RunFields ==
  ASSUME NEW r \in Runs
  PROVE  /\ r.work \in Issues /\ r.pending \subseteq URLs
         /\ r.downloaded \subseteq URLs
         /\ \A stage \in Stages : /\ [r EXCEPT !.stage = stage] \in Runs
                                  /\ [r EXCEPT !.stage = stage].work = r.work
BY DEF Runs

\* A goroutine that keeps its work makes a step.
LEMMA MoveProcess ==
  ASSUME ProcessInv, NEW w \in Workers, NEW i \in DOMAIN runs[w],
         NEW r \in Runs, r.work = runs[w][i].work, Move(w, i, r)
  PROVE  /\ runs' \in [Workers -> Seq(Runs)]
         /\ \A v \in Workers \ {w} : runs'[v] = runs[v]
         /\ \A k \in DOMAIN runs'[w] : runs'[w][k].work \in Given(w)
<1>1. runs \in [Workers -> Seq(Runs)]
  BY DEF ProcessInv, Processes
<1>2. [runs[w] EXCEPT ![i] = r] \in Seq(Runs)
  BY <1>1
<1>3. runs' = [runs EXCEPT ![w] = [runs[w] EXCEPT ![i] = r]]
  BY DEF Move
<1>4. runs'[w] = [runs[w] EXCEPT ![i] = r]
  BY <1>1, <1>3
<1> QED BY <1>1, <1>2, <1>3, <1>4 DEF ProcessInv, Informed

Objects == /\ outputs \in [Workers -> SUBSET (Jobs \X MapTasks)]
           /\ temps \subseteq Temps
           /\ final \in [OutputPrefixes \X Partitions -> (SUBSET URLs) \cup {None}]

LEMMA MoveStepProcess ==
  ASSUME ProcessInv, NEW w \in Workers, NEW i \in DOMAIN runs[w],
         NEW r \in Runs, r.work = runs[w][i].work, Move(w, i, r),
         Objects', UNCHANGED <<alive, busy, lastResult, rpc, stray, issued>>,
         \/ UNCHANGED current
         \/ current' = [current EXCEPT ![w] = runs[w][i].work],
         \/ UNCHANGED updates
         \/ updates' = [updates EXCEPT ![w] = <<>>]
         \/ updates[w] # <<>> /\ updates' = [updates EXCEPT ![w] = Tail(@)]
  PROVE  ProcessInv'
<1>1. /\ runs' \in [Workers -> Seq(Runs)]
      /\ \A v \in Workers \ {w} : runs'[v] = runs[v]
      /\ \A k \in DOMAIN runs'[w] : runs'[w][k].work \in Given(w)
  BY MoveProcess
<1>2. /\ current \in [Workers -> Issues \cup {None}]
      /\ updates \in [Workers -> Seq(Updates)]
      /\ \A v \in Workers : Len(updates[v]) <= UpdateCap
      /\ runs[w][i].work \in Issues
      /\ Given(w)' = Given(w)
      /\ runs[w][i].work \in Given(w)
  <2>1. runs[w][i] \in Runs
    BY DEF ProcessInv, Processes
  <2> QED BY <2>1, RunFields DEF ProcessInv, Processes, Informed, Given
<1>3. /\ current' \in [Workers -> Issues \cup {None}]
      /\ \A v \in Workers \ {w} : current'[v] = current[v]
      /\ current'[w] \in Given(w) \cup {None}
  BY <1>2 DEF ProcessInv, Informed
<1>4. /\ updates' \in [Workers -> Seq(Updates)]
      /\ \A v \in Workers : Len(updates'[v]) <= UpdateCap
  <2>1. CASE UNCHANGED updates
    BY <1>2, <2>1
  <2>2. CASE updates' = [updates EXCEPT ![w] = <<>>]
    BY <1>2, <2>2, UpdateCapAssumption
  <2>3. CASE updates[w] # <<>> /\ updates' = [updates EXCEPT ![w] = Tail(@)]
    <3>1. /\ Tail(updates[w]) \in Seq(Updates)
          /\ Len(Tail(updates[w])) = Len(updates[w]) - 1
      BY <1>2, <2>3
    <3>2. /\ updates' \in [Workers -> Seq(Updates)]
          /\ \A v \in Workers :
               updates'[v] = IF v = w THEN Tail(updates[w]) ELSE updates[v]
      BY <1>2, <2>3, <3>1
    <3>3. Len(updates[w]) \in Nat /\ Len(updates[w]) <= UpdateCap
      BY <1>2
    <3> QED BY <1>2, <3>1, <3>2, <3>3, UpdateCapAssumption
  <2> QED BY <2>1, <2>2, <2>3
<1>5. Processes'
  BY <1>1, <1>3, <1>4 DEF ProcessInv, Processes, Objects
<1>6. Mailbox'
  BY MailboxStays DEF ProcessInv
<1>7. Informed(w)'
  <2>1. KnownRequests(w)' = KnownRequests(w)
    BY <1>2 DEF KnownRequests
  <2> QED BY <1>1, <1>2, <1>3, <2>1 DEF ProcessInv, Informed, KnownReply
<1> QED BY <1>1, <1>3, <1>5, <1>6, <1>7, ProcessStep

LEMMA RunOf ==
  ASSUME ProcessInv, NEW w \in Workers, NEW i \in DOMAIN runs[w]
  PROVE  /\ runs[w][i] \in Runs /\ runs[w][i].work \in Issues
         /\ runs[w][i].work \in Given(w)
<1>1. runs[w][i] \in Runs
  BY DEF ProcessInv, Processes
<1> QED BY <1>1, RunFields DEF ProcessInv, Informed

\* A goroutine that only comes to another stage, and what it leaves in S3.
LEMMA ToProcess ==
  ASSUME ProcessInv, NEW w \in Workers, NEW i \in DOMAIN runs[w],
         NEW stage \in Stages, To(w, i, stage), Objects',
         UNCHANGED <<alive, busy, lastResult, rpc, stray, issued>>,
         \/ UNCHANGED current
         \/ current' = [current EXCEPT ![w] = runs[w][i].work],
         \/ UNCHANGED updates
         \/ updates' = [updates EXCEPT ![w] = <<>>]
  PROVE  ProcessInv'
<1> DEFINE r == [runs[w][i] EXCEPT !.stage = stage]
<1>1. r \in Runs /\ r.work = runs[w][i].work
  BY RunOf, RunFields
<1>2. Move(w, i, r)
  BY DEF To
<1> HIDE DEF r
<1> QED BY <1>1, <1>2, MoveStepProcess

LEMMA StageNames ==
  /\ "busy" \in Stages /\ "working" \in Stages /\ "gathering" \in Stages
  /\ "copied" \in Stages /\ "SUCCESS" \in Stages /\ "FAILED" \in Stages
BY DEF Stages, Outcomes

LEMMA IssueFields ==
  ASSUME NEW k \in Issues
  PROVE  /\ k.job \in Jobs /\ k.id \in AttemptIds
         /\ k.phase = "map" => k.task \in MapTasks
         /\ k.phase # "map" => k.task \in Partitions
BY DEF Issues

LEMMA GatherProcess ==
  ASSUME ProcessInv, NEW w \in Workers, NEW i \in DOMAIN runs[w],
         DownloadPartition(w, i) \/ TakeUpdate(w, i), UNCHANGED issued
  PROVE  ProcessInv'
<1> DEFINE r == runs[w][i]
<1>1. r \in Runs /\ r.pending \subseteq URLs /\ r.downloaded \subseteq URLs
  BY RunOf, RunFields
<1>2. Objects
  BY DEF ProcessInv, Processes, Objects
<1>3. CASE DownloadPartition(w, i)
  <2>1. /\ Objects'
        /\ UNCHANGED <<alive, busy, current, lastResult, updates, rpc, stray>>
    BY <1>2, <1>3 DEF DownloadPartition, objectVars, Objects
  <2>2. PICK u \in r.pending :
          \/ Move(w, i, [r EXCEPT !.pending = @ \ {u}, !.downloaded = @ \cup {u}])
          \/ To(w, i, "FAILED")
    BY <1>3 DEF DownloadPartition
  <2> DEFINE q == [r EXCEPT !.pending = @ \ {u}, !.downloaded = @ \cup {u}]
  <2>3. q \in Runs /\ q.work = r.work
    BY <1>1 DEF Runs
  <2>4. CASE Move(w, i, q)
    <3> HIDE DEF q
    <3> QED BY <2>1, <2>3, <2>4, MoveStepProcess
  <2>5. CASE To(w, i, "FAILED")
    BY <2>1, <2>5, ToProcess, StageNames
  <2> QED BY <2>2, <2>4, <2>5
<1>4. CASE TakeUpdate(w, i)
  <2> DEFINE u == Head(updates[w])
             q == [r EXCEPT !.allMapsComplete = u.allMapsComplete,
                            !.pending = u.urls \ r.downloaded]
  <2>1. /\ updates[w] # <<>> /\ Move(w, i, q)
        /\ updates' = [updates EXCEPT ![w] = Tail(@)]
        /\ UNCHANGED <<alive, busy, current, lastResult, rpc, stray>>
    BY <1>4 DEF TakeUpdate
  <2>2. Objects'
    BY <1>2, <1>4 DEF TakeUpdate, objectVars, Objects
  <2>3. u \in Updates
    BY <2>1 DEF ProcessInv, Processes
  <2> HIDE DEF u
  <2>4. q \in Runs /\ q.work = r.work
    BY <1>1, <2>3 DEF Runs, Updates
  <2> HIDE DEF q
  <2> QED BY <2>1, <2>2, <2>4, MoveStepProcess
<1> QED BY <1>3, <1>4

LEMMA EffectProcess ==
  ASSUME ProcessInv, NEW w \in Workers, NEW i \in DOMAIN runs[w], UNCHANGED issued,
         \/ SetCurrentTask(w, i) \/ MapSucceeds(w, i) \/ DrainUpdates(w, i)
         \/ Upload(w, i) \/ CopyObject(w, i) \/ RemoveObject(w, i)
         \/ Fail(w, i)
  PROVE  ProcessInv'
<1> DEFINE r == runs[w][i]
           k == r.work
<1>1. /\ r \in Runs /\ r.pending \subseteq URLs /\ r.downloaded \subseteq URLs
      /\ k \in Issues
      /\ k.job \in Jobs /\ k.id \in AttemptIds
      /\ k.phase = "map" => k.task \in MapTasks
      /\ k.phase # "map" => k.task \in Partitions
  BY RunOf, RunFields, IssueFields
<1>2. Objects
  BY DEF ProcessInv, Processes, Objects
<1>3. CASE SetCurrentTask(w, i)
  <2>1. Objects'
    BY <1>2, <1>3 DEF SetCurrentTask, objectVars, Objects
  <2> QED BY <1>3, <2>1, ToProcess, StageNames DEF SetCurrentTask
<1>4. CASE MapSucceeds(w, i)
  <2>1. k.phase = "map"
    BY <1>4 DEF MapSucceeds, At
  <2>2. outputs' = [outputs EXCEPT ![w] = @ \cup {<<k.job, k.task>>}]
    BY <1>4 DEF MapSucceeds
  <2>3. Objects'
    BY <1>1, <1>2, <1>4, <2>1, <2>2 DEF MapSucceeds, objectVars, Objects
  <2> QED BY <1>4, <2>3, ToProcess, StageNames DEF MapSucceeds
<1>5. CASE DrainUpdates(w, i)
  <2>1. Objects'
    BY <1>2, <1>5 DEF DrainUpdates, objectVars, Objects
  <2> QED BY <1>5, <2>1, ToProcess, StageNames DEF DrainUpdates
<1>6. CASE Upload(w, i)
  <2> DEFINE t == [job |-> k.job, task |-> k.task, id |-> k.id,
                   content |-> r.downloaded]
  <2>1. k.phase = "reduce"
    BY <1>6 DEF Upload, At
  <2>2. t \in Temps
    BY <1>1, <2>1 DEF Temps
  <2>3. temps' = temps \cup {t} /\ UNCHANGED <<outputs, final>>
    BY <1>6 DEF Upload
  <2>4. Objects'
    BY <1>2, <2>2, <2>3 DEF Objects
  <2> QED BY <1>6, <2>4, ToProcess, StageNames DEF Upload
<1>7. CASE CopyObject(w, i)
  <2>1. ASSUME NEW t \in TempsOf(k),
               final' = [final EXCEPT ![<<OutputPrefix[k.job], k.task>>] = t.content]
        PROVE  final' \in [OutputPrefixes \X Partitions -> (SUBSET URLs) \cup {None}]
    <3>1. t.content \in SUBSET URLs
      BY <1>2, <2>1 DEF TempsOf, Objects, Temps
    <3> QED BY <1>2, <2>1, <3>1 DEF Objects
  <2>2. Objects'
    BY <1>2, <1>7, <2>1 DEF CopyObject, Objects
  <2>3. To(w, i, "FAILED") \/ To(w, i, "copied")
    BY <1>7 DEF CopyObject
  <2>4. UNCHANGED <<alive, busy, current, lastResult, updates, rpc, stray>>
    BY <1>7 DEF CopyObject
  <2> QED BY <2>2, <2>3, <2>4, ToProcess, StageNames
<1>8. CASE RemoveObject(w, i)
  <2>1. Objects'
    BY <1>2, <1>8 DEF RemoveObject, Objects
  <2> QED BY <1>8, <2>1, ToProcess, StageNames DEF RemoveObject
<1>9. CASE Fail(w, i)
  <2>1. Objects'
    BY <1>2, <1>9 DEF Fail, objectVars, Objects
  <2> QED BY <1>9, <2>1, ToProcess, StageNames DEF Fail
<1> QED BY <1>3, <1>4, <1>5, <1>6, <1>7, <1>8, <1>9

\* The other variables of a step that touches no object.
LEMMA ObjectsStay ==
  ASSUME Processes, UNCHANGED <<outputs, objectVars>>
  PROVE  Objects'
BY DEF Processes, Objects, objectVars

LEMMA SameLength ==
  ASSUME NEW S, NEW f \in Seq(S), NEW g, g = [k \in DOMAIN g |-> g[k]],
         DOMAIN g = DOMAIN f, \A k \in DOMAIN f : g[k] \in S
  PROVE  g \in Seq(S) /\ Len(g) = Len(f)
OBVIOUS

LEMMA RemoveAtLemma ==
  ASSUME NEW S, NEW f \in Seq(S), NEW i \in 1 .. Len(f)
  PROVE  /\ RemoveAt(f, i) \in Seq(S)
         /\ \A k \in DOMAIN RemoveAt(f, i) :
              \E n \in DOMAIN f : RemoveAt(f, i)[k] = f[n]
<1> DEFINE a == SubSeq(f, 1, i - 1)
           b == SubSeq(f, i + 1, Len(f))
<1>1. RemoveAt(f, i) = a \o b
  BY DEF RemoveAt
<1>2. /\ a \in Seq(S) /\ Len(a) = i - 1
      /\ \A k \in 1 .. Len(a) : a[k] = f[k]
  OBVIOUS
<1>3. /\ b \in Seq(S) /\ Len(b) = Len(f) - i
      /\ \A k \in 1 .. Len(b) : b[k] = f[k + i]
  OBVIOUS
<1> HIDE DEF a, b
<1>4. /\ a \o b \in Seq(S) /\ DOMAIN (a \o b) = 1 .. Len(a) + Len(b)
      /\ \A k \in 1 .. Len(a) + Len(b) :
           (a \o b)[k] = IF k <= Len(a) THEN a[k] ELSE b[k - Len(a)]
  <2>1. a \in Seq(S) /\ b \in Seq(S)
    BY <1>2, <1>3
  <2>2. a \o b \in Seq(S) /\ Len(a \o b) = Len(a) + Len(b)
    BY <2>1
  <2>3. DOMAIN (a \o b) = 1 .. Len(a) + Len(b)
    BY <2>2
  <2>4. ASSUME NEW k \in 1 .. Len(a) + Len(b)
        PROVE  (a \o b)[k] = IF k <= Len(a) THEN a[k] ELSE b[k - Len(a)]
    BY <2>1
  <2> QED BY <2>2, <2>3, <2>4
<1>5. ASSUME NEW k \in DOMAIN RemoveAt(f, i)
      PROVE  \E n \in DOMAIN f : RemoveAt(f, i)[k] = f[n]
  <2>0. k \in 1 .. Len(a) + Len(b) /\ Len(f) \in Nat /\ DOMAIN f = 1 .. Len(f)
    BY <1>1, <1>4, <1>5
  <2>1. CASE k <= Len(a)
    <3>1. RemoveAt(f, i)[k] = f[k] /\ k \in DOMAIN f
      BY <1>1, <1>2, <1>3, <1>4, <2>0, <2>1
    <3> QED BY <3>1
  <2>2. CASE ~(k <= Len(a))
    <3>1. k - Len(a) \in 1 .. Len(b)
      BY <1>2, <1>3, <2>0, <2>2
    <3>2. RemoveAt(f, i)[k] = f[k - Len(a) + i]
      BY <1>1, <1>3, <1>4, <2>0, <2>2, <3>1
    <3>3. k - Len(a) + i \in DOMAIN f
      BY <1>2, <1>3, <2>0, <3>1
    <3> QED BY <3>2, <3>3
  <2> QED BY <2>1, <2>2
<1> QED BY <1>1, <1>4, <1>5

LEMMA SetBusyProcess ==
  ASSUME ProcessInv, NEW w \in Workers, NEW i, SetBusy(w, i), UNCHANGED issued
  PROVE  ProcessInv'
<1> DEFINE new == [k \in DOMAIN runs[w] |->
               IF k = i
                 THEN [runs[w][k] EXCEPT !.cancellable = TRUE, !.stage = "busy"]
                 ELSE [runs[w][k] EXCEPT !.cancellable = FALSE]]
<1>1. /\ i \in DOMAIN runs[w]
      /\ runs' = [runs EXCEPT ![w] = new]
      /\ busy' = [busy EXCEPT ![w] = TRUE]
      /\ UNCHANGED <<alive, current, lastResult, updates, rpc, outputs, stray,
                     objectVars>>
  <2>1. i \in DOMAIN runs[w] /\ busy' = [busy EXCEPT ![w] = TRUE]
    BY Zenon DEF SetBusy
  <2>2. UNCHANGED <<alive, current, lastResult, updates, rpc, outputs, stray,
                    objectVars>>
    BY Zenon DEF SetBusy
  <2>3. runs' = [runs EXCEPT ![w] = new]
    BY Zenon DEF SetBusy
  <2> HIDE DEF new
  <2> QED BY <2>1, <2>2, <2>3
<1>2. runs \in [Workers -> Seq(Runs)]
  BY DEF ProcessInv, Processes
<1>3. DOMAIN new = DOMAIN runs[w] /\ new = [k \in DOMAIN new |-> new[k]]
  BY Zenon
<1>4. ASSUME NEW k \in DOMAIN runs[w]
      PROVE  new[k] \in Runs /\ new[k].work = runs[w][k].work
  <2>1. PICK r \in Runs : r = runs[w][k]
    BY <1>2
  <2>2. /\ [r EXCEPT !.cancellable = TRUE, !.stage = "busy"] \in Runs
        /\ [r EXCEPT !.cancellable = TRUE, !.stage = "busy"].work = r.work
        /\ [r EXCEPT !.cancellable = FALSE] \in Runs
        /\ [r EXCEPT !.cancellable = FALSE].work = r.work
    BY StageNames DEF Runs
  <2> QED BY <2>1, <2>2
<1> HIDE DEF new
<1>5. new \in Seq(Runs)
  BY <1>2, <1>3, <1>4, SameLength
<1>6. runs' \in [Workers -> Seq(Runs)] /\ runs'[w] = new
      /\ \A v \in Workers \ {w} : runs'[v] = runs[v]
  BY <1>1, <1>2, <1>5
<1>7. busy' \in [Workers -> BOOLEAN]
  BY <1>1, Zenon DEF ProcessInv, Processes
<1>8. Processes'
  BY <1>1, <1>6, <1>7, ObjectsStay DEF ProcessInv, Processes, Objects
<1>9. Mailbox'
  BY <1>1, MailboxStays DEF ProcessInv
<1>10. Informed(w)'
  <2>1. Given(w)' = Given(w) /\ KnownRequests(w)' = KnownRequests(w)
    BY DEF Given, KnownRequests
  <2> QED BY <1>1, <1>3, <1>4, <1>6, <2>1 DEF ProcessInv, Informed, KnownReply
<1> QED BY <1>1, <1>6, <1>8, <1>9, <1>10, ProcessStep

LEMMA FinishProcess ==
  ASSUME ProcessInv, NEW w \in Workers, NEW i, Finish(w, i), UNCHANGED issued
  PROVE  ProcessInv'
<1> DEFINE stopped == [k \in DOMAIN runs[w] |->
                         [runs[w][k] EXCEPT !.cancellable = FALSE]]
           left == RemoveAt(stopped, i)
<1>1. /\ i \in DOMAIN runs[w]
      /\ runs[w][i].stage \in Outcomes
      /\ lastResult' = [lastResult EXCEPT ![w] =
                           <<runs[w][i].work, runs[w][i].stage>>]
      /\ current' = [current EXCEPT ![w] = None]
      /\ runs' = [runs EXCEPT ![w] = left]
      /\ busy' = [busy EXCEPT ![w] = FALSE]
      /\ UNCHANGED <<alive, updates, rpc, outputs, stray, objectVars>>
  <2>1. /\ i \in DOMAIN runs[w]
        /\ runs[w][i].stage \in Outcomes
        /\ lastResult' = [lastResult EXCEPT ![w] =
                             <<runs[w][i].work, runs[w][i].stage>>]
        /\ current' = [current EXCEPT ![w] = None]
    BY Zenon DEF Finish
  <2>2. busy' = [busy EXCEPT ![w] = FALSE]
    BY Zenon DEF Finish
  <2>3. runs' = [runs EXCEPT ![w] = left]
    BY Zenon DEF Finish
  <2>4. UNCHANGED <<alive, updates, rpc, outputs, stray, objectVars>>
    BY Zenon DEF Finish
  <2> HIDE DEF left
  <2> QED BY <2>1, <2>2, <2>3, <2>4
<1>2. runs \in [Workers -> Seq(Runs)]
  BY DEF ProcessInv, Processes
<1>3. /\ DOMAIN stopped = DOMAIN runs[w]
      /\ stopped = [k \in DOMAIN stopped |-> stopped[k]]
  BY Zenon
<1>4. ASSUME NEW k \in DOMAIN runs[w]
      PROVE  stopped[k] \in Runs /\ stopped[k].work = runs[w][k].work
  <2>1. PICK r \in Runs : r = runs[w][k]
    BY <1>2
  <2>2. /\ [r EXCEPT !.cancellable = FALSE] \in Runs
        /\ [r EXCEPT !.cancellable = FALSE].work = r.work
    BY DEF Runs
  <2> QED BY <2>1, <2>2
<1> HIDE DEF stopped
<1>5. stopped \in Seq(Runs) /\ Len(stopped) = Len(runs[w])
      /\ \A k \in DOMAIN stopped : stopped[k].work \in Given(w)
  BY <1>2, <1>3, <1>4, RunOf, SameLength
<1>6. left \in Seq(Runs) /\ \A k \in DOMAIN left : left[k].work \in Given(w)
  <2>1. i \in 1 .. Len(stopped)
    BY <1>1, <1>2, <1>5
  <2> QED BY <1>5, <2>1, RemoveAtLemma
<1> HIDE DEF left
<1>7. runs' \in [Workers -> Seq(Runs)] /\ runs'[w] = left
      /\ \A v \in Workers \ {w} : runs'[v] = runs[v]
  BY <1>1, <1>2, <1>6
<1>8. busy' \in [Workers -> BOOLEAN]
  BY <1>1, Zenon DEF ProcessInv, Processes
<1>9. /\ lastResult' \in [Workers -> Reports \cup {None}]
      /\ lastResult'[w] \in Given(w) \X Outcomes
      /\ current' \in [Workers -> Issues \cup {None}]
      /\ current'[w] = None
      /\ \A v \in Workers \ {w} : /\ lastResult'[v] = lastResult[v]
                                  /\ current'[v] = current[v]
  <2>1. /\ runs[w][i].work \in Issues
        /\ runs[w][i].work \in Given(w)
    BY <1>1, RunOf
  <2> QED BY <1>1, <2>1 DEF ProcessInv, Processes, Reports
<1>10. Processes'
  BY <1>1, <1>7, <1>8, <1>9, ObjectsStay DEF ProcessInv, Processes, Objects
<1>11. Mailbox'
  BY <1>1, MailboxStays DEF ProcessInv
<1>12. Informed(w)'
  <2>1. Given(w)' = Given(w) /\ KnownRequests(w)' = KnownRequests(w)
    BY DEF Given, KnownRequests
  <2> QED BY <1>1, <1>6, <1>7, <1>9, <2>1 DEF ProcessInv, Informed, KnownReply
<1> QED BY <1>1, <1>7, <1>9, <1>10, <1>11, <1>12, ProcessStep

LEMMA RunStepProcess ==
  ASSUME ProcessInv, NEW w \in Workers, NEW i \in DOMAIN runs[w],
         RunStep(w, i) \/ Fail(w, i), UNCHANGED issued
  PROVE  ProcessInv'
BY SetBusyProcess, EffectProcess, GatherProcess, FinishProcess DEF RunStep

-----------------------------------------------------------------------------
(* The heartbeat loop, and the end of a process                            *)

LEMMA MailboxGains ==
  ASSUME ProcessInv, NEW w \in Workers, rpc[w].kind = "request", UNCHANGED issued,
         stray' = stray \cup {[worker |-> w, request |-> rpc[w]]}
  PROVE  Mailbox'
<1>1. \A v : KnownRequests(v)' = KnownRequests(v)
  BY DEF Given, KnownRequests
<1>2. rpc[w] \in KnownRequests(w)
  BY DEF ProcessInv, Informed
<1> QED BY <1>1, <1>2 DEF ProcessInv, Mailbox

\* The loop of w is at m now, and no variable of a process has changed.
LEMMA LoopProcess ==
  ASSUME ProcessInv, NEW w \in Workers, NEW m,
         m.kind = "request" => m \in KnownRequests(w),
         m.kind = "reply" => KnownReply(w, m)',
         rpc' = [rpc EXCEPT ![w] = m], issued \subseteq issued', Mailbox',
         UNCHANGED <<alive, busy, current, lastResult, runs, updates, outputs,
                     objectVars>>
  PROVE  ProcessInv'
<1>1. /\ DOMAIN rpc' = Workers /\ rpc'[w] = m
      /\ \A v \in Workers \ {w} : rpc'[v] = rpc[v]
  BY DEF ProcessInv, Processes
<1>2. Processes'
  BY <1>1 DEF ProcessInv, Processes, objectVars
<1>3. Informed(w)'
  <2>1. Given(w) \subseteq Given(w)'
    BY DEF Given
  <2>2. KnownRequests(w) \subseteq KnownRequests(w)'
    BY <2>1 DEF KnownRequests
  <2> QED BY <1>1, <2>1, <2>2 DEF ProcessInv, Informed
<1> QED BY <1>1, <1>2, <1>3, ProcessStep

LEMMA TickProcess ==
  ASSUME ProcessInv, NEW w \in Workers, InTime(w), UNCHANGED issued
  PROVE  ProcessInv'
<1> DEFINE m == [kind |-> "request", idle |-> ~busy[w],
                 task |-> current[w], result |-> lastResult[w]]
<1>1. rpc' = [rpc EXCEPT ![w] = m]
  BY Zenon DEF InTime, Tick
<1>2. m \in KnownRequests(w) /\ m.kind = "request"
  <2>1. PICK b \in BOOLEAN : b = ~busy[w]
    OBVIOUS
  <2>2. m = [kind |-> "request", idle |-> b,
             task |-> current[w], result |-> lastResult[w]]
    BY <2>1, Zenon
  <2> HIDE DEF m
  <2> QED BY <2>2 DEF ProcessInv, Informed, KnownRequests
<1>3. /\ UNCHANGED stray
      /\ UNCHANGED <<alive, busy, current, lastResult, runs, updates, outputs,
                     objectVars>>
  BY DEF InTime, Tick
<1>4. Mailbox'
  BY <1>3, MailboxStays DEF ProcessInv
<1> HIDE DEF m
<1> QED BY <1>1, <1>2, <1>3, <1>4, LoopProcess

LEMMA LosePatienceProcess ==
  ASSUME ProcessInv, NEW w \in Workers, GiveUp(w) \/ RegistrationFails(w),
         UNCHANGED issued
  PROVE  ProcessInv'
<1>1. /\ rpc' = [rpc EXCEPT ![w] = Waiting]
      /\ Waiting.kind = "none"
      /\ UNCHANGED <<alive, busy, current, lastResult, runs, updates, outputs,
                     objectVars>>
  BY DEF GiveUp, RegistrationFails, Waiting
<1>2. Mailbox'
  BY MailboxStays, MailboxGains DEF GiveUp, RegistrationFails, ProcessInv
<1> QED BY <1>1, <1>2, LoopProcess

LEMMA CrashProcess ==
  ASSUME ProcessInv, NEW w \in Workers, WorkerCrashes(w), UNCHANGED issued
  PROVE  ProcessInv'
<1>1. /\ alive' = alive \ {w}
      /\ current' = [current EXCEPT ![w] = None]
      /\ lastResult' = [lastResult EXCEPT ![w] = None]
      /\ runs' = [runs EXCEPT ![w] = <<>>]
      /\ updates' = [updates EXCEPT ![w] = <<>>]
      /\ rpc' = [rpc EXCEPT ![w] = Waiting]
      /\ outputs' = [outputs EXCEPT ![w] = {}]
      /\ UNCHANGED objectVars
  BY DEF WorkerCrashes
<1>2. busy' = [busy EXCEPT ![w] = FALSE]
  BY DEF WorkerCrashes
<1>3. busy' \in [Workers -> BOOLEAN]
  BY <1>2, Zenon DEF ProcessInv, Processes
<1>4. Processes'
  <2>1. /\ alive' \subseteq Workers
        /\ current' \in [Workers -> Issues \cup {None}]
        /\ lastResult' \in [Workers -> Reports \cup {None}]
        /\ DOMAIN rpc' = Workers
        /\ outputs' \in [Workers -> SUBSET (Jobs \X MapTasks)]
    BY <1>1 DEF ProcessInv, Processes
  <2>2. runs' \in [Workers -> Seq(Runs)]
    BY <1>1 DEF ProcessInv, Processes
  <2>3. /\ updates' \in [Workers -> Seq(Updates)]
        /\ \A v \in Workers : updates'[v] = IF v = w THEN <<>> ELSE updates[v]
    BY <1>1 DEF ProcessInv, Processes
  <2>4. \A v \in Workers : Len(updates'[v]) <= UpdateCap
    BY <2>3, UpdateCapAssumption DEF ProcessInv, Processes
  <2> QED BY <1>1, <1>3, <2>1, <2>2, <2>3, <2>4 DEF ProcessInv, Processes,
             objectVars
<1>5. Mailbox'
  BY MailboxStays, MailboxGains DEF WorkerCrashes, ProcessInv
<1>6. Informed(w)'
  BY <1>1 DEF ProcessInv, Processes, Informed, Waiting
<1> QED BY <1>1, <1>4, <1>5, <1>6, ProcessStep DEF ProcessInv, Processes

LEMMA ReceiveProcess ==
  ASSUME ProcessInv, NEW w \in Workers, Receive(w), UNCHANGED issued
  PROVE  ProcessInv'
<1> DEFINE m == rpc[w]
           update == [urls |-> m.urls, allMapsComplete |-> m.allMaps]
           stopped(r) == [r EXCEPT !.cancelled = @ \/ r.cancellable]
           aborted == [i \in DOMAIN runs[w] |-> stopped(runs[w][i])]
           kept == IF m.abort THEN aborted ELSE runs[w]
           new == SetToSeq({Launched(a, w) : a \in m.given})
           queued == IF (m.urls # {} \/ m.allMaps) /\ Len(updates[w]) < UpdateCap
                       THEN Append(updates[w], update) ELSE updates[w]
           left == IF lastResult[w] = m.result THEN None ELSE lastResult[w]
<1>1. /\ m.kind = "reply"
      /\ runs' = [runs EXCEPT ![w] = kept \o new]
      /\ rpc' = [rpc EXCEPT ![w] = Waiting]
      /\ UNCHANGED <<alive, busy, current, outputs, stray, objectVars>>
  BY Zenon DEF Receive
<1>2. lastResult' = [lastResult EXCEPT ![w] = left]
  BY Zenon DEF Receive
<1>3. updates' = [updates EXCEPT ![w] = queued]
  BY Zenon DEF Receive
<1>4. /\ runs \in [Workers -> Seq(Runs)]
      /\ updates \in [Workers -> Seq(Updates)]
      /\ \A v \in Workers : Len(updates[v]) <= UpdateCap
      /\ lastResult \in [Workers -> Reports \cup {None}]
      /\ UpdateCap \in Nat
  BY UpdateCapAssumption DEF ProcessInv, Processes
<1>5. /\ AtMostOne(m.given)
      /\ \A a \in m.given : Launched(a, w) \in Runs /\ Issue(a, w) \in issued
      /\ update \in Updates
  BY <1>1, Zenon DEF ProcessInv, Informed, KnownReply
<1>6. kept \in Seq(Runs) /\ \A k \in DOMAIN kept : kept[k].work \in Given(w)
  <2>1. \A k \in DOMAIN runs[w] : /\ stopped(runs[w][k]) \in Runs
                                 /\ stopped(runs[w][k]).work = runs[w][k].work
    <3>1. \A r \in Runs : stopped(r) \in Runs /\ stopped(r).work = r.work
      BY DEF Runs
    <3> HIDE DEF stopped
    <3> QED BY <1>4, <3>1
  <2>2. /\ DOMAIN aborted = DOMAIN runs[w]
        /\ aborted = [k \in DOMAIN aborted |-> aborted[k]]
        /\ \A k \in DOMAIN runs[w] : aborted[k] = stopped(runs[w][k])
    BY Zenon
  <2> HIDE DEF stopped, aborted
  <2>3. aborted \in Seq(Runs) /\ DOMAIN aborted = DOMAIN runs[w]
    BY <1>4, <2>1, <2>2, SameLength
  <2> QED BY <1>4, <2>1, <2>2, <2>3, RunOf
<1>7. new \in Seq(Runs) /\ \A k \in DOMAIN new : new[k].work \in Given(w)
  <2>1. CASE m.given = {}
    <3>1. {Launched(a, w) : a \in m.given} = {}
      BY <2>1
    <3>2. new = <<>>
      BY <3>1, SetToSeqOfOne
    <3> HIDE DEF new
    <3> QED BY <3>2
  <2>2. CASE m.given # {}
    <3>1. PICK a : m.given = {a}
      BY <1>5, <2>2 DEF AtMostOne
    <3>2. new = <<Launched(a, w)>>
      <4>1. {Launched(b, w) : b \in m.given} = {Launched(a, w)}
        BY <3>1
      <4> QED BY <4>1, SetToSeqOfOne
    <3>3. Launched(a, w).work = Issue(a, w) /\ Issue(a, w).worker = w
      BY DEF Launched, Issue
    <3>4. Launched(a, w) \in Runs /\ Launched(a, w).work \in Given(w)
      BY <1>5, <3>1, <3>3 DEF Given
    <3> HIDE DEF new
    <3> QED BY <3>2, <3>4
  <2> QED BY <2>1, <2>2
<1>8. queued \in Seq(Updates) /\ Len(queued) <= UpdateCap
  <2> HIDE DEF update, m
  <2>1. /\ Append(updates[w], update) \in Seq(Updates)
        /\ Len(Append(updates[w], update)) = Len(updates[w]) + 1
        /\ updates[w] \in Seq(Updates) /\ Len(updates[w]) \in Nat
    BY <1>4, <1>5
  <2> QED BY <1>4, <2>1
<1>9. /\ left \in Reports \cup {None}
      /\ left \in (Given(w) \X Outcomes) \cup {None}
  BY <1>4 DEF ProcessInv, Informed
<1> HIDE DEF kept, new, queued, left, m
<1>10. /\ runs' \in [Workers -> Seq(Runs)]
       /\ \A v \in Workers \ {w} : runs'[v] = runs[v]
       /\ \A k \in DOMAIN runs'[w] : runs'[w][k].work \in Given(w)
  <2>1. /\ kept \o new \in Seq(Runs)
        /\ \A k \in DOMAIN (kept \o new) :
             \/ \E n \in DOMAIN kept : (kept \o new)[k] = kept[n]
             \/ \E n \in DOMAIN new : (kept \o new)[k] = new[n]
    BY <1>6, <1>7
  <2>2. runs'[w] = kept \o new
    BY <1>1, <1>4
  <2> QED BY <1>1, <1>4, <1>6, <1>7, <2>1, <2>2
<1>11. Processes'
  BY <1>1, <1>2, <1>3, <1>4, <1>8, <1>9, <1>10
     DEF ProcessInv, Processes, objectVars
<1>12. Mailbox'
  BY <1>1, MailboxStays DEF ProcessInv
<1>13. /\ rpc'[w] = Waiting /\ lastResult'[w] = left
       /\ \A v \in Workers \ {w} : rpc'[v] = rpc[v] /\ lastResult'[v] = lastResult[v]
  BY <1>1, <1>2 DEF ProcessInv, Processes
<1>14. Informed(w)'
  <2>1. Given(w)' = Given(w)
    BY DEF Given
  <2>2. current'[w] \in Given(w) \cup {None}
    BY <1>1 DEF ProcessInv, Informed
  <2>3. rpc'[w].kind = "none"
    BY <1>13 DEF Waiting
  <2> QED BY <1>9, <1>10, <1>13, <2>1, <2>2, <2>3 DEF Informed
<1> QED BY <1>1, <1>10, <1>11, <1>12, <1>13, <1>14, ProcessStep

-----------------------------------------------------------------------------
(* The messages, as Control has them                                       *)

\* A request of a worker is a heartbeat that the open master expects.
LEMMA HearIsOpen ==
  ASSUME NEW w \in Workers, NEW q \in KnownRequests(w), NEW slow \in SlowFor(q),
         Hear(w, q, slow)
  PROVE  OpenHeartbeat(w)
<1>1. /\ q.idle \in BOOLEAN /\ q.task \in Given(w) \cup {None}
      /\ slow \in SlowChoices
      /\ q.result = None \/ q.result \in Given(w) \X Outcomes
  BY DEF KnownRequests, SlowFor, SlowChoices
<1>2. CASE q.result = None
  <2>1. Exchange(w, q.idle, q.task, {}, None, slow)
    BY <1>2 DEF Hear, ResultIn
  <2> QED BY <1>1, <2>1, Zenon DEF OpenHeartbeat
<1>3. CASE q.result # None
  <2>1. PICK k \in Given(w), o \in Outcomes : q.result = <<k, o>>
    BY <1>1, <1>3
  <2>2. {q.result} = {<<k, o>>} /\ ResultIn(q) = Result(k, o)
    BY <1>3, <2>1 DEF ResultIn
  <2>3. Exchange(w, q.idle, q.task, {<<k, o>>}, Result(k, o), slow)
    BY <1>3, <2>2 DEF Hear
  <2> QED BY <1>1, <2>3, Zenon DEF OpenHeartbeat
<1> QED BY <1>2, <1>3

\* What a reply to it brings.
LEMMA ReplyIsKnown ==
  ASSUME IInv, NEW w \in Workers, NEW q \in KnownRequests(w),
         NEW slow \in SlowFor(q), Hear(w, q, slow),
         NEW m, m = Reply(w, q, slow)
  PROVE  KnownReply(w, m)'
<1> DEFINE h == Heard(w, q.idle, ResultIn(q), slow)
<1>1. Given(w) \subseteq Issues
  BY DEF IInv, TypeOK, ControlTypeOK, Given
<1>2. q.idle \in BOOLEAN /\ q.task \in Issues \cup {None}
  BY <1>1 DEF KnownRequests
<1>3. ResultIn(q) = None \/ (NamesTask(ResultIn(q)) /\ ResultIn(q).id \in AttemptIds)
  <2>1. q.result = None \/ q.result[1] \in Issues
    BY <1>1 DEF KnownRequests
  <2> QED BY <2>1, IssuesLemma DEF ResultIn
<1>4. /\ \A a \in h.given : /\ NamesTask(a) /\ a.id \in AttemptIds
                            /\ a.urls \subseteq URLs
  BY <1>2, <1>3, HeardLemma
<1>5. Offer(h.given)
  BY HeardOffer
<1>6. issued' = issued \cup {Issue(a, w) : a \in h.given}
  BY Zenon DEF Hear, Exchange
<1> HIDE DEF h
<1>7. ASSUME NEW a \in h.given
      PROVE  Launched(a, w) \in Runs /\ Issue(a, w) \in issued'
  <2>1. Issue(a, w) \in Issues
    BY <1>4, NewIssuesLemma
  <2>2. a.urls \subseteq URLs /\ a.allMaps \in BOOLEAN
    BY <1>4, <1>5 DEF Offer
  <2>3. Launched(a, w) \in Runs
    BY <2>1, <2>2 DEF Launched, Runs, Stages
  <2> QED BY <1>6, <2>3
<1>8. Sound(Current')
  BY HearIsOpen, HeartbeatSound DEF IInv
<1>9. ReplyURLs(TaskIn(q)) \subseteq URLs
  <2>1. CASE q.task = None
    BY <2>1 DEF ReplyURLs, TaskIn
  <2>2. CASE q.task # None /\ q.task.phase = "reduce"
    <3>1. q.task.job \in Jobs /\ q.task.task \in Partitions
      BY <1>2, <2>2, IssueFields
    <3>2. CollectPartitionURLs(Current'.jobs, q.task.job, q.task.task) \subseteq URLs
      BY <1>8, <3>1, CollectedURLs
    <3>3. TaskIn(q).job = q.task.job /\ TaskIn(q).task = q.task.task
      BY <2>2 DEF TaskIn, Ref
    <3>4. Current'.jobs = jobs'
      BY DEF Current
    <3> QED BY <3>2, <3>3, <3>4 DEF ReplyURLs
  <2>3. CASE q.task # None /\ q.task.phase # "reduce"
    BY <2>3 DEF ReplyURLs, TaskIn, Ref
  <2> QED BY <2>1, <2>2, <2>3
<1>10. ReplyAllMaps(TaskIn(q)) \in BOOLEAN
  BY Zenon DEF ReplyAllMaps
<1>11. /\ m.given = h.given
       /\ m.urls = ReplyURLs(TaskIn(q))
       /\ m.allMaps = ReplyAllMaps(TaskIn(q))
  BY Zenon DEF Reply, h
<1>12. [urls |-> m.urls, allMapsComplete |-> m.allMaps] \in Updates
  <2>1. m.urls \subseteq URLs
    BY <1>9, <1>11, Zenon
  <2>2. m.allMaps \in BOOLEAN
    BY <1>10, <1>11, Zenon
  <2> QED BY <2>1, <2>2 DEF Updates
<1> QED BY <1>5, <1>7, <1>11, <1>12 DEF KnownReply, Offer

LEMMA AnswerProcess ==
  ASSUME IInv, ProcessInv, NEW w \in Workers, Answer(w)
  PROVE  ProcessInv' /\ [OpenNext]_vars
<1>1. /\ rpc[w].kind = "request"
      /\ UNCHANGED <<alive, busy, current, lastResult, runs, updates, outputs,
                     stray, objectVars>>
  BY DEF Answer
<1>2. rpc[w] \in KnownRequests(w)
  BY <1>1 DEF ProcessInv, Informed
<1>3. CASE w \in registered
  <2>1. PICK slow \in SlowFor(rpc[w]) :
          /\ Hear(w, rpc[w], slow)
          /\ rpc' = [rpc EXCEPT ![w] = Reply(w, rpc[w], slow)]
    BY <1>3 DEF Answer
  <2>2. PICK m : m = Reply(w, rpc[w], slow)
    OBVIOUS
  <2>3. issued \subseteq issued'
    BY <2>1 DEF Hear, Exchange
  <2>4. m.kind = "reply" /\ KnownReply(w, m)'
    BY <1>2, <2>1, <2>2, ReplyIsKnown DEF Reply
  <2>5. Mailbox'
    BY <1>1, <2>3, MailboxStays DEF ProcessInv
  <2>6. ProcessInv'
    BY <1>1, <2>1, <2>2, <2>3, <2>4, <2>5, LoopProcess
  <2>7. OpenNext
    BY <1>2, <2>1, HearIsOpen DEF OpenNext
  <2> QED BY <2>6, <2>7
<1>4. CASE w \notin registered
  <2>1. rpc' = [rpc EXCEPT ![w] = Unregistered] /\ UNCHANGED vars
    BY <1>4 DEF Answer
  <2>2. UNCHANGED issued
    BY <2>1 DEF vars, netVars
  <2>3. Mailbox'
    BY <1>1, <2>2, MailboxStays DEF ProcessInv
  <2>4. Unregistered.kind = "register"
    BY DEF Unregistered
  <2> QED BY <1>1, <2>1, <2>2, <2>3, <2>4, LoopProcess
<1> QED BY <1>3, <1>4

LEMMA JoinProcess ==
  ASSUME ProcessInv, NEW w \in Workers, Join(w)
  PROVE  ProcessInv' /\ [OpenNext]_vars
<1>1. /\ Register(w) /\ rpc' = [rpc EXCEPT ![w] = Waiting]
      /\ UNCHANGED <<alive, busy, current, lastResult, runs, updates, outputs,
                     stray, objectVars>>
  BY DEF Join
<1>2. UNCHANGED issued
  BY <1>1 DEF Register, netVars
<1>3. Mailbox'
  BY <1>1, <1>2, MailboxStays DEF ProcessInv
<1>4. Waiting.kind = "none"
  BY DEF Waiting
<1> QED BY <1>1, <1>2, <1>3, <1>4, LoopProcess DEF OpenNext

\* A step that no worker makes.
LEMMA NoWorkerSteps ==
  ASSUME ProcessInv, issued \subseteq issued', stray' \subseteq stray,
         UNCHANGED localVars, Objects'
  PROVE  ProcessInv'
<1>1. UNCHANGED <<alive, busy, current, lastResult, runs, updates, rpc, outputs>>
  BY DEF localVars
<1>2. Processes'
  BY <1>1 DEF ProcessInv, Processes, Objects
<1>3. Mailbox'
  BY MailboxStays DEF ProcessInv
<1> QED BY <1>1, <1>2, <1>3, InformedStays DEF ProcessInv

LEMMA HearStrayProcess ==
  ASSUME ProcessInv, NEW x \in stray, HearStray(x)
  PROVE  ProcessInv' /\ [OpenNext]_vars
<1>1. x.worker \in Workers /\ x.request \in KnownRequests(x.worker)
  BY DEF ProcessInv, Mailbox
<1>2. PICK slow \in SlowFor(x.request) : Hear(x.worker, x.request, slow)
  BY DEF HearStray
<1>3. issued \subseteq issued'
  BY <1>2 DEF Hear, Exchange
<1>4. stray' \subseteq stray /\ UNCHANGED localVars /\ UNCHANGED objectVars
  BY DEF HearStray
<1>5. Objects'
  BY <1>4, ObjectsStay DEF ProcessInv, localVars
<1> QED BY <1>1, <1>2, <1>3, <1>4, <1>5, NoWorkerSteps, HearIsOpen DEF OpenNext

LEMMA DeleteOutputProcess ==
  ASSUME ProcessInv, DeleteOutput
  PROVE  ProcessInv' /\ [OpenNext]_vars
<1>1. PICK prefix :
        /\ temps' = {t \in temps : OutputPrefix[t.job] # prefix}
        /\ final' = [o \in DOMAIN final |->
                       IF o[1] = prefix THEN None ELSE final[o]]
  BY DEF DeleteOutput
<1>2. UNCHANGED <<vars, localVars, stray>>
  BY DEF DeleteOutput
<1>3. final' \in [OutputPrefixes \X Partitions -> (SUBSET URLs) \cup {None}]
  BY <1>1 DEF ProcessInv, Processes
<1>4. temps' \subseteq Temps
  BY <1>1 DEF ProcessInv, Processes
<1>5. Objects'
  BY <1>2, <1>3, <1>4 DEF ProcessInv, Processes, Objects, localVars
<1> QED BY <1>2, <1>5, NoWorkerSteps DEF vars, netVars

LEMMA MasterProcess ==
  ASSUME ProcessInv,
         \/ \E w \in Workers : EvictSlow(w) \/ EvictDead(w)
         \/ Submit \/ Enqueue \/ Cancel \/ Housekeeping \/ MasterEnds
         \/ UNCHANGED clusterVars
  PROVE  ProcessInv' /\ [OpenNext]_vars
<1>1. UNCHANGED processVars /\ [OpenNext]_vars
  <2>1. ASSUME NEW w \in Workers, EvictSlow(w) \/ EvictDead(w)
        PROVE  UNCHANGED processVars /\ OpenNext
    BY <2>1 DEF EvictSlow, EvictDead, Timeout, OpenNext
  <2>2. CASE Submit \/ Enqueue \/ Cancel
    BY <2>2 DEF Submit, Enqueue, Cancel, Client, OpenNext
  <2>3. CASE Housekeeping \/ MasterEnds
    BY <2>3 DEF Housekeeping, MasterEnds, OpenNext
  <2>4. CASE UNCHANGED clusterVars
    BY <2>4 DEF clusterVars
  <2> QED BY <2>1, <2>2, <2>3, <2>4
<1>2. UNCHANGED issued
  BY DEF EvictSlow, EvictDead, Timeout, Expire, Submit, Enqueue, Cancel,
     Housekeeping, TakeSnapshot, Storage, BadLoad, Interrupt, MasterEnds,
     Restart, netVars, clusterVars, vars
<1>3. UNCHANGED localVars /\ UNCHANGED stray /\ UNCHANGED objectVars
  BY <1>1 DEF processVars
<1>4. Objects'
  BY <1>3, ObjectsStay DEF ProcessInv, localVars
<1> QED BY <1>1, <1>2, <1>3, <1>4, NoWorkerSteps

LEMMA ClusterStep ==
  ASSUME IInv, ProcessInv, [ClusterNext]_clusterVars
  PROVE  ProcessInv' /\ [OpenNext]_vars
<1>1. ASSUME Silent PROVE UNCHANGED issued /\ [OpenNext]_vars
  BY <1>1 DEF Silent, vars, netVars
<1>2. ASSUME NEW w \in Workers,
             \/ Loop(w) \/ LosePatience(w)
             \/ \E i \in DOMAIN runs[w] : Step(w, i)
             \/ TaskFails(w) \/ Die(w)
      PROVE  ProcessInv' /\ [OpenNext]_vars
  <2>1. CASE Loop(w)
    BY <1>1, <2>1, TickProcess, ReceiveProcess DEF Loop
  <2>2. CASE LosePatience(w)
    BY <1>1, <2>2, LosePatienceProcess DEF LosePatience
  <2>3. CASE \E i \in DOMAIN runs[w] : Step(w, i)
    BY <1>1, <2>3, RunStepProcess DEF Step
  <2>4. CASE TaskFails(w)
    BY <1>1, <2>4, RunStepProcess DEF TaskFails
  <2>5. CASE Die(w)
    BY <1>1, <2>5, CrashProcess DEF Die
  <2> QED BY <1>2, <2>1, <2>2, <2>3, <2>4, <2>5
<1> QED BY <1>2, AnswerProcess, JoinProcess, HearStrayProcess,
           DeleteOutputProcess, MasterProcess DEF ClusterNext

LEMMA ClusterInvariant == ClusterSpec => [](IInv /\ ProcessInv)
<1>1. ClusterInit => IInv /\ ProcessInv
  BY InitSound, InitProcess DEF ClusterInit
<1>2. IInv /\ ProcessInv /\ [ClusterNext]_clusterVars
        => IInv' /\ ProcessInv'
  BY ClusterStep, NextSound
<1> QED BY <1>1, <1>2, PTL DEF ClusterSpec

\* Every heartbeat that a worker sends (worker.go:228-235), also one that arrives
\* after its sender has given up or died, is one that the open master expects:
\* its task and its result are of attempts that this worker was given.
THEOREM ClusterIsOpen == ClusterSpec => OpenSpec
<1>1. ClusterInit => Init
  BY DEF ClusterInit
<1>2. IInv /\ ProcessInv /\ [ClusterNext]_clusterVars => [OpenNext]_vars
  BY ClusterStep
<1> QED BY <1>1, <1>2, ClusterInvariant, PTL DEF ClusterSpec, OpenSpec

\* What Control guarantees holds with the workers of the repository, whatever
\* bounds the two modules have: a job that /status shows as Completed was
\* promoted (scheduler.go:443), a Queued one will be found
\* (checkpoint.go:134-141), a finished one stays so (scheduler.go:315), and no
\* checkpoint takes a job back (checkpoint.go:35-57).
THEOREM ClusterKeepsPromises ==
  ClusterSpec => /\ []CompletedWasPromoted
                 /\ []QueuedIsWaiting
                 /\ TerminalIsFinal
                 /\ CheckpointMovesForward
BY ClusterIsOpen, OpenPromoted, OpenQueued, OpenTerminal, OpenForward, PTL

-----------------------------------------------------------------------------
(* Types                                                                   *)

Counters == /\ cleaning \subseteq Jobs
            /\ giveUps \in 0 .. MaxGiveUps
            /\ failures \in 0 .. MaxFailures

LEMMA CountersStep ==
  ASSUME Counters, [ClusterNext]_clusterVars
  PROVE  Counters'
<1>1. ASSUME NEW w \in Workers,
             \/ Answer(w) \/ Join(w) \/ Loop(w) \/ LosePatience(w)
             \/ \E i \in DOMAIN runs[w] : Step(w, i)
             \/ TaskFails(w) \/ Die(w)
             \/ EvictSlow(w) \/ EvictDead(w)
      PROVE  Counters'
  <2>1. CASE LosePatience(w)
    BY <2>1, MishapsAssumption DEF LosePatience, Silent, Counters
  <2>2. CASE TaskFails(w)
    BY <2>2, MishapsAssumption DEF TaskFails, Silent, Counters
  <2> QED BY <1>1, <2>1, <2>2 DEF Answer, Join, Loop, Step, Die, EvictSlow,
             EvictDead, Silent, Counters, mishaps
<1>2. ASSUME NEW x \in stray, HearStray(x) PROVE Counters'
  BY <1>2 DEF HearStray, Counters, mishaps
<1>3. CASE Submit \/ Enqueue \/ Cancel \/ Housekeeping \/ MasterEnds
  BY <1>3 DEF Submit, Enqueue, Cancel, Housekeeping, MasterEnds, Counters, mishaps
<1>4. CASE DeleteOutput
  BY <1>4 DEF DeleteOutput, Counters, mishaps
<1>5. CASE UNCHANGED clusterVars
  BY <1>5 DEF clusterVars, Counters, mishaps
<1> QED BY <1>1, <1>2, <1>3, <1>4, <1>5 DEF ClusterNext

\* Every variable of master, workers, network and S3 keeps its type; the
\* requests on the way name tasks of jobs (worker.go:228-235), so that the
\* master never looks up a task that a job does not have.
THEOREM ClusterTypeCorrect == ClusterSpec => []ClusterTypeOK
<1>1. ClusterInit => Counters
  BY MishapsAssumption DEF ClusterInit, Counters
<1>2. IInv /\ ProcessInv /\ Counters => ClusterTypeOK
  <2> SUFFICES ASSUME IInv, ProcessInv, Counters PROVE ClusterTypeOK
    OBVIOUS
  <2>1. \A w : KnownRequests(w) \subseteq Requests
    BY DEF KnownRequests, Requests, Given, Reports, IInv, TypeOK, ControlTypeOK
  <2>2. \A w \in Workers : /\ \A i \in 1 .. Len(runs[w]) : runs[w][i] \in Runs
                          /\ \A i \in 1 .. Len(updates[w]) :
                               updates[w][i] \in Updates
    BY DEF ProcessInv, Processes
  <2>3. WorkerTypeOK
    BY <2>1, <2>2 DEF ProcessInv, Processes, Informed, WorkerTypeOK
  <2>4. \A x \in stray : x.worker \in Workers /\ x.request \in Requests
    BY <2>1 DEF ProcessInv, Mailbox
  <2> QED BY <2>3, <2>4 DEF IInv, Counters, ClusterTypeOK
<1>3. Counters /\ [ClusterNext]_clusterVars => Counters'
  BY CountersStep
<1> QED BY <1>1, <1>2, <1>3, ClusterInvariant, PTL DEF ClusterSpec

-----------------------------------------------------------------------------
(* The steps of a goroutine that is alone, by what they change: q becomes r *)

SameGather(q, r) == /\ r.pending = q.pending
                    /\ r.downloaded = q.downloaded
                    /\ r.allMapsComplete = q.allMapsComplete

\* Its stage, and no object.  A gather loop starts with an empty channel.
Turns(w, q, r) ==
  /\ SameGather(q, r)
  /\ current'[w] \in {current[w], q.work}
  /\ r.stage = "gathering" => updates'[w] = <<>>
  /\ r.stage # "copied"
  /\ r.stage = "SUCCESS" => q.work.phase = "map"
  /\ UNCHANGED objectVars

\* The gather loop.
Downloads(w, q, r) ==
  /\ q.stage = "gathering" /\ r.stage = "gathering"
  /\ r.pending \cup r.downloaded = q.pending \cup q.downloaded
  /\ r.allMapsComplete = q.allMapsComplete
  /\ UNCHANGED <<current, updates, objectVars>>
Learns(w, q, r) ==
  /\ q.stage = "gathering" /\ r.stage = "gathering"
  /\ q.pending = {} /\ updates[w] # <<>>
  /\ r.pending \cup r.downloaded = q.downloaded \cup Head(updates[w]).urls
  /\ r.allMapsComplete = Head(updates[w]).allMapsComplete
  /\ updates'[w] = Tail(updates[w])
  /\ UNCHANGED <<current, objectVars>>

\* The objects.
Uploads(w, q, r) ==
  /\ SameGather(q, r)
  /\ q.work.phase = "reduce" /\ q.pending = {} /\ q.allMapsComplete
  /\ r.stage = "SUCCESS"
  /\ temps' = temps \cup {[job |-> q.work.job, task |-> q.work.task,
                           id |-> q.work.id, content |-> q.downloaded]}
  /\ UNCHANGED <<current, updates, final>>
Copies(w, q, r) ==
  /\ SameGather(q, r)
  /\ q.work.phase = "promotion" /\ r.stage = "copied"
  /\ \E t \in TempsOf(q.work) :
       final' = [final EXCEPT
                   ![<<OutputPrefix[q.work.job], q.work.task>>] = t.content]
  /\ UNCHANGED <<current, updates, temps>>
Removes(w, q, r) ==
  /\ SameGather(q, r)
  /\ q.work.phase = "promotion" /\ q.stage = "copied" /\ r.stage = "SUCCESS"
  /\ temps' \in {temps, temps \ TempsOf(q.work)}
  /\ UNCHANGED <<current, updates, final>>

Moves(w, q, r) ==
  /\ runs[w] = <<q>> /\ runs'[w] = <<r>> /\ r.work = q.work
  /\ q \in Runs
  /\ \A v \in Workers \ {w} : /\ runs'[v] = runs[v]
                              /\ current'[v] = current[v]
                              /\ updates'[v] = updates[v]
  /\ UNCHANGED <<alive, lastResult, rpc, stray>>
  /\ \/ Turns(w, q, r) \/ Downloads(w, q, r) \/ Learns(w, q, r)
     \/ Uploads(w, q, r) \/ Copies(w, q, r) \/ Removes(w, q, r)

LEMMA RunAlone ==
  ASSUME ProcessInv, OneTask, NEW w \in Workers, NEW i \in DOMAIN runs[w]
  PROVE  /\ i = 1 /\ runs[w] = <<runs[w][i]>> /\ runs[w][i] \in Runs
<1>1. PICK q : runs[w] = <<q>>
  BY DEF OneTask, Alone
<1>2. i = 1
  BY <1>1
<1> QED BY <1>1, <1>2, RunOf

LEMMA MovesTo ==
  ASSUME ProcessInv, OneTask, NEW w \in Workers, NEW i \in DOMAIN runs[w],
         NEW r, Move(w, i, r)
  PROVE  /\ runs'[w] = <<r>>
         /\ \A v \in Workers \ {w} : runs'[v] = runs[v]
<1>1. i = 1 /\ runs[w] = <<runs[w][i]>>
  BY RunAlone
<1>2. DOMAIN runs = Workers
  BY DEF OneTask
<1> QED BY <1>1, <1>2 DEF Move

LEMMA StageOf ==
  ASSUME NEW q \in Runs, NEW stage, NEW r, r = [q EXCEPT !.stage = stage]
  PROVE  r.work = q.work /\ r.stage = stage /\ SameGather(q, r)
BY DEF Runs, SameGather

LEMMA ToMoves ==
  ASSUME ProcessInv, OneTask, NEW w \in Workers, NEW i \in DOMAIN runs[w],
         NEW stage, To(w, i, stage),
         NEW q, q = runs[w][i], NEW r, r = [q EXCEPT !.stage = stage]
  PROVE  /\ runs[w] = <<q>> /\ runs'[w] = <<r>> /\ r.work = q.work /\ q \in Runs
         /\ \A v \in Workers \ {w} : runs'[v] = runs[v]
         /\ r.stage = stage /\ SameGather(q, r)
<1>1. runs[w] = <<q>> /\ q \in Runs
  BY RunAlone
<1>2. Move(w, i, r)
  BY DEF To
<1>3. runs'[w] = <<r>> /\ \A v \in Workers \ {w} : runs'[v] = runs[v]
  BY <1>2, MovesTo
<1>4. r.work = q.work /\ r.stage = stage /\ SameGather(q, r)
  BY <1>1, StageOf
<1> QED BY <1>1, <1>3, <1>4

LEMMA SetBusyMoves ==
  ASSUME ProcessInv, OneTask, NEW w \in Workers, NEW i, SetBusy(w, i)
  PROVE  \E q, r : Moves(w, q, r)
<1> DEFINE new == [k \in DOMAIN runs[w] |->
               IF k = i
                 THEN [runs[w][k] EXCEPT !.cancellable = TRUE, !.stage = "busy"]
                 ELSE [runs[w][k] EXCEPT !.cancellable = FALSE]]
           q == runs[w][i]
           r == [q EXCEPT !.cancellable = TRUE, !.stage = "busy"]
<1>1. /\ i \in DOMAIN runs[w]
      /\ runs' = [runs EXCEPT ![w] = new]
      /\ UNCHANGED <<alive, current, lastResult, updates, rpc, stray, objectVars>>
  <2>1. i \in DOMAIN runs[w]
    BY Zenon DEF SetBusy
  <2>2. UNCHANGED <<alive, current, lastResult, updates, rpc, stray, objectVars>>
    BY Zenon DEF SetBusy
  <2>3. runs' = [runs EXCEPT ![w] = new]
    BY Zenon DEF SetBusy
  <2> HIDE DEF new
  <2> QED BY <2>1, <2>2, <2>3
<1>2. i = 1 /\ runs[w] = <<q>> /\ q \in Runs
  BY <1>1, RunAlone
<1>3. r.work = q.work /\ r.stage = "busy" /\ SameGather(q, r)
  BY <1>2 DEF Runs, SameGather
<1>4. new = <<r>>
  <2>1. new = [k \in DOMAIN new |-> new[k]] /\ DOMAIN new = DOMAIN runs[w]
    BY Zenon DEF new
  <2>2. DOMAIN runs[w] = 1 .. 1
    BY <1>2
  <2>3. new[i] = r
    BY <1>1, Zenon DEF new
  <2> HIDE DEF new, r
  <2> QED BY <1>2, <2>1, <2>2, <2>3, OneElement
<1> HIDE DEF new, q, r
<1>5. runs'[w] = <<r>> /\ \A v \in Workers \ {w} : runs'[v] = runs[v]
  BY <1>1, <1>4 DEF OneTask
<1>6. Turns(w, q, r)
  BY <1>1, <1>3 DEF Turns
<1> QED BY <1>1, <1>2, <1>3, <1>5, <1>6 DEF Moves

LEMMA DownloadMoves ==
  ASSUME ProcessInv, OneTask, NEW w \in Workers, NEW i \in DOMAIN runs[w],
         DownloadPartition(w, i)
  PROVE  \E q, r : Moves(w, q, r)
<1> DEFINE q == runs[w][i]
<1>1. /\ UNCHANGED <<alive, current, lastResult, updates, rpc, stray, objectVars>>
      /\ q.stage = "gathering"
  BY DEF DownloadPartition, At
<1>2. runs[w] = <<q>> /\ q \in Runs
  BY RunAlone
<1>3. PICK u \in q.pending :
        \/ Move(w, i, [q EXCEPT !.pending = @ \ {u}, !.downloaded = @ \cup {u}])
        \/ To(w, i, "FAILED")
  BY DEF DownloadPartition
<1>4. CASE Move(w, i, [q EXCEPT !.pending = @ \ {u}, !.downloaded = @ \cup {u}])
  <2> DEFINE r == [q EXCEPT !.pending = @ \ {u}, !.downloaded = @ \cup {u}]
  <2>1. /\ r.work = q.work /\ r.stage = q.stage
        /\ r.allMapsComplete = q.allMapsComplete
        /\ r.pending = q.pending \ {u} /\ r.downloaded = q.downloaded \cup {u}
    BY <1>2 DEF Runs
  <2>2. Move(w, i, r)
    BY <1>4
  <2> HIDE DEF q, r
  <2>3. runs'[w] = <<r>> /\ \A v \in Workers \ {w} : runs'[v] = runs[v]
    BY <2>2, MovesTo
  <2>4. r.pending \cup r.downloaded = q.pending \cup q.downloaded
    BY <1>3, <2>1
  <2>5. Downloads(w, q, r)
    BY <1>1, <2>1, <2>4 DEF Downloads
  <2> QED BY <1>1, <1>2, <2>1, <2>3, <2>5 DEF Moves
<1>5. CASE To(w, i, "FAILED")
  <2> DEFINE r == [q EXCEPT !.stage = "FAILED"]
  <2>1. /\ runs'[w] = <<r>> /\ r.work = q.work
        /\ \A v \in Workers \ {w} : runs'[v] = runs[v]
        /\ r.stage = "FAILED" /\ SameGather(q, r)
    BY <1>5, ToMoves
  <2> HIDE DEF q, r
  <2>2. Turns(w, q, r)
    BY <1>1, <2>1 DEF Turns
  <2> QED BY <1>1, <1>2, <2>1, <2>2 DEF Moves
<1> QED BY <1>3, <1>4, <1>5

LEMMA TakeMoves ==
  ASSUME ProcessInv, OneTask, NEW w \in Workers, NEW i \in DOMAIN runs[w],
         TakeUpdate(w, i)
  PROVE  \E q, r : Moves(w, q, r)
<1> DEFINE q == runs[w][i]
           u == Head(updates[w])
           r == [q EXCEPT !.allMapsComplete = u.allMapsComplete,
                          !.pending = u.urls \ q.downloaded]
<1>1. /\ UNCHANGED <<alive, current, lastResult, rpc, stray, objectVars>>
      /\ q.stage = "gathering" /\ q.pending = {} /\ updates[w] # <<>>
      /\ updates' = [updates EXCEPT ![w] = Tail(@)]
      /\ Move(w, i, r)
  BY DEF TakeUpdate, At
<1>2. runs[w] = <<q>> /\ q \in Runs
  BY RunAlone
<1>3. /\ r.work = q.work /\ r.stage = q.stage
      /\ r.allMapsComplete = u.allMapsComplete
      /\ r.pending = u.urls \ q.downloaded /\ r.downloaded = q.downloaded
  <2> HIDE DEF u
  <2> QED BY <1>2 DEF Runs
<1>4. /\ updates'[w] = Tail(updates[w])
      /\ \A v \in Workers \ {w} : updates'[v] = updates[v]
  BY <1>1 DEF ProcessInv, Processes
<1> HIDE DEF q, r
<1>5. runs'[w] = <<r>> /\ \A v \in Workers \ {w} : runs'[v] = runs[v]
  BY <1>1, MovesTo
<1>6. r.pending \cup r.downloaded = q.downloaded \cup u.urls
  BY <1>3
<1>7. Learns(w, q, r)
  BY <1>1, <1>3, <1>4, <1>6 DEF Learns
<1> QED BY <1>1, <1>2, <1>3, <1>4, <1>5, <1>7 DEF Moves

LEMMA EffectMoves ==
  ASSUME ProcessInv, OneTask, NEW w \in Workers, NEW i \in DOMAIN runs[w],
         \/ SetCurrentTask(w, i) \/ MapSucceeds(w, i) \/ DrainUpdates(w, i)
         \/ Upload(w, i) \/ CopyObject(w, i) \/ RemoveObject(w, i)
         \/ Fail(w, i)
  PROVE  \E q, r : Moves(w, q, r)
<1> DEFINE q == runs[w][i]
           as(stage) == [q EXCEPT !.stage = stage]
<1>1. runs[w] = <<q>> /\ q \in Runs
  BY RunAlone
<1>2. ASSUME NEW stage, To(w, i, stage)
      PROVE  /\ runs'[w] = <<as(stage)>> /\ as(stage).work = q.work
             /\ \A v \in Workers \ {w} : runs'[v] = runs[v]
             /\ as(stage).stage = stage /\ SameGather(q, as(stage))
  BY <1>2, ToMoves
<1>3. DOMAIN current = Workers /\ DOMAIN updates = Workers
  BY DEF ProcessInv, Processes
<1>4. UNCHANGED <<alive, lastResult, rpc, stray>>
  BY DEF SetCurrentTask, MapSucceeds, DrainUpdates, Upload, CopyObject,
     RemoveObject, Fail
<1>5. ASSUME NEW stage, To(w, i, stage),
             UNCHANGED <<current, updates>>,
             \/ Turns(w, q, as(stage)) \/ Uploads(w, q, as(stage))
             \/ Copies(w, q, as(stage)) \/ Removes(w, q, as(stage))
      PROVE  Moves(w, q, as(stage))
  <2> HIDE DEF q, as
  <2> QED BY <1>1, <1>2, <1>4, <1>5 DEF Moves
<1>6. ASSUME NEW stage, To(w, i, stage), stage \notin {"copied", "gathering"},
             stage = "SUCCESS" => q.work.phase = "map",
             UNCHANGED <<current, updates, objectVars>>
      PROVE  Moves(w, q, as(stage))
  <2> HIDE DEF q, as
  <2>1. Turns(w, q, as(stage))
    BY <1>2, <1>6 DEF Turns
  <2> QED BY <1>5, <1>6, <2>1
<1>7. CASE SetCurrentTask(w, i)
  <2>1. /\ To(w, i, "working")
        /\ current' = [current EXCEPT ![w] = q.work]
        /\ UNCHANGED <<updates, objectVars>>
    BY <1>7 DEF SetCurrentTask
  <2> HIDE DEF q, as
  <2>2. /\ current'[w] = q.work
        /\ \A v \in Workers \ {w} : current'[v] = current[v]
    BY <1>3, <2>1
  <2>3. Turns(w, q, as("working"))
    <3>1. as("working").stage = "working" /\ SameGather(q, as("working"))
      BY <1>2, <2>1
    <3> QED BY <2>1, <2>2, <3>1 DEF Turns
  <2> QED BY <1>1, <1>2, <1>4, <2>1, <2>2, <2>3 DEF Moves
<1>8. CASE DrainUpdates(w, i)
  <2>1. /\ To(w, i, "gathering")
        /\ updates' = [updates EXCEPT ![w] = <<>>]
        /\ UNCHANGED <<current, objectVars>>
    BY <1>8 DEF DrainUpdates
  <2> HIDE DEF q, as
  <2>2. /\ updates'[w] = <<>>
        /\ \A v \in Workers \ {w} : updates'[v] = updates[v]
    BY <1>3, <2>1
  <2>3. Turns(w, q, as("gathering"))
    <3>1. as("gathering").stage = "gathering" /\ SameGather(q, as("gathering"))
      BY <1>2, <2>1
    <3> QED BY <2>1, <2>2, <3>1 DEF Turns
  <2> QED BY <1>1, <1>2, <1>4, <2>1, <2>2, <2>3 DEF Moves
<1>9. CASE MapSucceeds(w, i)
  BY <1>6, <1>9 DEF MapSucceeds, At
<1>10. CASE Fail(w, i)
  BY <1>6, <1>10 DEF Fail
<1>11. CASE Upload(w, i)
  <2>1. /\ To(w, i, "SUCCESS")
        /\ q.work.phase = "reduce" /\ q.pending = {} /\ q.allMapsComplete
        /\ temps' = temps \cup {[job |-> q.work.job, task |-> q.work.task,
                                 id |-> q.work.id, content |-> q.downloaded]}
        /\ UNCHANGED <<current, updates, final>>
    BY <1>11 DEF Upload, At
  <2> HIDE DEF q, as
  <2>2. Uploads(w, q, as("SUCCESS"))
    BY <1>2, <2>1 DEF Uploads
  <2> QED BY <1>5, <2>1, <2>2
<1>12. CASE CopyObject(w, i)
  <2>1. /\ q.work.phase = "promotion" /\ UNCHANGED <<current, updates, temps>>
        /\ \/ To(w, i, "FAILED") /\ UNCHANGED final
           \/ /\ \E t \in TempsOf(q.work) :
                   final' = [final EXCEPT
                     ![<<OutputPrefix[q.work.job], q.work.task>>] = t.content]
              /\ To(w, i, "copied")
    BY <1>12 DEF CopyObject, At
  <2> HIDE DEF q, as
  <2>2. CASE To(w, i, "FAILED") /\ UNCHANGED final
    BY <1>6, <2>1, <2>2 DEF objectVars
  <2>3. CASE /\ \E t \in TempsOf(q.work) :
                   final' = [final EXCEPT
                     ![<<OutputPrefix[q.work.job], q.work.task>>] = t.content]
             /\ To(w, i, "copied")
    <3>1. Copies(w, q, as("copied"))
      BY <1>2, <2>1, <2>3 DEF Copies
    <3> QED BY <1>5, <2>1, <2>3, <3>1
  <2> QED BY <2>1, <2>2, <2>3
<1>13. CASE RemoveObject(w, i)
  <2>1. /\ q.work.phase = "promotion" /\ q.stage = "copied"
        /\ temps' = temps \ TempsOf(q.work) \/ UNCHANGED temps
        /\ To(w, i, "SUCCESS")
        /\ UNCHANGED <<current, updates, final>>
    BY <1>13 DEF RemoveObject, At
  <2> HIDE DEF q, as
  <2>2. Removes(w, q, as("SUCCESS"))
    BY <1>2, <2>1 DEF Removes
  <2> QED BY <1>5, <2>1, <2>2
<1> QED BY <1>7, <1>8, <1>9, <1>10, <1>11, <1>12, <1>13

\* The end of a goroutine.
RunEnds(w, q) ==
  /\ runs[w] = <<q>> /\ runs'[w] = <<>> /\ q \in Runs /\ q.stage \in Outcomes
  /\ lastResult'[w] = <<q.work, q.stage>> /\ current'[w] = None
  /\ \A v \in Workers \ {w} : /\ runs'[v] = runs[v]
                              /\ current'[v] = current[v]
                              /\ lastResult'[v] = lastResult[v]
  /\ UNCHANGED <<alive, updates, rpc, stray, objectVars>>

LEMMA FinishEnds ==
  ASSUME ProcessInv, OneTask, NEW w \in Workers, NEW i, Finish(w, i)
  PROVE  \E q : RunEnds(w, q)
<1> DEFINE stopped == [k \in DOMAIN runs[w] |->
                         [runs[w][k] EXCEPT !.cancellable = FALSE]]
           q == runs[w][i]
<1>1. /\ i \in DOMAIN runs[w] /\ q.stage \in Outcomes
      /\ lastResult' = [lastResult EXCEPT ![w] = <<q.work, q.stage>>]
      /\ current' = [current EXCEPT ![w] = None]
      /\ runs' = [runs EXCEPT ![w] = RemoveAt(stopped, i)]
      /\ UNCHANGED <<alive, updates, rpc, stray, objectVars>>
  <2>1. /\ i \in DOMAIN runs[w] /\ q.stage \in Outcomes
        /\ lastResult' = [lastResult EXCEPT ![w] = <<q.work, q.stage>>]
        /\ current' = [current EXCEPT ![w] = None]
    BY Zenon DEF Finish
  <2>2. runs' = [runs EXCEPT ![w] = RemoveAt(stopped, i)]
    BY Zenon DEF Finish
  <2>3. UNCHANGED <<alive, updates, rpc, stray, objectVars>>
    BY Zenon DEF Finish
  <2> HIDE DEF stopped, q
  <2> QED BY <2>1, <2>2, <2>3
<1>2. i = 1 /\ runs[w] = <<q>> /\ q \in Runs
  BY <1>1, RunAlone
<1>3. stopped = <<stopped[1]>>
  <2>1. /\ stopped = [k \in DOMAIN stopped |-> stopped[k]]
        /\ DOMAIN stopped = DOMAIN runs[w]
    BY Zenon
  <2>2. DOMAIN runs[w] = 1 .. 1
    BY <1>2
  <2> HIDE DEF stopped
  <2> QED BY <2>1, <2>2, OneElement
<1> HIDE DEF stopped, q
<1>4. RemoveAt(stopped, 1) = <<>>
  <2>1. \A r : RemoveAt(<<r>>, 1) = <<>>
    BY DEF RemoveAt
  <2> QED BY <1>3, <2>1
<1>5. /\ DOMAIN runs = Workers /\ DOMAIN current = Workers
      /\ DOMAIN lastResult = Workers
  BY DEF OneTask, ProcessInv, Processes
<1> QED BY <1>1, <1>2, <1>4, <1>5 DEF RunEnds

LEMMA StepKinds ==
  ASSUME ProcessInv, OneTask, NEW w \in Workers, NEW i \in DOMAIN runs[w],
         RunStep(w, i) \/ Fail(w, i)
  PROVE  \E q : RunEnds(w, q) \/ \E r : Moves(w, q, r)
BY FinishEnds, SetBusyMoves, DownloadMoves, TakeMoves, EffectMoves DEF RunStep

-----------------------------------------------------------------------------
(* The steps of the heartbeat loop                                         *)

\* Its variables, as they are when nothing but them changes.
OnlyLoop(w) ==
  /\ \A v \in Workers \ {w} : rpc'[v] = rpc[v]
  /\ UNCHANGED <<alive, current, runs, updates, objectVars>>

LaunchedFrom(w, a) == runs[w] = <<>> /\ runs'[w] = <<Launched(a, w)>>
Continues(w, q, r) ==
  /\ runs[w] = <<q>> /\ runs'[w] = <<r>>
  /\ q \in Runs /\ r.work = q.work /\ r.stage = q.stage /\ SameGather(q, r)
Update(m) == [urls |-> m.urls, allMapsComplete |-> m.allMaps]
Receives(w, m) ==
  /\ m.kind = "reply" /\ rpc'[w].kind = "none"
  /\ lastResult'[w] = IF lastResult[w] = m.result THEN None ELSE lastResult[w]
  /\ \/ updates'[w] = updates[w]
     \/ /\ m.urls # {} \/ m.allMaps
        /\ updates'[w] = Append(updates[w], Update(m))
  /\ \A v \in Workers \ {w} : /\ runs'[v] = runs[v] /\ updates'[v] = updates[v]
                              /\ rpc'[v] = rpc[v]
                              /\ lastResult'[v] = lastResult[v]
  /\ UNCHANGED <<alive, current, stray, objectVars>>
  /\ \/ m.given = {} /\ runs[w] = <<>> /\ runs'[w] = <<>>
     \/ m.given = {} /\ \E q, r : Continues(w, q, r)
     \/ \E a : m.given = {a} /\ LaunchedFrom(w, a)

LEMMA ReceiveRuns ==
  ASSUME ProcessInv, OneTask, NEW w \in Workers, Receive(w)
  PROVE  \/ rpc[w].given = {} /\ runs[w] = <<>> /\ runs'[w] = <<>>
         \/ rpc[w].given = {} /\ \E q, r : Continues(w, q, r)
         \/ \E a : rpc[w].given = {a} /\ LaunchedFrom(w, a)
<1> DEFINE m == rpc[w]
           stopped(r) == [r EXCEPT !.cancelled = @ \/ r.cancellable]
           aborted == [i \in DOMAIN runs[w] |-> stopped(runs[w][i])]
           kept == IF m.abort THEN aborted ELSE runs[w]
           new == {Launched(a, w) : a \in m.given}
<1>1. m.kind = "reply" /\ runs' = [runs EXCEPT ![w] = kept \o SetToSeq(new)]
  BY Zenon DEF Receive
<1>2. runs'[w] = kept \o SetToSeq(new)
  BY <1>1 DEF OneTask
<1>3. CASE m.given = {}
  <2>1. SetToSeq(new) = <<>>
    BY <1>3, SetToSeqOfOne
  <2>2. CASE runs[w] = <<>>
    <3>1. aborted = <<>>
      BY <2>2
    <3> QED BY <1>2, <1>3, <2>1, <2>2, <3>1
  <2>3. ASSUME NEW q, runs[w] = <<q>> PROVE \E r : Continues(w, q, r)
    <3>1. q \in Runs /\ aborted = <<stopped(q)>>
      <4>1. 1 \in DOMAIN runs[w] /\ runs[w][1] = q
        BY <2>3
      <4>2. aborted = <<stopped(q)>>
        BY <2>3
      <4> QED BY <4>1, <4>2, RunOf
    <3>2. /\ stopped(q).stage = q.stage /\ stopped(q).work = q.work
          /\ SameGather(q, stopped(q))
      BY <3>1 DEF Runs, SameGather
    <3>3. SameGather(q, q)
      BY DEF SameGather
    <3> HIDE DEF stopped, aborted, new
    <3>4. PICK r : kept = <<r>> /\ r.stage = q.stage /\ r.work = q.work
                   /\ SameGather(q, r)
      BY <2>3, <3>1, <3>2, <3>3
    <3>5. runs'[w] = <<r>>
      BY <1>2, <2>1, <3>4
    <3> QED BY <2>3, <3>1, <3>4, <3>5 DEF Continues
  <2> QED BY <1>3, <2>2, <2>3 DEF OneTask, Alone
<1>4. CASE m.given # {}
  <2>1. runs[w] = <<>> /\ AtMostOne(m.given)
    BY <1>1, <1>4 DEF OneTask, Alone
  <2>2. PICK a : m.given = {a}
    BY <1>4, <2>1 DEF AtMostOne
  <2>3. new = {Launched(a, w)}
    BY <2>2
  <2>4. SetToSeq(new) = <<Launched(a, w)>>
    BY <2>3, SetToSeqOfOne
  <2>5. aborted = <<>>
    BY <2>1
  <2> HIDE DEF new, aborted
  <2>6. runs'[w] = <<Launched(a, w)>>
    BY <1>2, <2>1, <2>4, <2>5
  <2> QED BY <2>1, <2>2, <2>6 DEF LaunchedFrom
<1> QED BY <1>3, <1>4

LEMMA ReceiveReceives ==
  ASSUME ProcessInv, OneTask, NEW w \in Workers, Receive(w), NEW m, m = rpc[w]
  PROVE  Receives(w, m)
<1> DEFINE left == IF lastResult[w] = m.result THEN None ELSE lastResult[w]
           queued == IF (m.urls # {} \/ m.allMaps) /\ Len(updates[w]) < UpdateCap
                       THEN Append(updates[w], Update(m)) ELSE updates[w]
<1>1. /\ m.kind = "reply" /\ rpc' = [rpc EXCEPT ![w] = Waiting]
      /\ UNCHANGED <<alive, current, stray, objectVars>>
  BY Zenon DEF Receive
<1>2. lastResult' = [lastResult EXCEPT ![w] = left]
  BY Zenon DEF Receive
<1>3. updates' = [updates EXCEPT ![w] = queued]
  BY Zenon DEF Receive, Update
<1>4. /\ DOMAIN runs = Workers /\ DOMAIN rpc = Workers
      /\ DOMAIN lastResult = Workers /\ DOMAIN updates = Workers
  BY DEF OneTask, ProcessInv, Processes
<1>5. \A v \in Workers \ {w} : runs'[v] = runs[v]
  <2>1. \E x : runs' = [runs EXCEPT ![w] = x]
    BY Zenon DEF Receive
  <2> QED BY <1>4, <2>1
<1>6. lastResult'[w] = left /\ updates'[w] = queued
  <2> HIDE DEF left, queued
  <2> QED BY <1>2, <1>3, <1>4
<1>7. \/ updates'[w] = updates[w]
      \/ /\ m.urls # {} \/ m.allMaps
         /\ updates'[w] = Append(updates[w], Update(m))
  BY <1>6
<1> HIDE DEF queued
<1>8. /\ rpc'[w] = Waiting
      /\ \A v \in Workers \ {w} : rpc'[v] = rpc[v] /\ updates'[v] = updates[v]
                                  /\ lastResult'[v] = lastResult[v]
  BY <1>1, <1>2, <1>3, <1>4
<1>9. rpc'[w].kind = "none"
  BY <1>8 DEF Waiting
<1>10. \/ m.given = {} /\ runs[w] = <<>> /\ runs'[w] = <<>>
       \/ m.given = {} /\ \E q, r : Continues(w, q, r)
       \/ \E a : m.given = {a} /\ LaunchedFrom(w, a)
  BY ReceiveRuns
<1> QED BY <1>1, <1>5, <1>6, <1>7, <1>8, <1>9, <1>10 DEF Receives

\* A heartbeat is sent: an idle one when there is no goroutine.
Sends(w, m) ==
  /\ m.kind = "request" /\ m.task = current[w] /\ m.result = lastResult[w]
  /\ m.idle => runs[w] = <<>>
  /\ rpc'[w] = m
  /\ UNCHANGED <<lastResult, stray>>
  /\ OnlyLoop(w)

LEMMA TickSends ==
  ASSUME PromptStart, ProcessInv, OneTask, NEW w \in Workers, InTime(w)
  PROVE  \E m : Sends(w, m)
<1> DEFINE m == [kind |-> "request", idle |-> ~busy[w],
                 task |-> current[w], result |-> lastResult[w]]
<1>1. /\ rpc' = [rpc EXCEPT ![w] = m]
      /\ UNCHANGED <<alive, current, runs, updates, lastResult, stray, objectVars>>
  BY Zenon DEF InTime, Tick
<1>2. /\ m.kind = "request" /\ m.task = current[w] /\ m.result = lastResult[w]
      /\ m.idle => ~busy[w]
  BY Zenon
<1>3. \A i \in 1 .. Len(runs[w]) : runs[w][i].stage # "launched"
  BY DEF InTime, Begun
<1> HIDE DEF m
<1>4. m.idle => runs[w] = <<>>
  <2>1. ASSUME NEW r, runs[w] = <<r>>, r.stage = "launched" PROVE FALSE
    BY <1>3, <2>1
  <2> QED BY <1>2, <2>1 DEF OneTask, Alone
<1>5. rpc'[w] = m /\ \A v \in Workers \ {w} : rpc'[v] = rpc[v]
  BY <1>1 DEF OneTask
<1> QED BY <1>1, <1>2, <1>4, <1>5 DEF Sends, OnlyLoop

-----------------------------------------------------------------------------
(* What workers say: an attempt has one outcome, before and after it is heard *)

\* The results that were heard, are held by a worker or are on their way.
Said == (results \cup {lastResult[w] : w \in Workers}
           \cup {rpc[w].result : w \in {v \in Workers : rpc[v].kind = "request"}}
           \cup {x.request.result : x \in stray}) \ {None}

\* What w works on, or is about to.
Works(w) == {runs[w][i].work : i \in DOMAIN runs[w]}
              \cup {Issue(a, w) : a \in IF rpc[w].kind = "reply"
                                          THEN rpc[w].given ELSE {}}

\* Of the attempt that a worker is still on, nobody has said anything yet.
Unsaid(k) == \A o \in Outcomes : k.phase # "promotion" => <<k, o>> \notin Said
Truthful == /\ OneOutcome(Said)
            /\ \A w \in Workers : \A k \in Works(w) : Unsaid(k)

\* What w has done, but for the report of it; and the attempts that have had
\* their effect, as somebody knows or will say.
HasDone(w) ==
  {runs[w][i].work : i \in {n \in DOMAIN runs[w] :
                              runs[w][n].stage \in {"copied", "SUCCESS"}}}
Effective(k) ==
  <<k, "SUCCESS">> \in Said \/ \E w \in Workers : k \in HasDone(w)

\* A step that keeps this, and tells of no success that was none.
StaysTruthful == /\ Truthful'
                 /\ \A k : <<k, "SUCCESS">> \in Said' => Effective(k)

LEMMA SaidFacts ==
  ASSUME IInv, ProcessInv
  PROVE  /\ results \subseteq Said
         /\ Said \subseteq issued \X Outcomes
         /\ \A w \in Workers :
              /\ lastResult[w] # None => lastResult[w] \in Said
              /\ rpc[w].kind = "request" /\ rpc[w].result # None
                   => rpc[w].result \in Said
         /\ \A x \in stray : x.request.result # None => x.request.result \in Said
<1>1. issued \subseteq Issues /\ results \subseteq issued \X Outcomes
  BY DEF IInv, TypeOK, ControlTypeOK
<1>2. None \notin issued \X Outcomes
  BY <1>1, NothingAssumption
<1>3. results \subseteq Said
  BY <1>1, <1>2 DEF Said
<1>4. \A w \in Workers : Given(w) \X Outcomes \subseteq issued \X Outcomes
  BY DEF Given
<1>5. \A w \in Workers :
        /\ lastResult[w] \in (Given(w) \X Outcomes) \cup {None}
        /\ rpc[w].kind = "request"
             => rpc[w].result \in (Given(w) \X Outcomes) \cup {None}
  BY DEF ProcessInv, Informed, KnownRequests
<1>6. \A x \in stray : /\ x.worker \in Workers
                       /\ x.request.result
                            \in (Given(x.worker) \X Outcomes) \cup {None}
  BY DEF ProcessInv, Mailbox, KnownRequests
<1>7. Said \subseteq issued \X Outcomes
  BY <1>1, <1>4, <1>5, <1>6 DEF Said
<1>8. \A w \in Workers :
        /\ lastResult[w] # None => lastResult[w] \in Said
        /\ rpc[w].kind = "request" /\ rpc[w].result # None
             => rpc[w].result \in Said
  BY DEF Said
<1>9. \A x \in stray : x.request.result # None => x.request.result \in Said
  BY DEF Said
<1> QED BY <1>3, <1>7, <1>8, <1>9

\* Nothing new is said when results only move.
LEMMA SaidStep ==
  ASSUME results' \subseteq Said \cup {None},
         \A w \in Workers :
           /\ lastResult'[w] \in {lastResult[w], None}
           /\ rpc'[w].kind = "request" =>
                \/ rpc'[w] = rpc[w]
                \/ rpc'[w].result = lastResult[w],
         \A x \in stray' :
           \/ x \in stray
           \/ \E w \in Workers : rpc[w].kind = "request" /\ x.request = rpc[w]
  PROVE  Said' \subseteq Said
BY DEF Said

LEMMA TruthStep ==
  ASSUME Truthful, Said' \subseteq Said,
         \A w \in Workers : \A k \in Works(w)' :
           k \in Works(w) \/ k.phase = "promotion" \/ Unsaid(k)
  PROVE  StaysTruthful
<1>1. OneOutcome(Said)'
  BY DEF Truthful, OneOutcome
<1>2. ASSUME NEW w \in Workers, NEW k \in Works(w)' PROVE Unsaid(k)'
  BY DEF Truthful, Unsaid
<1>3. \A k : <<k, "SUCCESS">> \in Said' => Effective(k)
  BY DEF Effective
<1> QED BY <1>1, <1>2, <1>3 DEF Truthful, StaysTruthful

LEMMA WorksOf ==
  ASSUME NEW w
  PROVE  /\ runs[w] = <<>> => {runs[w][i].work : i \in DOMAIN runs[w]} = {}
         /\ \A q : runs[w] = <<q>> =>
              {runs[w][i].work : i \in DOMAIN runs[w]} = {q.work}
OBVIOUS

\* A worker that works on the same as before.
LEMMA SameWorks ==
  ASSUME NEW w, runs'[w] = runs[w],
         \/ rpc'[w] = rpc[w]
         \/ rpc'[w].kind # "reply"
  PROVE  Works(w)' \subseteq Works(w)
BY DEF Works

LEMMA MoveWorks ==
  ASSUME NEW w, NEW q, NEW r, runs[w] = <<q>>, runs'[w] = <<r>>,
         r.work = q.work, rpc'[w] = rpc[w] \/ rpc'[w].kind # "reply"
  PROVE  Works(w)' \subseteq Works(w)
<1>1. /\ {runs[w][i].work : i \in DOMAIN runs[w]} = {q.work}
      /\ {runs'[w][i].work : i \in DOMAIN runs'[w]} = {r.work}
  OBVIOUS
<1> QED BY <1>1 DEF Works

LEMMA EndWorks ==
  ASSUME NEW w, runs'[w] = <<>>, rpc'[w] = rpc[w] \/ rpc'[w].kind # "reply"
  PROVE  Works(w)' \subseteq Works(w)
<1>1. {runs'[w][i].work : i \in DOMAIN runs'[w]} = {}
  OBVIOUS
<1> QED BY <1>1 DEF Works

LEMMA LaunchWorks ==
  ASSUME NEW w, NEW a, LaunchedFrom(w, a), rpc[w].kind = "reply",
         rpc[w].given = {a}, rpc'[w].kind = "none"
  PROVE  Works(w)' \subseteq Works(w)
<1>1. Launched(a, w).work = Issue(a, w)
  BY DEF Launched
<1>2. {runs'[w][i].work : i \in DOMAIN runs'[w]} = {Issue(a, w)}
  BY <1>1 DEF LaunchedFrom
<1> QED BY <1>2 DEF Works

\* The attempts of other workers are others.
LEMMA WorksGiven ==
  ASSUME ProcessInv, NEW w \in Workers
  PROVE  Works(w) \subseteq Given(w)
<1>1. {runs[w][i].work : i \in DOMAIN runs[w]} \subseteq Given(w)
  BY RunOf
<1>2. ASSUME rpc[w].kind = "reply", NEW a \in rpc[w].given
      PROVE  Issue(a, w) \in Given(w)
  <2>1. Issue(a, w) \in issued
    BY <1>2 DEF ProcessInv, Informed, KnownReply
  <2>2. Issue(a, w).worker = w
    BY DEF Issue
  <2> QED BY <2>1, <2>2 DEF Given
<1> QED BY <1>1, <1>2 DEF Works

\* A worker that is on a task is BUSY, and a heartbeat that says that its sender
\* is idle names no task.
Candid == /\ \A w \in Workers :
               /\ current[w] # None => busy[w]
               /\ rpc[w].kind = "request" /\ rpc[w].idle => rpc[w].task = None
          /\ \A x \in stray : x.request.idle => x.request.task = None

\* What the workers of the repository can be relied on for, whatever happens.
Honest == /\ IInv /\ BackedAll /\ OwnIds
          /\ ProcessInv /\ OneTask
          /\ Truthful /\ Candid

LEMMA ReportOf ==
  ASSUME IInv, NEW w \in Workers, NEW q \in KnownRequests(w)
  PROVE  \/ q.result = None /\ ResultIn(q) = None
         \/ /\ q.result # None /\ ResultIn(q) # None
            /\ \E k \in Given(w), o \in Outcomes :
                 q.result = <<k, o>> /\ ResultIn(q) = Result(k, o)
<1>1. q.result = None \/ q.result \in Given(w) \X Outcomes
  BY DEF KnownRequests
<1>2. CASE q.result = None
  BY <1>2 DEF ResultIn
<1>3. CASE q.result # None
  <2>1. PICK k \in Given(w), o \in Outcomes : q.result = <<k, o>>
    BY <1>1, <1>3
  <2>2. ResultIn(q) = Result(k, o)
    BY <1>3, <2>1 DEF ResultIn
  <2>3. /\ k.job \in Jobs /\ k.phase \in {"map", "reduce", "promotion"}
        /\ k.task \in MapTasks \cup Partitions /\ k.id \in AttemptIds
    <3>1. k \in Issues
      BY DEF Given, IInv, TypeOK, ControlTypeOK
    <3> QED BY <3>1 DEF Issues
  <2>4. Result(k, o) \in [job : Jobs, phase : {"map", "reduce", "promotion"},
                          task : MapTasks \cup Partitions,
                          id : AttemptIds, outcome : Outcomes]
    BY <2>3 DEF Result
  <2>5. Result(k, o) # None
    BY <2>4, NothingAssumption
  <2> QED BY <1>3, <2>1, <2>2, <2>5
<1> QED BY <1>2, <1>3

\* What the master hears was said, and what it hands out is a promotion or new.
LEMMA HearTruth ==
  ASSUME Honest, NEW w \in Workers,
         NEW q, \/ q = rpc[w] /\ rpc[w].kind = "request"
                \/ \E x \in stray : x.worker = w /\ x.request = q,
         NEW slow \in SlowFor(q), Hear(w, q, slow)
  PROVE  /\ q \in KnownRequests(w) /\ (q.result = None \/ q.result \in Said)
         /\ results' \subseteq Said
         /\ \A a \in Heard(w, q.idle, ResultIn(q), slow).given :
              Issue(a, w).phase = "promotion" \/ Unsaid(Issue(a, w))
<1> DEFINE report == IF q.result = None THEN {} ELSE {q.result}
           given == Heard(w, q.idle, ResultIn(q), slow).given
<1>1. q \in KnownRequests(w)
  BY DEF Honest, ProcessInv, Informed, Mailbox
<1>2. q.result = None \/ q.result \in Said
  BY SaidFacts DEF Honest
<1>3. Reported(report, ResultIn(q))
  BY <1>1, ReportOf DEF Honest, Reported, Given
<1>4. Exchange(w, q.idle, q.task, report, ResultIn(q), slow)
  BY DEF Hear
<1>5. \A a \in given : a.phase # "promotion" => a.id = nextAttempt
  <2>1. q.idle \in BOOLEAN
    BY <1>1 DEF KnownRequests
  <2> HIDE DEF report
  <2> QED BY <1>3, <1>4, <2>1, ExchangeIds DEF Honest
<1>6. results' \subseteq Said
  <2>1. results' = results \cup report
    BY <1>4 DEF Exchange
  <2> QED BY <1>2, <2>1, SaidFacts DEF Honest
<1>7. ASSUME NEW a \in given
      PROVE  Issue(a, w).phase = "promotion" \/ Unsaid(Issue(a, w))
  <2> DEFINE k == Issue(a, w)
  <2>1. k.phase = a.phase /\ k.id = a.id
    BY DEF Issue
  <2> HIDE DEF k, given
  <2>2. nextAttempt \in Nat
    BY DEF Honest, IInv, Sound, Current, State, AttemptIds
  <2>3. k.phase # "promotion" => k \notin issued
    BY <1>5, <1>7, <2>1, <2>2 DEF Honest, OwnIds
  <2>4. k.phase # "promotion" => Unsaid(k)
    BY <2>3, SaidFacts DEF Honest, Unsaid
  <2> QED BY <2>4 DEF k
<1> QED BY <1>1, <1>2, <1>6, <1>7

\* A step of one worker, of which the master hears nothing.
LEMMA LocalTruth ==
  ASSUME Honest, NEW w \in Workers, UNCHANGED results,
         lastResult'[w] \in {lastResult[w], None},
         rpc'[w] = rpc[w] \/ rpc'[w].kind # "reply",
         rpc'[w].kind = "request" =>
           rpc'[w] = rpc[w] \/ rpc'[w].result = lastResult[w],
         \A v \in Workers \ {w} : /\ runs'[v] = runs[v] /\ rpc'[v] = rpc[v]
                                  /\ lastResult'[v] = lastResult[v],
         \A x \in stray' : \/ x \in stray
                           \/ rpc[w].kind = "request" /\ x.request = rpc[w],
         Works(w)' \subseteq Works(w)
  PROVE  StaysTruthful
<1>1. results' \subseteq Said \cup {None}
  BY SaidFacts DEF Honest
<1>2. Said' \subseteq Said
  BY <1>1, SaidStep
<1>3. \A v \in Workers : Works(v)' \subseteq Works(v)
  <2>1. ASSUME NEW v \in Workers \ {w} PROVE Works(v)' \subseteq Works(v)
    BY <2>1, SameWorks
  <2> QED BY <2>1
<1> QED BY <1>2, <1>3, TruthStep DEF Honest

LEMMA EndsTruth ==
  ASSUME Honest, NEW w \in Workers, NEW q, RunEnds(w, q), UNCHANGED results
  PROVE  StaysTruthful
<1> DEFINE p == <<q.work, q.stage>>
<1>1. Said' \subseteq Said \cup {p}
  BY DEF RunEnds, Said
<1>2. q.work \in Works(w) /\ q.work.worker = w
  <2>1. q.work \in Works(w)
    BY WorksOf DEF RunEnds, Works
  <2> QED BY <2>1, WorksGiven DEF Honest, Given
<1>3. OneOutcome(Said)'
  <2>1. q.work.phase # "promotion" => \A r \in Said : r[1] # q.work
    BY <1>2, SaidFacts DEF Honest, Truthful, Unsaid
  <2>2. OneOutcome(Said)
    BY DEF Honest, Truthful
  <2>3. p[1] = q.work
    OBVIOUS
  <2> HIDE DEF p
  <2> QED BY <1>1, <2>1, <2>2, <2>3 DEF OneOutcome
<1>4. Works(w)' = {}
  <2>1. rpc'[w].kind = "reply" => rpc'[w].given = {}
    BY DEF RunEnds, Honest, OneTask, Alone
  <2>2. {runs'[w][i].work : i \in DOMAIN runs'[w]} = {}
    BY DEF RunEnds
  <2> QED BY <2>1, <2>2 DEF Works
<1>5. ASSUME NEW v \in Workers \ {w}, NEW k \in Works(v)'
      PROVE  Unsaid(k)'
  <2>1. k \in Works(v)
    BY <1>5 DEF RunEnds, Works
  <2>2. k.worker = v
    BY <2>1, WorksGiven DEF Honest, Given
  <2>3. Unsaid(k)
    BY <2>1 DEF Honest, Truthful
  <2> QED BY <1>1, <1>2, <2>2, <2>3 DEF Unsaid
<1>6. q.stage = "SUCCESS" => q.work \in HasDone(w)
  <2>1. 1 \in DOMAIN runs[w] /\ runs[w][1] = q
    BY DEF RunEnds
  <2> QED BY <2>1 DEF HasDone
<1>7. \A k : <<k, "SUCCESS">> \in Said' => Effective(k)
  BY <1>1, <1>6 DEF Effective
<1> QED BY <1>3, <1>4, <1>5, <1>7 DEF Truthful, StaysTruthful

\* Results and works are as before.
LEMMA SameTruth ==
  ASSUME Honest, UNCHANGED <<results, lastResult, runs, stray>>,
         \/ UNCHANGED rpc
         \/ \E w \in Workers : rpc' = [rpc EXCEPT ![w] = Waiting]
  PROVE  StaysTruthful
<1>1. \A v \in Workers : rpc'[v] = rpc[v] \/ rpc'[v].kind = "none"
  BY DEF Honest, OneTask, Waiting
<1>2. results' \subseteq Said \cup {None}
  BY SaidFacts DEF Honest
<1>3. Said' \subseteq Said
  BY <1>1, <1>2, SaidStep
<1>4. \A v \in Workers : Works(v)' \subseteq Works(v)
  BY <1>1, SameWorks
<1> QED BY <1>3, <1>4, TruthStep DEF Honest

\* A step that only the worker makes.
LEMMA SilentTruth ==
  ASSUME PromptStart, Honest, NEW w \in Workers,
         \/ Loop(w) \/ LosePatience(w) \/ TaskFails(w) \/ Die(w)
         \/ \E i \in DOMAIN runs[w] : Step(w, i)
  PROVE  StaysTruthful
<1>1. UNCHANGED results
  BY DEF Loop, LosePatience, TaskFails, Die, Step, Silent, vars, netVars
<1>2. ASSUME NEW i \in DOMAIN runs[w], RunStep(w, i) \/ Fail(w, i)
      PROVE  StaysTruthful
  <2>1. PICK q : RunEnds(w, q) \/ \E r : Moves(w, q, r)
    BY <1>2, StepKinds DEF Honest
  <2>2. CASE RunEnds(w, q)
    BY <1>1, <2>2, EndsTruth
  <2>3. ASSUME NEW r, Moves(w, q, r) PROVE StaysTruthful
    <3>1. /\ runs[w] = <<q>> /\ runs'[w] = <<r>> /\ r.work = q.work
          /\ \A v \in Workers \ {w} : runs'[v] = runs[v]
          /\ UNCHANGED <<lastResult, rpc, stray>>
      BY <2>3 DEF Moves
    <3>2. Works(w)' \subseteq Works(w)
      BY <3>1, MoveWorks
    <3> QED BY <1>1, <3>1, <3>2, LocalTruth
  <2> QED BY <2>1, <2>2, <2>3
<1>3. ASSUME InTime(w) PROVE StaysTruthful
  <2>1. PICK m : Sends(w, m)
    BY <1>3, TickSends DEF Honest
  <2>2. Works(w)' \subseteq Works(w)
    BY <2>1, SameWorks DEF Sends, OnlyLoop
  <2> QED BY <1>1, <2>1, <2>2, LocalTruth DEF Sends, OnlyLoop
<1>4. ASSUME Receive(w) PROVE StaysTruthful
  <2>1. PICK m : m = rpc[w] /\ Receives(w, m)
    BY <1>4, ReceiveReceives DEF Honest
  <2>2. Works(w)' \subseteq Works(w)
    <3>1. CASE runs[w] = <<>> /\ runs'[w] = <<>>
      BY <2>1, <3>1, EndWorks DEF Receives
    <3>2. ASSUME NEW q, NEW r, Continues(w, q, r)
          PROVE  Works(w)' \subseteq Works(w)
      BY <2>1, <3>2, MoveWorks DEF Receives, Continues
    <3>3. ASSUME NEW a, m.given = {a}, LaunchedFrom(w, a)
          PROVE  Works(w)' \subseteq Works(w)
      BY <2>1, <3>3, LaunchWorks DEF Receives
    <3> QED BY <2>1, <3>1, <3>2, <3>3 DEF Receives
  <2> QED BY <1>1, <2>1, <2>2, LocalTruth DEF Receives
<1>5. ASSUME GiveUp(w) \/ RegistrationFails(w) PROVE StaysTruthful
  <2>1. DOMAIN rpc = Workers
    BY DEF Honest, OneTask
  <2>2. /\ UNCHANGED <<runs, lastResult>>
        /\ rpc'[w].kind = "none" /\ \A v \in Workers \ {w} : rpc'[v] = rpc[v]
        /\ \A x \in stray' : \/ x \in stray
                             \/ rpc[w].kind = "request" /\ x.request = rpc[w]
    BY <1>5, <2>1 DEF GiveUp, RegistrationFails, Waiting
  <2>3. Works(w)' \subseteq Works(w)
    BY <2>2, SameWorks
  <2> QED BY <1>1, <2>2, <2>3, LocalTruth
<1>6. ASSUME WorkerCrashes(w) PROVE StaysTruthful
  <2>1. /\ DOMAIN rpc = Workers /\ DOMAIN runs = Workers
        /\ DOMAIN lastResult = Workers
    BY DEF Honest, OneTask, ProcessInv, Processes
  <2>2. /\ runs'[w] = <<>> /\ lastResult'[w] = None /\ rpc'[w].kind = "none"
        /\ \A v \in Workers \ {w} : /\ runs'[v] = runs[v] /\ rpc'[v] = rpc[v]
                                    /\ lastResult'[v] = lastResult[v]
        /\ \A x \in stray' : \/ x \in stray
                             \/ rpc[w].kind = "request" /\ x.request = rpc[w]
    BY <1>6, <2>1 DEF WorkerCrashes, Waiting
  <2>3. Works(w)' \subseteq Works(w)
    BY <2>2, EndWorks
  <2> QED BY <1>1, <2>2, <2>3, LocalTruth
<1> QED BY <1>2, <1>3, <1>4, <1>5, <1>6
        DEF Loop, LosePatience, TaskFails, Die, Step

LEMMA AnswerTruth ==
  ASSUME Honest, NEW w \in Workers, Answer(w)
  PROVE  StaysTruthful
<1>1. /\ rpc[w].kind = "request" /\ DOMAIN rpc = Workers
      /\ UNCHANGED <<lastResult, runs, stray>>
  BY DEF Answer, Honest, OneTask
<1>2. CASE w \in registered
  <2>1. PICK slow \in SlowFor(rpc[w]) :
          /\ Hear(w, rpc[w], slow)
          /\ rpc' = [rpc EXCEPT ![w] = Reply(w, rpc[w], slow)]
    BY <1>2 DEF Answer
  <2> DEFINE given == Heard(w, rpc[w].idle, ResultIn(rpc[w]), slow).given
  <2>2. /\ results' \subseteq Said
        /\ \A a \in given : Issue(a, w).phase = "promotion" \/ Unsaid(Issue(a, w))
    BY <1>1, <2>1, HearTruth
  <2>3. /\ rpc'[w].kind = "reply" /\ rpc'[w].given = given
        /\ \A v \in Workers \ {w} : rpc'[v] = rpc[v]
    <3>1. /\ Reply(w, rpc[w], slow).kind = "reply"
          /\ Reply(w, rpc[w], slow).given = given
      BY Zenon DEF Reply
    <3> HIDE DEF given
    <3> QED BY <1>1, <2>1, <3>1
  <2> HIDE DEF given
  <2>4. Said' \subseteq Said
    BY <1>1, <2>2, <2>3, SaidStep
  <2>5. \A v \in Workers : \A k \in Works(v)' :
          k \in Works(v) \/ k.phase = "promotion" \/ Unsaid(k)
    BY <1>1, <2>2, <2>3 DEF Works
  <2> QED BY <2>4, <2>5, TruthStep DEF Honest
<1>3. CASE w \notin registered
  <2>1. UNCHANGED results /\ rpc' = [rpc EXCEPT ![w] = Unregistered]
    BY <1>3 DEF Answer, vars, netVars
  <2>2. /\ rpc'[w].kind = "register"
        /\ \A v \in Workers \ {w} : rpc'[v] = rpc[v]
    BY <1>1, <2>1 DEF Unregistered
  <2>3. Works(w)' \subseteq Works(w)
    BY <1>1, <2>2, SameWorks
  <2> QED BY <1>1, <2>1, <2>2, <2>3, LocalTruth
<1> QED BY <1>2, <1>3

LEMMA HearStrayTruth ==
  ASSUME Honest, NEW x \in stray, HearStray(x)
  PROVE  StaysTruthful
<1>1. x.worker \in Workers
  BY DEF HearStray, Honest, ProcessInv, Mailbox
<1>2. PICK slow \in SlowFor(x.request) : Hear(x.worker, x.request, slow)
  BY DEF HearStray
<1>3. stray' \subseteq stray /\ UNCHANGED <<lastResult, runs, rpc>>
  BY DEF HearStray, localVars
<1>4. results' \subseteq Said
  BY <1>1, <1>2, HearTruth
<1>5. Said' \subseteq Said
  BY <1>3, <1>4, SaidStep
<1>6. \A v \in Workers : Works(v)' = Works(v)
  BY <1>3 DEF Works
<1> QED BY <1>5, <1>6, TruthStep DEF Honest

LEMMA NextTruth ==
  ASSUME PromptStart, Honest, [ClusterNext]_clusterVars
  PROVE  StaysTruthful
<1>1. ASSUME NEW w \in Workers, Join(w) PROVE StaysTruthful
  <2>1. /\ rpc' = [rpc EXCEPT ![w] = Waiting]
        /\ UNCHANGED <<results, lastResult, runs, stray>>
    BY <1>1 DEF Join, Register, netVars
  <2> QED BY <2>1, SameTruth
<1>2. ASSUME \/ \E w \in Workers : EvictSlow(w) \/ EvictDead(w)
             \/ Submit \/ Enqueue \/ Cancel \/ DeleteOutput
             \/ Housekeeping \/ MasterEnds
             \/ UNCHANGED clusterVars
      PROVE  StaysTruthful
  <2>1. UNCHANGED results
    BY <1>2 DEF EvictSlow, EvictDead, Timeout, Expire, Submit, Enqueue, Cancel,
       DeleteOutput, Housekeeping, TakeSnapshot, Storage, BadLoad, Interrupt,
       MasterEnds, Restart, netVars, clusterVars, vars
  <2>2. UNCHANGED <<lastResult, runs, stray, rpc>>
    BY <1>2 DEF EvictSlow, EvictDead, Submit, Enqueue, Cancel, DeleteOutput,
       Housekeeping, MasterEnds, clusterVars, processVars, localVars
  <2> QED BY <2>1, <2>2, SameTruth
<1> QED BY <1>1, <1>2, SilentTruth, AnswerTruth, HearStrayTruth DEF ClusterNext

\* No worker forgets that it is on a task.
LEMMA CandidStep ==
  ASSUME Honest, [ClusterNext]_clusterVars
  PROVE  Candid'
<1>1. /\ DOMAIN busy = Workers /\ DOMAIN current = Workers
      /\ DOMAIN rpc = Workers
  BY DEF Honest, OneTask, ProcessInv, Processes
<1>2. ASSUME NEW w \in Workers,
             \A v \in Workers \ {w} : /\ current'[v] = current[v]
                                      /\ busy'[v] = busy[v]
                                      /\ rpc'[v] = rpc[v],
             current'[w] # None => busy'[w],
             rpc'[w].kind = "request" /\ rpc'[w].idle => rpc'[w].task = None,
             \A x \in stray' : \/ x \in stray
                               \/ rpc[w].kind = "request" /\ x.request = rpc[w]
      PROVE  Candid'
  BY <1>2 DEF Honest, Candid
<1>3. ASSUME NEW w \in Workers, NEW i \in DOMAIN runs[w],
             RunStep(w, i) \/ Fail(w, i)
      PROVE  Candid'
  <2>1. CASE SetBusy(w, i)
    <3>1. busy' = [busy EXCEPT ![w] = TRUE] /\ UNCHANGED <<current, rpc, stray>>
      BY <2>1, Zenon DEF SetBusy
    <3> QED BY <1>1, <1>2, <3>1 DEF Honest, Candid
  <2>2. CASE SetCurrentTask(w, i)
    <3>1. busy[w]
      <4>1. runs[w] # <<>> /\ \A r : runs[w] = <<r>> => runs[w][i] = r
        BY <1>3
      <4> QED BY <2>2, <4>1 DEF SetCurrentTask, Honest, OneTask, Alone
    <3>2. /\ \E x : current' = [current EXCEPT ![w] = x]
          /\ UNCHANGED <<busy, rpc, stray>>
      BY <2>2 DEF SetCurrentTask
    <3> QED BY <1>1, <1>2, <3>1, <3>2 DEF Honest, Candid
  <2>3. CASE Finish(w, i)
    <3>1. /\ current' = [current EXCEPT ![w] = None]
          /\ busy' = [busy EXCEPT ![w] = FALSE] /\ UNCHANGED <<rpc, stray>>
      BY <2>3, Zenon DEF Finish
    <3> QED BY <1>1, <1>2, <3>1 DEF Honest, Candid
  <2>4. CASE \/ MapSucceeds(w, i) \/ DrainUpdates(w, i) \/ DownloadPartition(w, i)
             \/ TakeUpdate(w, i) \/ Upload(w, i) \/ CopyObject(w, i)
             \/ RemoveObject(w, i) \/ Fail(w, i)
    <3>1. UNCHANGED <<current, busy, rpc, stray>>
      BY <2>4 DEF MapSucceeds, DrainUpdates, DownloadPartition, TakeUpdate,
         Upload, CopyObject, RemoveObject, Fail
    <3> QED BY <3>1 DEF Honest, Candid
  <2> QED BY <1>3, <2>1, <2>2, <2>3, <2>4 DEF RunStep
<1>4. ASSUME NEW w \in Workers, Loop(w) PROVE Candid'
  <2>1. CASE InTime(w)
    <3> DEFINE m == [kind |-> "request", idle |-> ~busy[w],
                     task |-> current[w], result |-> lastResult[w]]
    <3>1. rpc' = [rpc EXCEPT ![w] = m] /\ UNCHANGED <<current, busy, stray>>
      BY <2>1, Zenon DEF InTime, Tick
    <3>2. m.idle => ~busy[w] /\ m.task = current[w]
      BY Zenon
    <3>3. m.task = current[w]
      BY Zenon
    <3> HIDE DEF m
    <3> QED BY <1>1, <1>2, <3>1, <3>2, <3>3 DEF Honest, Candid
  <2>2. CASE Receive(w)
    <3>1. /\ rpc' = [rpc EXCEPT ![w] = Waiting]
          /\ UNCHANGED <<current, busy, stray>>
      BY <2>2, Zenon DEF Receive
    <3> QED BY <1>1, <1>2, <3>1 DEF Honest, Candid, Waiting
  <2> QED BY <1>4, <2>1, <2>2 DEF Loop
<1>5. ASSUME NEW w \in Workers, GiveUp(w) \/ RegistrationFails(w)
      PROVE  Candid'
  <2>1. /\ rpc' = [rpc EXCEPT ![w] = Waiting] /\ UNCHANGED <<current, busy>>
        /\ \A x \in stray' : \/ x \in stray
                             \/ rpc[w].kind = "request" /\ x.request = rpc[w]
    BY <1>5 DEF GiveUp, RegistrationFails
  <2> QED BY <1>1, <1>2, <2>1 DEF Honest, Candid, Waiting
<1>6. ASSUME NEW w \in Workers, WorkerCrashes(w) PROVE Candid'
  <2>1. /\ rpc' = [rpc EXCEPT ![w] = Waiting]
        /\ current' = [current EXCEPT ![w] = None]
        /\ busy' = [busy EXCEPT ![w] = FALSE]
        /\ \A x \in stray' : \/ x \in stray
                             \/ rpc[w].kind = "request" /\ x.request = rpc[w]
    BY <1>6 DEF WorkerCrashes
  <2> QED BY <1>1, <1>2, <2>1 DEF Waiting
<1>7. ASSUME NEW w \in Workers, Answer(w) \/ Join(w) PROVE Candid'
  <2>1. /\ rpc'[w].kind # "request" /\ \A v \in Workers \ {w} : rpc'[v] = rpc[v]
    <3>1. CASE Join(w) \/ (Answer(w) /\ w \notin registered)
      BY <1>1, <3>1 DEF Join, Answer, Waiting, Unregistered
    <3>2. CASE Answer(w) /\ w \in registered
      <4>1. PICK slow : rpc' = [rpc EXCEPT ![w] = Reply(w, rpc[w], slow)]
        BY <3>2 DEF Answer
      <4>2. Reply(w, rpc[w], slow).kind = "reply"
        BY Zenon DEF Reply
      <4> QED BY <1>1, <4>1, <4>2
    <3> QED BY <1>7, <3>1, <3>2
  <2>2. UNCHANGED <<current, busy, stray>>
    BY <1>7 DEF Answer, Join
  <2> QED BY <1>2, <2>1, <2>2 DEF Honest, Candid
<1>8. ASSUME \/ \E w \in Workers : EvictSlow(w) \/ EvictDead(w)
             \/ \E x \in stray : HearStray(x)
             \/ Submit \/ Enqueue \/ Cancel \/ DeleteOutput
             \/ Housekeeping \/ MasterEnds
             \/ UNCHANGED clusterVars
      PROVE  Candid'
  <2>1. UNCHANGED <<busy, current, rpc>> /\ stray' \subseteq stray
    BY <1>8 DEF EvictSlow, EvictDead, HearStray, Submit, Enqueue, Cancel,
       DeleteOutput, Housekeeping, MasterEnds, clusterVars, processVars, localVars
  <2> QED BY <2>1 DEF Honest, Candid
<1> QED BY <1>3, <1>4, <1>5, <1>6, <1>7, <1>8
        DEF ClusterNext, Step, TaskFails, LosePatience, Die

LEMMA InitHonest == ClusterInit => Honest
<1> SUFFICES ASSUME ClusterInit PROVE Honest
  OBVIOUS
<1>1. IInv /\ ProcessInv /\ OneTask
  BY InitSound, InitProcess, InitOneTask DEF ClusterInit
<1>2. /\ issued = {} /\ results = {} /\ saving = {} /\ checkpoint = {}
      /\ jobs = [j \in Jobs |-> NoJob]
  BY DEF ClusterInit, Init, MasterInit, Fresh
<1>3. BackedAll /\ OwnIds
  BY <1>2, NewJobBacked DEF BackedAll, Backed, OwnIds, FreshIds
<1>4. Truthful
  <2>1. Said = {}
    BY <1>1, <1>2, SaidFacts
  <2>2. \A w \in Workers : Works(w) = {}
    BY <1>1, <1>2, WorksGiven DEF Given
  <2> QED BY <2>1, <2>2 DEF Truthful, OneOutcome
<1>5. Candid
  BY DEF ClusterInit, WorkerInit, Starting, Candid
<1> QED BY <1>1, <1>3, <1>4, <1>5 DEF Honest

LEMMA NextHonest ==
  ASSUME PromptStart, Honest, [ClusterNext]_clusterVars
  PROVE  Honest' /\ StaysTruthful
<1>1. ProcessInv' /\ [OpenNext]_vars
  BY ClusterStep DEF Honest
<1>2. IInv' /\ BackedAll' /\ OwnIds'
  BY <1>1, NextSound, BackedStep, OwnIdsStep DEF Honest
<1>3. OneTask' /\ StaysTruthful /\ Candid'
  BY NextOneTask, NextTruth, CandidStep DEF Honest
<1> QED BY <1>1, <1>2, <1>3 DEF Honest, StaysTruthful

LEMMA ClusterHonest ==
  ASSUME PromptStart
  PROVE  ClusterSpec => []Honest
<1>1. Honest /\ [ClusterNext]_clusterVars => Honest'
  BY NextHonest
<1> QED BY <1>1, InitHonest, PTL DEF ClusterSpec

-----------------------------------------------------------------------------
(* Control with other bounds takes the same steps                          *)

\* ControlPlane is Control but for two bounds: its operators are those of
\* Control, and so are its actions that have none of the two in their guard.
LEMMA SamePieces ==
  /\ ControlPlane!NewJob = NewJob /\ ControlPlane!NoJob = NoJob
  /\ \A job :
       /\ ControlPlane!IdleMaps(job) = IdleMaps(job)
       /\ ControlPlane!IdleReduces(job) = IdleReduces(job)
       /\ ControlPlane!PromotableTasks(job) = PromotableTasks(job)
       /\ ControlPlane!AnyMapTaskCompleted(job) = AnyMapTaskCompleted(job)
  /\ \A job, slow :
       /\ ControlPlane!SlowMaps(job, slow) = SlowMaps(job, slow)
       /\ ControlPlane!SlowReduces(job, slow) = SlowReduces(job, slow)
  /\ \A S : ControlPlane!Min(S) = Min(S)
BY Zenon DEF ControlPlane!NewJob, NewJob, ControlPlane!NoJob, NoJob,
   ControlPlane!NoObject, NoObject, ControlPlane!MapTasks, MapTasks,
   ControlPlane!Partitions, Partitions, ControlPlane!IdleMaps, IdleMaps,
   ControlPlane!IdleReduces, IdleReduces,
   ControlPlane!PromotableTasks, PromotableTasks,
   ControlPlane!AnyMapTaskCompleted, AnyMapTaskCompleted,
   ControlPlane!SlowMaps, SlowMaps, ControlPlane!SlowReduces, SlowReduces,
   ControlPlane!Duplicated, Duplicated, ControlPlane!Min, Min

LEMMA SameAdvance ==
  \A s, j : ControlPlane!AdvanceJob(s, j) = AdvanceJob(s, j)
BY Zenon DEF AdvanceJob, ControlPlane!AdvanceJob,
   AllMapped, ControlPlane!AllMapped, MapTasks, ControlPlane!MapTasks,
   AllPromoted, ControlPlane!AllPromoted, Partitions, ControlPlane!Partitions,
   NoObject, ControlPlane!NoObject

LEMMA SameNothing == \A s : ControlPlane!Nothing(s) = Nothing(s)
BY Zenon DEF Nothing, ControlPlane!Nothing

LEMMA SameStart ==
  \A task, id, w :
    ControlPlane!StartAttempt(task, id, w) = StartAttempt(task, id, w)
BY Zenon DEF StartAttempt, ControlPlane!StartAttempt

LEMMA SameGiveReduce ==
  ASSUME NEW s, NEW j, NEW p, NEW w
  PROVE  ControlPlane!GiveReduce(s, j, p, w) = GiveReduce(s, j, p, w)
<1> DEFINE t == StartAttempt(s.jobs[j].reduces[p], s.next, w)
           u == CollectPartitionURLs(s.jobs, j, p)
           t2 == ControlPlane!StartAttempt(s.jobs[j].reduces[p], s.next, w)
           u2 == ControlPlane!CollectPartitionURLs(s.jobs, j, p)
           given(task, urls) ==
             [s |-> [s EXCEPT !.jobs[j].reduces[p] = task, !.next = @ + 1],
              given |-> {[phase |-> "reduce", job |-> j, task |-> p,
                          id |-> s.next, urls |-> urls,
                          allMaps |-> s.jobs[j].status = "Reducing"]}]
<1>1. GiveReduce(s, j, p, w) = given(t, u)
  BY Zenon DEF GiveReduce
<1>2. ControlPlane!GiveReduce(s, j, p, w) = given(t2, u2)
  BY Zenon DEF ControlPlane!GiveReduce
<1>3. u2 = u
  BY Zenon DEF CollectPartitionURLs, ControlPlane!CollectPartitionURLs,
     URL, ControlPlane!URL, MapTasks, ControlPlane!MapTasks
<1>4. t2 = t
  BY SameStart
<1> HIDE DEF t, u, t2, u2, given
<1> QED BY <1>1, <1>2, <1>3, <1>4

LEMMA SameAssign ==
  ASSUME NEW s, NEW w, NEW slow
  PROVE  ControlPlane!AssignTask(s, w, slow) = AssignTask(s, w, slow)
<1>1. \A x : ControlPlane!ActivateNextJob(x) = ActivateNextJob(x)
  BY Zenon DEF ActivateNextJob, ControlPlane!ActivateNextJob,
     Min, ControlPlane!Min
<1>2. \A x, j, t : ControlPlane!GiveMap(x, j, t, w) = GiveMap(x, j, t, w)
  BY Zenon DEF GiveMap, ControlPlane!GiveMap,
     StartAttempt, ControlPlane!StartAttempt
<1>3. \A x, j :
        ControlPlane!AssignReduceTask(x, j, w, slow)
          = AssignReduceTask(x, j, w, slow)
  BY SamePieces, SameAdvance, SameNothing, SameGiveReduce
     DEF AssignReduceTask, ControlPlane!AssignReduceTask
<1>4. \A x, j :
        ControlPlane!AssignMapTask(x, j, w, slow) = AssignMapTask(x, j, w, slow)
  BY <1>2, <1>3, SamePieces, SameAdvance, SameNothing
     DEF AssignMapTask, ControlPlane!AssignMapTask
<1>5. \A x, j :
        ControlPlane!AssignPromotionTask(x, j) = AssignPromotionTask(x, j)
  BY Zenon DEF AssignPromotionTask, ControlPlane!AssignPromotionTask,
     PromotableTasks, ControlPlane!PromotableTasks,
     Partitions, ControlPlane!Partitions, NoObject, ControlPlane!NoObject,
     Min, ControlPlane!Min
<1>6. \A x, j :
        ControlPlane!AssignFromJob(x, j, w, slow) = AssignFromJob(x, j, w, slow)
  BY <1>3, <1>4, <1>5, SamePieces, SameAdvance, SameNothing
     DEF AssignFromJob, ControlPlane!AssignFromJob
<1> QED BY <1>1, <1>6, SameNothing DEF AssignTask, ControlPlane!AssignTask

LEMMA SameTasks ==
  /\ \A task, gone :
       ControlPlane!DropAttempts(task, gone) = DropAttempts(task, gone)
  /\ \A task, id :
       ControlPlane!AttemptsNamed(task, id) = AttemptsNamed(task, id)
  /\ \A task, w : ControlPlane!AttemptsOf(task, w) = AttemptsOf(task, w)
BY Zenon DEF ControlPlane!DropAttempts, DropAttempts,
   ControlPlane!AttemptsNamed, AttemptsNamed, ControlPlane!AttemptsOf, AttemptsOf

LEMMA SameCount ==
  \A times, task, id :
    ControlPlane!CountCompletion(times, task, id)
      = CountCompletion(times, task, id)
BY SameTasks DEF ControlPlane!CountCompletion, CountCompletion

LEMMA SameMapResult ==
  ASSUME NEW s, NEW w, NEW r
  PROVE  ControlPlane!ProcessMapResult(s, w, r) = ProcessMapResult(s, w, r)
<1> DEFINE task == s.jobs[r.job].maps[r.task]
           t == DropAttempts(task, AttemptsNamed(task, r.id))
           n == CountCompletion(s.jobs[r.job].mapTimes, task, r.id)
           t2 == ControlPlane!DropAttempts(
                   task, ControlPlane!AttemptsNamed(task, r.id))
           n2 == ControlPlane!CountCompletion(
                   s.jobs[r.job].mapTimes, task, r.id)
           dropped(x) == [s EXCEPT !.jobs[r.job].maps[r.task] = x]
           done(x) == [s EXCEPT !.jobs[r.job].maps[r.task] =
                                  [@ EXCEPT !.status = "Completed", !.host = w],
                                !.jobs[r.job].mapTimes = x]
<1>1. ProcessMapResult(s, w, r) =
        IF r.outcome = "FAILED" THEN dropped(t)
        ELSE IF task.status = "Completed" THEN s ELSE AdvanceJob(done(n), r.job)
  BY Zenon DEF ProcessMapResult
<1>2. ControlPlane!ProcessMapResult(s, w, r) =
        IF r.outcome = "FAILED" THEN dropped(t2)
        ELSE IF task.status = "Completed" THEN s
        ELSE ControlPlane!AdvanceJob(done(n2), r.job)
  BY Zenon DEF ControlPlane!ProcessMapResult
<1>3. t2 = t /\ n2 = n
  BY SameTasks, SameCount
<1> HIDE DEF t, t2, n, n2, dropped, done
<1> QED BY <1>1, <1>2, <1>3, SameAdvance

LEMMA SameReduceResult ==
  ASSUME NEW s, NEW r
  PROVE  ControlPlane!ProcessReduceResult(s, r) = ProcessReduceResult(s, r)
<1> DEFINE task == s.jobs[r.job].reduces[r.task]
           t == DropAttempts(task, AttemptsNamed(task, r.id))
           n == CountCompletion(s.jobs[r.job].reduceTimes, task, r.id)
           t2 == ControlPlane!DropAttempts(
                   task, ControlPlane!AttemptsNamed(task, r.id))
           n2 == ControlPlane!CountCompletion(
                   s.jobs[r.job].reduceTimes, task, r.id)
           dropped(x) == [s EXCEPT !.jobs[r.job].reduces[r.task] = x]
           done(x) == [s EXCEPT !.jobs[r.job].reduces[r.task] =
                                  [@ EXCEPT !.status = "Completed",
                                            !.winner = r.id, !.temp = r.id],
                                !.jobs[r.job].reduceTimes = x]
<1>1. ProcessReduceResult(s, r) =
        IF r.outcome = "FAILED" THEN dropped(t)
        ELSE IF task.status = "Completed" THEN s ELSE AdvanceJob(done(n), r.job)
  BY Zenon DEF ProcessReduceResult
<1>2. ControlPlane!ProcessReduceResult(s, r) =
        IF r.outcome = "FAILED" THEN dropped(t2)
        ELSE IF task.status = "Completed" THEN s
        ELSE ControlPlane!AdvanceJob(done(n2), r.job)
  BY Zenon DEF ControlPlane!ProcessReduceResult
<1>3. t2 = t /\ n2 = n
  BY SameTasks, SameCount
<1> HIDE DEF t, t2, n, n2, dropped, done
<1> QED BY <1>1, <1>2, <1>3, SameAdvance

\* The three phases are all there are (the CASE of ProcessResult has no OTHER).
LEMMA SameResult ==
  ASSUME NEW s, NEW w, NEW r, r.phase \in {"map", "reduce", "promotion"}
  PROVE  ControlPlane!ProcessResult(s, w, r) = ProcessResult(s, w, r)
<1>1. ControlPlane!ProcessPromotionResult(s, r) = ProcessPromotionResult(s, r)
  BY SameAdvance DEF ProcessPromotionResult, ControlPlane!ProcessPromotionResult,
     NoObject, ControlPlane!NoObject
<1> QED BY <1>1, SameMapResult, SameReduceResult
        DEF ProcessResult, ControlPlane!ProcessResult

LEMMA SameVars ==
  /\ UNCHANGED vars => UNCHANGED ControlPlane!vars
  /\ UNCHANGED netVars => UNCHANGED ControlPlane!netVars
  /\ UNCHANGED bounds => UNCHANGED ControlPlane!bounds
  /\ UNCHANGED schedVars => UNCHANGED ControlPlane!schedVars
  /\ UNCHANGED workerVars => UNCHANGED ControlPlane!workerVars
  /\ UNCHANGED submitVars => UNCHANGED ControlPlane!submitVars
  /\ UNCHANGED checkpointVars => UNCHANGED ControlPlane!checkpointVars
  /\ \A s : Become(s) => ControlPlane!Become(s)
BY DEF vars, ControlPlane!vars, netVars, ControlPlane!netVars,
   bounds, ControlPlane!bounds, masterVars, ControlPlane!masterVars,
   schedVars, ControlPlane!schedVars, workerVars, ControlPlane!workerVars,
   submitVars, ControlPlane!submitVars,
   checkpointVars, ControlPlane!checkpointVars, Become, ControlPlane!Become

LEMMA SameExchange ==
  ASSUME NEW w, NEW idle, NEW i, NEW report, NEW result, NEW slow,
         result = None \/ result.phase \in {"map", "reduce", "promotion"},
         Exchange(w, idle, i, report, result, slow)
  PROVE  ControlPlane!Exchange(w, idle, i, report, result, slow)
<1> DEFINE h == Heard(w, idle, result, slow)
           ref == IF i = None THEN None ELSE Ref(i)
<1>1. ControlPlane!Heard(w, idle, result, slow) = h
  <2>1. ControlPlane!Current = Current
    BY Zenon DEF ControlPlane!Current, Current
  <2> QED BY <2>1, SameResult, SameAssign, SameNothing
          DEF ControlPlane!Heard, Heard
<1>2. ControlPlane!Heartbeat(w, idle, ref, result, slow)
  <2>1. Heartbeat(w, idle, ref, result, slow)
    BY Zenon DEF Exchange
  <2>2. Become(h.s) /\ UNCHANGED submitVars /\ UNCHANGED checkpointVars
    BY <2>1, Zenon DEF Heartbeat
  <2> HIDE DEF h, ref
  <2> QED BY <1>1, <2>1, <2>2, SameVars DEF ControlPlane!Heartbeat, Heartbeat, h
<1>3. ref = IF i = None THEN None ELSE ControlPlane!Ref(i)
  BY Zenon DEF ControlPlane!Ref, Ref
<1>4. {ControlPlane!Issue(a, w) : a \in h.given} = {Issue(a, w) : a \in h.given}
  <2>1. \A a : ControlPlane!Issue(a, w) = Issue(a, w)
    BY Zenon DEF ControlPlane!Issue, Issue
  <2> QED BY <2>1
<1>5. /\ nextAttempt' <= MaxAttempts + 1
      /\ issued' = issued \cup {Issue(a, w) : a \in h.given}
      /\ results' = results \cup report
      /\ UNCHANGED ControlPlane!bounds
  BY SameVars, Zenon DEF Exchange
<1> HIDE DEF h, ref
<1> QED BY <1>1, <1>2, <1>3, <1>4, <1>5, Zenon DEF ControlPlane!Exchange

LEMMA SameExpire == \A w : Expire(w) => ControlPlane!Expire(w)
<1>1. ControlPlane!Current = Current
  BY Zenon DEF Current, ControlPlane!Current
<1>2. \A task, w : ControlPlane!ReleaseTask(task, w) = ReleaseTask(task, w)
  BY SameTasks DEF ReleaseTask, ControlPlane!ReleaseTask
<1>3. \A s, w, ref :
        ControlPlane!ResetWorkerTasks(s, w, ref) = ResetWorkerTasks(s, w, ref)
  BY <1>2 DEF ResetWorkerTasks, ControlPlane!ResetWorkerTasks
<1> QED BY <1>1, <1>3, SameVars, Zenon
        DEF Expire, ControlPlane!Expire, Evict, ControlPlane!Evict

LEMMA SameRequests ==
  /\ \A w : Register(w) => ControlPlane!Register(w)
  /\ Client => ControlPlane!Client
<1>1. \A w : Register(w) => ControlPlane!Register(w)
  BY SameVars, Zenon DEF Register, ControlPlane!Register,
     RegisterWorker, ControlPlane!RegisterWorker
<1>2. Client => ControlPlane!Client
  BY SamePieces, SameVars DEF Client, ControlPlane!Client,
     SubmitRegister, ControlPlane!SubmitRegister,
     SubmitEnqueue, ControlPlane!SubmitEnqueue,
     SubmitReject, ControlPlane!SubmitReject, Delete, ControlPlane!Delete
<1> QED BY <1>1, <1>2

LEMMA SameLoad == LoadCheckpoint => ControlPlane!LoadCheckpoint
<1>1. \A s : ControlPlane!Restored(s) = Restored(s)
  BY Zenon DEF Restored, ControlPlane!Restored, ResetTask, ControlPlane!ResetTask,
     DropAttempts, ControlPlane!DropAttempts, MapTasks, ControlPlane!MapTasks,
     Partitions, ControlPlane!Partitions
<1>2. \A js : ControlPlane!QueuedJobs(js) = QueuedJobs(js)
  BY Zenon DEF QueuedJobs, ControlPlane!QueuedJobs
<1>3. \A S : ControlPlane!SetToSeqs(S) = SetToSeqs(S)
  BY Zenon DEF SetToSeqs, ControlPlane!SetToSeqs,
     IsInjective, ControlPlane!IsInjective, Cardinality, ControlPlane!Cardinality
<1>4. \A S : ControlPlane!Min(S) = Min(S)
  BY SamePieces
<1> QED BY <1>1, <1>2, <1>3, <1>4, SameVars, Zenon
        DEF LoadCheckpoint, ControlPlane!LoadCheckpoint

LEMMA SameProcess ==
  /\ TakeSnapshot => ControlPlane!TakeSnapshot
  /\ Storage => ControlPlane!Storage
  /\ BadLoad => ControlPlane!BadLoad
  /\ Interrupt => ControlPlane!Interrupt
  /\ Restart => ControlPlane!Restart
<1>1. /\ TakeSnapshot => ControlPlane!TakeSnapshot
      /\ BadLoad => ControlPlane!BadLoad
      /\ Interrupt => ControlPlane!Interrupt
  BY Zenon, SameVars DEF TakeSnapshot, ControlPlane!TakeSnapshot,
     Snapshot, ControlPlane!Snapshot, BadLoad, ControlPlane!BadLoad,
     LoadFails, ControlPlane!LoadFails, Interrupt, ControlPlane!Interrupt,
     Signal, ControlPlane!Signal
<1>2. /\ WriteCheckpoint => ControlPlane!WriteCheckpoint
      /\ FinalSnapshot => ControlPlane!FinalSnapshot
  BY SameVars, Zenon DEF WriteCheckpoint, ControlPlane!WriteCheckpoint,
     FinalSnapshot, ControlPlane!FinalSnapshot
<1>3. Storage => ControlPlane!Storage
  BY <1>2, SameLoad, SameVars DEF Storage, ControlPlane!Storage
<1>4. Restart => ControlPlane!Restart
  BY SamePieces, SameVars DEF Restart, ControlPlane!Restart,
     Crash, ControlPlane!Crash, Exit, ControlPlane!Exit,
     Fresh, ControlPlane!Fresh, Become, ControlPlane!Become
<1> QED BY <1>1, <1>3, <1>4

LEMMA SameInit == Init => ControlPlane!Init
BY Zenon, SamePieces DEF Init, ControlPlane!Init, MasterInit,
   ControlPlane!MasterInit, Fresh, ControlPlane!Fresh

-----------------------------------------------------------------------------
(* The cluster implements Control                                          *)

\* No more attempts are started than the bound allows, and besides the slow
\* workers only the dead are evicted, each once: a dead worker does not come
\* back.
Bounded ==
  /\ nextAttempt <= MaxAttempts + 1
  /\ evictions \in Nat
  /\ evictions + Cardinality({w \in Workers : w \in alive \/ w \in registered})
       <= MaxEvictions + Cardinality(Workers)

LEMMA BoundedStays ==
  ASSUME Bounded, UNCHANGED evictions, nextAttempt' <= MaxAttempts + 1,
         alive' \subseteq alive, registered' \subseteq registered \cup alive'
  PROVE  Bounded'
<1> DEFINE known == {w \in Workers : w \in alive \/ w \in registered}
<1>1. known' \subseteq known
  OBVIOUS
<1>2. known \subseteq Workers
  OBVIOUS
<1> HIDE DEF known
<1>3. /\ Cardinality(known') <= Cardinality(known)
      /\ Cardinality(known) \in Nat /\ Cardinality(known') \in Nat
      /\ Cardinality(Workers) \in Nat
  BY <1>1, <1>2, WorkersAssumption, FS_Subset, FS_CardinalityType
<1>4. /\ evictions \in Nat
      /\ evictions + Cardinality(known) <= MaxEvictions + Cardinality(Workers)
  BY DEF Bounded, known
<1>5. evictions + Cardinality(known') <= MaxEvictions + Cardinality(Workers)
  BY <1>3, <1>4, MishapsAssumption
<1> QED BY <1>4, <1>5 DEF Bounded, known

\* An eviction is one that Control allows, and stays within the bounds.
LEMMA EvictBounded ==
  ASSUME Bounded, IInv, NEW w \in Workers, EvictSlow(w) \/ EvictDead(w)
  PROVE  Bounded' /\ evictions < MaxEvictions + Cardinality(Workers)
<1> DEFINE known == {v \in Workers : v \in alive \/ v \in registered}
<1>1. /\ Expire(w) /\ UNCHANGED alive
      /\ w \in alive => evictions < MaxEvictions
  BY DEF EvictSlow, EvictDead, Timeout, processVars, localVars
<1>2. /\ w \in registered /\ registered' = registered \ {w}
      /\ evictions' = evictions + 1
  BY <1>1 DEF Expire, Evict
<1>3. nextAttempt' = nextAttempt
  <2>1. Current \in State /\ Current.next = nextAttempt
    BY DEF IInv, Sound, Current
  <2>2. nextAttempt' = ResetWorkerTasks(Current, w, currentTask[w]).next
    BY <1>1 DEF Expire, Evict, Become
  <2> QED BY <2>1, <2>2, ResetWorkerTasksNext
<1>4. /\ known \subseteq Workers /\ w \in known
      /\ known' = IF w \in alive THEN known ELSE known \ {w}
  BY <1>1, <1>2
<1>5. /\ evictions \in Nat
      /\ evictions + Cardinality(known) <= MaxEvictions + Cardinality(Workers)
      /\ nextAttempt <= MaxAttempts + 1
  BY DEF Bounded
<1> HIDE DEF known
<1>6. /\ IsFiniteSet(known) /\ Cardinality(known) <= Cardinality(Workers)
      /\ Cardinality(known) \in Nat /\ Cardinality(Workers) \in Nat
      /\ Cardinality(known \ {w}) = Cardinality(known) - 1
      /\ Cardinality(known \ {w}) \in Nat
  <2>1. IsFiniteSet(known) /\ Cardinality(known) <= Cardinality(Workers)
    BY <1>4, WorkersAssumption, FS_Subset
  <2>2. /\ Cardinality(known \ {w}) = Cardinality(known) - 1
        /\ IsFiniteSet(known \ {w})
    BY <1>4, <2>1, FS_RemoveElement
  <2> QED BY <2>1, <2>2, WorkersAssumption, FS_CardinalityType
<1>7. evictions < MaxEvictions + Cardinality(Workers)
  BY <1>5, <1>6, MishapsAssumption
<1>8. evictions' + Cardinality(known') <= MaxEvictions + Cardinality(Workers)
  BY <1>1, <1>2, <1>4, <1>5, <1>6, MishapsAssumption
<1>9. evictions' \in Nat /\ nextAttempt' <= MaxAttempts + 1
  BY <1>2, <1>3, <1>5
<1> QED BY <1>7, <1>8, <1>9 DEF Bounded, known

LEMMA InitBounded == ClusterInit => Bounded
<1> SUFFICES ASSUME ClusterInit PROVE Bounded
  OBVIOUS
<1>1. /\ alive = Workers /\ evictions = 0 /\ nextAttempt = 1
  BY DEF ClusterInit, Init, MasterInit, WorkerInit, Fresh
<1>2. {w \in Workers : w \in alive \/ w \in registered} = Workers
  BY <1>1
<1>3. Cardinality(Workers) \in Nat
  BY WorkersAssumption, FS_CardinalityType
<1>4. /\ evictions \in Nat /\ nextAttempt <= MaxAttempts + 1
      /\ evictions + Cardinality(Workers) <= MaxEvictions + Cardinality(Workers)
  BY <1>1, <1>3, MishapsAssumption
<1> QED BY <1>2, <1>4 DEF Bounded

LEMMA NextBounded ==
  ASSUME Honest, Bounded, [ClusterNext]_clusterVars
  PROVE  Bounded'
<1>1. nextAttempt <= MaxAttempts + 1
  BY DEF Bounded
<1>2. ASSUME NEW w \in Workers,
             Loop(w) \/ LosePatience(w) \/ TaskFails(w)
               \/ \E i \in DOMAIN runs[w] : Step(w, i)
      PROVE  Bounded'
  <2>1. UNCHANGED vars
    BY <1>2 DEF Loop, LosePatience, TaskFails, Step, Silent
  <2>2. UNCHANGED alive
    BY <1>2 DEF Loop, InTime, Tick, Receive, LosePatience, GiveUp, RegistrationFails,
       TaskFails, Step, RunStep, Fail, SetBusy, SetCurrentTask, MapSucceeds,
       DrainUpdates, DownloadPartition, TakeUpdate, Upload, CopyObject,
       RemoveObject, Finish
  <2> QED BY <1>1, <2>1, <2>2, BoundedStays
          DEF vars, masterVars, schedVars, workerVars, bounds
<1>3. ASSUME NEW w \in Workers, Die(w) PROVE Bounded'
  <2>1. UNCHANGED vars /\ alive' \subseteq alive
    BY <1>3 DEF Die, WorkerCrashes, Silent
  <2>2. registered \subseteq registered \cup alive'
    OBVIOUS
  <2> QED BY <1>1, <2>1, <2>2, BoundedStays
          DEF vars, masterVars, schedVars, workerVars, bounds
<1>4. ASSUME NEW w \in Workers, NEW q, NEW slow, Hear(w, q, slow), UNCHANGED alive
      PROVE  Bounded'
  <2>1. /\ nextAttempt' <= MaxAttempts + 1
        /\ UNCHANGED registered /\ UNCHANGED evictions
    BY <1>4 DEF Hear, Exchange, Heartbeat, bounds
  <2> QED BY <1>4, <2>1, BoundedStays
<1>5. ASSUME NEW w \in Workers, Answer(w) PROVE Bounded'
  <2>1. UNCHANGED alive
    BY <1>5 DEF Answer
  <2>2. CASE w \in registered
    BY <1>4, <1>5, <2>1, <2>2 DEF Answer
  <2>3. CASE w \notin registered
    BY <1>1, <1>5, <2>1, <2>3, BoundedStays
       DEF Answer, vars, masterVars, schedVars, workerVars, bounds
  <2> QED BY <2>2, <2>3
<1>6. ASSUME NEW x \in stray, HearStray(x) PROVE Bounded'
  <2>1. x.worker \in Workers /\ UNCHANGED alive
    BY <1>6 DEF HearStray, localVars, Honest, ProcessInv, Mailbox
  <2> QED BY <1>4, <1>6, <2>1 DEF HearStray
<1>7. ASSUME NEW w \in Workers, Join(w) PROVE Bounded'
  <2>1. /\ w \in alive /\ registered' = registered \cup {w}
        /\ UNCHANGED <<alive, nextAttempt, evictions>>
    BY <1>7 DEF Join, Register, RegisterWorker, schedVars, bounds
  <2> QED BY <1>1, <2>1, BoundedStays
<1>8. CASE Submit \/ Enqueue \/ Cancel \/ DeleteOutput
  <2>1. UNCHANGED <<alive, nextAttempt, evictions, registered>>
    BY <1>8 DEF Submit, Enqueue, Cancel, DeleteOutput, SubmitRegister,
       SubmitEnqueue, SubmitReject, Delete, processVars, localVars, bounds, vars,
       masterVars, schedVars, workerVars
  <2> QED BY <1>1, <2>1, BoundedStays
<1>9. CASE Housekeeping
  <2>1. UNCHANGED <<alive, nextAttempt, evictions, registered>>
    BY <1>9 DEF Housekeeping, TakeSnapshot, Snapshot, Storage, WriteCheckpoint,
       LoadCheckpoint, FinalSnapshot, BadLoad, LoadFails, Interrupt, Signal,
       processVars, localVars, bounds, schedVars, workerVars
  <2> QED BY <1>1, <2>1, BoundedStays
<1>10. CASE MasterEnds
  <2>1. /\ UNCHANGED <<alive, evictions>> /\ registered' = {}
        /\ nextAttempt' = Fresh(nextAttempt).next
    BY <1>10 DEF MasterEnds, Restart, Crash, Exit, Become, processVars, localVars
  <2>2. nextAttempt' = nextAttempt
    BY <2>1 DEF Fresh
  <2> QED BY <1>1, <2>1, <2>2, BoundedStays
<1>11. CASE UNCHANGED clusterVars
  <2>1. UNCHANGED <<alive, nextAttempt, evictions, registered>>
    BY <1>11 DEF clusterVars, vars, masterVars, schedVars, workerVars, bounds,
       processVars, localVars
  <2> QED BY <1>1, <2>1, BoundedStays
<1>12. ASSUME NEW w \in Workers, EvictSlow(w) \/ EvictDead(w) PROVE Bounded'
  BY <1>12, EvictBounded DEF Honest
<1> QED BY <1>2, <1>3, <1>5, <1>6, <1>7, <1>8, <1>9, <1>10, <1>11, <1>12
        DEF ClusterNext

LEMMA NameableFinite == IsFiniteSet(Nameable)
<1>1. /\ IsFiniteSet({"map", "reduce", "promotion"})
      /\ IsFiniteSet(MapTasks \cup Partitions) /\ IsFiniteSet(1 .. MaxAttempts)
  <2>1. /\ IsFiniteSet(MapTasks) /\ IsFiniteSet(Partitions)
        /\ IsFiniteSet(1 .. MaxAttempts)
    BY NumMapTasksAssumption, NumReduceTasksAssumption, MishapsAssumption,
       FS_Interval DEF MapTasks, Partitions
  <2>2. IsFiniteSet({"map"} \cup {"reduce"} \cup {"promotion"})
    BY FS_Singleton, FS_Union
  <2>3. {"map"} \cup {"reduce"} \cup {"promotion"} = {"map", "reduce", "promotion"}
    OBVIOUS
  <2> QED BY <2>1, <2>2, <2>3, FS_Union
<1>2. IsFiniteSet(Jobs \X {"map", "reduce", "promotion"})
  BY <1>1, JobsAssumption, FS_Product
<1>3. IsFiniteSet((MapTasks \cup Partitions) \X (1 .. MaxAttempts))
  BY <1>1, FS_Product
<1>4. IsFiniteSet(((MapTasks \cup Partitions) \X (1 .. MaxAttempts)) \X Workers)
  BY <1>3, WorkersAssumption, FS_Product
<1> QED BY <1>2, <1>4, FS_Product DEF Nameable

\* What an attempt is known by.
NameOf(k) == <<<<k.job, k.phase>>, <<<<k.task, k.id>>, k.worker>>>>

LEMMA IssuedNames ==
  ASSUME Honest, Bounded
  PROVE  /\ \A k \in issued : NameOf(k) \in Nameable
         /\ \A k, l \in issued : NameOf(k) = NameOf(l) => k = l
<1>1. issued \subseteq Issues /\ \A k \in issued : k.id < nextAttempt
  BY DEF Honest, IInv, TypeOK, ControlTypeOK, OwnIds
<1>2. nextAttempt \in Nat /\ nextAttempt <= MaxAttempts + 1
  BY DEF Honest, IInv, Sound, Current, State, AttemptIds, Bounded
<1>3. ASSUME NEW k \in issued PROVE NameOf(k) \in Nameable
  <2>1. /\ k.job \in Jobs /\ k.phase \in {"map", "reduce", "promotion"}
        /\ k.task \in MapTasks \cup Partitions /\ k.worker \in Workers
        /\ k.id \in Nat \ {0}
    BY <1>1 DEF Issues, AttemptIds, NoObject
  <2>2. k.id \in 1 .. MaxAttempts
    BY <1>1, <1>2, <2>1, MishapsAssumption
  <2> QED BY <2>1, <2>2 DEF NameOf, Nameable
<1>4. ASSUME NEW k \in issued, NEW l \in issued, NameOf(k) = NameOf(l)
      PROVE  k = l
  <2>1. /\ k.job = l.job /\ k.phase = l.phase /\ k.task = l.task
        /\ k.id = l.id /\ k.worker = l.worker
    BY <1>4 DEF NameOf
  <2> QED BY <1>1, <2>1 DEF Issues
<1> QED BY <1>3, <1>4

\* An attempt of which no failure was reported yet can fail.
LEMMA FailuresFit ==
  ASSUME Honest, Bounded, NEW k \in issued, <<k, "FAILED">> \notin results
  PROVE  Cardinality({r \in results : r[2] = "FAILED"}) < Cardinality(Nameable)
<1> DEFINE F == {r \in results : r[2] = "FAILED"}
           G == F \cup {<<k, "FAILED">>}
           f == [r \in G |-> NameOf(r[1])]
<1>1. \A r \in G : r[1] \in issued /\ r = <<r[1], "FAILED">>
  BY DEF Honest, IInv, TypeOK, ControlTypeOK
<1>2. <<k, "FAILED">> \notin F
  OBVIOUS
<1> HIDE DEF F, G
<1>3. f \in [G -> Nameable]
  BY <1>1, IssuedNames
<1>4. \A r, s \in G : f[r] = f[s] => r = s
  <2> SUFFICES ASSUME NEW r \in G, NEW s \in G, f[r] = f[s] PROVE r = s
    OBVIOUS
  <2>1. NameOf(r[1]) = NameOf(s[1])
    OBVIOUS
  <2>2. r[1] = s[1]
    BY <1>1, <2>1, IssuedNames
  <2> QED BY <1>1, <2>2
<1> HIDE DEF f
<1>5. f \in Injection(G, Nameable)
  BY <1>3, <1>4 DEF Injection, IsInjective
<1>6. IsFiniteSet(G) /\ Cardinality(G) <= Cardinality(Nameable)
  BY <1>5, NameableFinite, FS_Injection
<1>7. IsFiniteSet(F)
  BY <1>6, FS_Subset DEF G
<1>8. Cardinality(G) = Cardinality(F) + 1
  BY <1>2, <1>7, FS_AddElement DEF G
<1>9. Cardinality(F) \in Nat /\ Cardinality(Nameable) \in Nat
  BY <1>7, NameableFinite, FS_CardinalityType
<1>10. Cardinality(F) < Cardinality(Nameable)
  BY <1>6, <1>8, <1>9
<1> QED BY <1>10 DEF F

\* The workers of the repository report what Control expects.
LEMMA SaidCanReport ==
  ASSUME Honest, Bounded, NEW k, NEW o, <<k, o>> \in Said
  PROVE  ControlPlane!CanReport(k, o)
<1>1. k \in issued /\ results \subseteq Said /\ OneOutcome(Said)
  BY SaidFacts DEF Honest, Truthful
<1>2. ASSUME k.phase # "promotion", NEW r \in results, r[1] = k PROVE r[2] = o
  <2>1. <<k, o>>[1] = k /\ <<k, o>>[2] = o
    OBVIOUS
  <2> QED BY <1>1, <1>2, <2>1, Zenon DEF OneOutcome
<1>3. \A S : ControlPlane!Cardinality(S) = Cardinality(S)
  BY Zenon DEF Cardinality, ControlPlane!Cardinality
<1>4. {r \in results : r[2] = o} = {r \in results : r[2] = "FAILED"}
        \/ o # "FAILED"
  OBVIOUS
<1> QED BY <1>1, <1>2, <1>3, <1>4, FailuresFit DEF ControlPlane!CanReport

LEMMA HearImplements ==
  ASSUME Honest, Bounded, NEW w \in Workers,
         NEW q, \/ q = rpc[w] /\ rpc[w].kind = "request"
                \/ \E x \in stray : x.worker = w /\ x.request = q,
         NEW slow \in SlowFor(q), Hear(w, q, slow)
  PROVE  ControlPlane!Next
<1>1. q \in KnownRequests(w) /\ (q.result = None \/ q.result \in Said)
  BY HearTruth
<1>2. q.idle => q.task = None
  BY DEF Honest, Candid
<1>3. /\ ControlPlane!Given(w) = Given(w)
      /\ ControlPlane!SlowChoices = SlowChoices
      /\ ControlPlane!Outcomes = Outcomes
      /\ \A k, o : ControlPlane!Result(k, o) = Result(k, o)
  BY Zenon DEF ControlPlane!Given, Given, ControlPlane!SlowChoices, SlowChoices,
     ControlPlane!MapTasks, MapTasks, ControlPlane!Partitions, Partitions,
     ControlPlane!Outcomes, Outcomes, ControlPlane!Result, Result
<1>4. /\ q.idle \in BOOLEAN /\ q.task \in Given(w) \cup {None}
      /\ IF q.idle THEN slow \in SlowChoices ELSE slow = {}
  BY <1>1 DEF KnownRequests, SlowFor
<1>5. CASE q.result = None
  <2>1. Exchange(w, q.idle, q.task, {}, None, slow)
    BY <1>5 DEF Hear, ResultIn
  <2>2. ControlPlane!Exchange(w, q.idle, q.task, {}, None, slow)
    BY <2>1, SameExchange
  <2>3. CASE q.idle
    <3>1. ControlPlane!Exchange(w, TRUE, None, {}, None, slow)
      BY <1>2, <1>4, <2>2, <2>3
    <3> QED BY <1>3, <1>4, <2>3, <3>1
            DEF ControlPlane!IdleHeartbeat, ControlPlane!Next
  <2>4. CASE ~q.idle
    <3>1. ControlPlane!Exchange(w, FALSE, q.task, {}, None, {})
      BY <1>4, <2>2, <2>4
    <3> QED BY <1>3, <1>4, <3>1
            DEF ControlPlane!BusyHeartbeat, ControlPlane!Next
  <2> QED BY <2>3, <2>4
<1>6. CASE q.result # None
  <2>1. PICK k \in Given(w), o \in Outcomes :
          q.result = <<k, o>> /\ ResultIn(q) = Result(k, o)
    BY <1>1, <1>6, ReportOf DEF Honest
  <2>2. Exchange(w, q.idle, q.task, {<<k, o>>}, Result(k, o), slow)
    BY <1>6, <2>1 DEF Hear
  <2>3. Result(k, o).phase \in {"map", "reduce", "promotion"}
    <3>1. k.phase \in {"map", "reduce", "promotion"}
      BY DEF Given, Issues, Honest, IInv, TypeOK, ControlTypeOK
    <3> QED BY <3>1 DEF Result
  <2>4. ControlPlane!Exchange(w, q.idle, q.task, {<<k, o>>}, Result(k, o), slow)
    BY <2>2, <2>3, SameExchange
  <2>5. ControlPlane!CanReport(k, o)
    BY <1>1, <1>6, <2>1, SaidCanReport
  <2>6. CASE q.idle
    <3>1. ControlPlane!Exchange(w, TRUE, None, {<<k, o>>}, Result(k, o), slow)
      BY <1>2, <1>4, <2>4, <2>6
    <3> QED BY <1>3, <1>4, <2>5, <2>6, <3>1
            DEF ControlPlane!IdleReport, ControlPlane!Next
  <2>7. CASE ~q.idle
    <3>1. ControlPlane!Exchange(w, FALSE, q.task, {<<k, o>>}, Result(k, o), {})
      BY <1>4, <2>4, <2>7
    <3> QED BY <1>3, <1>4, <2>5, <3>1
            DEF ControlPlane!BusyReport, ControlPlane!Next
  <2> QED BY <2>6, <2>7
<1> QED BY <1>5, <1>6

LEMMA StepImplements ==
  ASSUME Honest, Bounded, [ClusterNext]_clusterVars
  PROVE  [ControlPlane!Next]_(ControlPlane!vars)
<1>1. ASSUME UNCHANGED vars PROVE UNCHANGED ControlPlane!vars
  BY <1>1, SameVars
<1>2. ASSUME NEW w \in Workers, Answer(w)
      PROVE  [ControlPlane!Next]_(ControlPlane!vars)
  <2>1. rpc[w].kind = "request"
    BY <1>2 DEF Answer
  <2>2. CASE w \in registered
    BY <1>2, <2>1, <2>2, HearImplements DEF Answer
  <2>3. CASE w \notin registered
    BY <1>1, <1>2, <2>3 DEF Answer
  <2> QED BY <2>2, <2>3
<1>3. ASSUME NEW x \in stray, HearStray(x)
      PROVE  ControlPlane!Next
  <2>1. x.worker \in Workers
    BY DEF Honest, ProcessInv, Mailbox
  <2>2. PICK slow \in SlowFor(x.request) : Hear(x.worker, x.request, slow)
    BY <1>3 DEF HearStray
  <2> QED BY <2>1, <2>2, HearImplements
<1>4. ASSUME NEW w \in Workers, Join(w) PROVE ControlPlane!Next
  BY <1>4, SameRequests DEF Join, ControlPlane!Next
<1>5. ASSUME NEW w \in Workers, EvictSlow(w) \/ EvictDead(w)
      PROVE  ControlPlane!Next
  <2>1. ControlPlane!Expire(w)
    BY <1>5, SameExpire DEF EvictSlow, EvictDead, Timeout
  <2>2. evictions < MaxEvictions + Cardinality(Workers)
    BY <1>5, EvictBounded DEF Honest
  <2> QED BY <2>1, <2>2 DEF ControlPlane!Timeout, ControlPlane!Next
<1>6. CASE Submit \/ Enqueue \/ Cancel
  <2>1. Client
    BY <1>6 DEF Submit, Enqueue, Cancel, Client
  <2> QED BY <2>1, SameRequests DEF ControlPlane!Next
<1>7. CASE Housekeeping \/ MasterEnds
  BY <1>7, SameProcess DEF Housekeeping, MasterEnds, ControlPlane!Next
<1>8. ASSUME \/ \E w \in Workers : \/ Loop(w) \/ LosePatience(w) \/ Die(w)
                                   \/ \E i \in DOMAIN runs[w] : Step(w, i)
                                   \/ TaskFails(w)
             \/ DeleteOutput
             \/ UNCHANGED clusterVars
      PROVE  UNCHANGED ControlPlane!vars
  BY <1>1, <1>8 DEF Loop, LosePatience, Step, TaskFails, Die, Silent,
     DeleteOutput, clusterVars
<1> QED BY <1>2, <1>3, <1>4, <1>5, <1>6, <1>7, <1>8 DEF ClusterNext

\* Control trusts its workers no further than the code of the master does: it
\* expects of their heartbeats what they say in worker.go:219-255, also when
\* they arrive twice, late, or after their sender has died.  The workers of the
\* repository do no more than that: with them, every step of the cluster is one
\* of Control or changes nothing there.
THEOREM ClusterImplementsControl ==
  ASSUME PromptStart
  PROVE  ClusterSpec => ImplementsControl
<1>1. ClusterInit => ControlPlane!Init
  BY SameInit DEF ClusterInit
<1>2. Honest /\ Bounded /\ [ClusterNext]_clusterVars
        => [ControlPlane!Next]_(ControlPlane!vars)
  BY StepImplements
<1>3. Honest /\ Bounded /\ [ClusterNext]_clusterVars => Bounded'
  BY NextBounded
<1> QED BY <1>1, <1>2, <1>3, InitBounded, ClusterHonest, PTL
        DEF ClusterSpec, ImplementsControl, ControlPlane!Spec

=============================================================================
