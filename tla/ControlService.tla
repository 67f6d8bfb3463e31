--------------------------- MODULE ControlService ---------------------------
(***************************************************************************)
(* The control plane implements the job service as long as the master does *)
(* not crash.  A submission counts from the moment it is enqueued; aborted *)
(* jobs that are still in the channel do not wait any more.                *)
(***************************************************************************)
EXTENDS Control

\* How a client sees a job, also one whose submission has no answer yet.
Seen(j, status, unanswered, all) ==
  CASE status = "Absent" -> IF j \in all THEN "refused" ELSE "unknown"
    [] status = "Queued" -> IF j \in unanswered THEN "unknown" ELSE "waiting"
    [] status \in {"Mapping", "Reducing"} -> "running"
    [] status = "Completed" -> "done"
    [] status = "Aborted" -> "cancelled"
ServiceStatus(j) == Seen(j, jobs[j].status, pending, submitted)

\* The order in the queue, of the jobs in js that are still to be run.
QueueOrder(q, js) ==
  {pair \in Jobs \X Jobs :
     /\ js[pair[1]].status = "Queued" /\ js[pair[2]].status = "Queued"
     /\ \E i, k \in 1 .. Len(q) : i < k /\ q[i] = pair[1] /\ q[k] = pair[2]}

Service == INSTANCE JobService WITH
  status <- [j \in Jobs |-> ServiceStatus(j)],
  before <- QueueOrder(queue, jobs),
  running <- active

\* Jobs start in the order in which they were accepted, one at a time, and
\* every step of the master is a step of the job service or none at all.
ImplementsService == Service!Spec

=============================================================================
