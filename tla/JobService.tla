---------------------------- MODULE JobService ----------------------------
(***************************************************************************)
(* What the master promises its clients while it stays up                  *)
(* (docs/design.md:64-66): submitted jobs wait in the order in which they  *)
(* were accepted, at most one runs at a time, the one that has waited      *)
(* longest is started next, and a cancelled job is never started or        *)
(* resumed.  Tasks, workers, attempts and their failures cannot be seen at *)
(* this level.                                                             *)
(***************************************************************************)

CONSTANTS Jobs, None

VARIABLES
  status,   \* what has become of each job
  before,   \* the pairs of waiting jobs of which the first came first
  running   \* the job that is being run, or None

vars == <<status, before, running>>

Init == /\ status = [j \in Jobs |-> "unknown"]
        /\ before = {}
        /\ running = None

Waiting == {j \in Jobs : status[j] = "waiting"}
Without(j) == {pair \in before : j \notin {pair[1], pair[2]}}

Accept(j) ==
  /\ status[j] = "unknown"
  /\ status' = [status EXCEPT ![j] = "waiting"]
  /\ before' = before \cup (Waiting \X {j})
  /\ UNCHANGED running

Refuse(j) ==
  /\ status[j] \in {"unknown", "cancelled"}
  /\ status' = [status EXCEPT ![j] = "refused"]
  /\ UNCHANGED <<before, running>>

Cancel(j) ==
  /\ status[j] \in {"unknown", "waiting", "running"}
  /\ status' = [status EXCEPT ![j] = "cancelled"]
  /\ before' = Without(j)
  /\ running' = IF running = j THEN None ELSE running

\* The job that came before all others that wait starts, in st.
Begin(st) ==
  \E j \in Waiting :
    /\ \A k \in Waiting \ {j} : <<j, k>> \in before
    /\ status' = [st EXCEPT ![j] = "running"]
    /\ before' = Without(j)
    /\ running' = j

Start == running = None /\ Begin(status)

\* The job that runs is done, and its place is taken at once or left empty.
Finish ==
  /\ running # None
  /\ LET done == [status EXCEPT ![running] = "done"] IN
     \/ status' = done /\ running' = None /\ UNCHANGED before
     \/ Begin(done)

Next == \/ \E j \in Jobs : Accept(j) \/ Refuse(j) \/ Cancel(j)
        \/ Start
        \/ Finish

Spec == Init /\ [][Next]_vars

=============================================================================
