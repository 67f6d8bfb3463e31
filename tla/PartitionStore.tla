--------------------------- MODULE PartitionStore ---------------------------
(***************************************************************************)
(* The output of one map task, src/internal/worker/partition.go, and the   *)
(* part of executeMap (executor.go) that fills, publishes and removes it.  *)
(*                                                                         *)
(* Several executions of the task (attempts, re-executions) may run, on    *)
(* one worker or on several.  Each fills a store of its own.  A store that *)
(* outgrows the threshold moves to a directory named after the job and the *)
(* task, below os.TempDir(): all executions on a host share that one.      *)
(*                                                                         *)
(* An execution reads lines with the keys Keys from its child.  The order  *)
(* of the lines of a partition does not matter (the reduce sorts them), so *)
(* the text of a partition says how often it has each line, and which of   *)
(* them run together for want of a newline.  A threshold counts lines      *)
(* instead of bytes, and a single write is all or nothing.                 *)
(***************************************************************************)
EXTENDS Integers, Sequences

CONSTANTS
  Executions, Workers, Hosts,
  WorkerOf,        \* the worker that an execution runs on
  HostOf,          \* the host of a worker
  NumPartitions,   \* ReducePartitions of the assignment
  Keys,            \* the key of every line that the child prints
  Hash,            \* the unsigned 32-bit hash of a key, FNV-1a
  MaxInt,          \* the greatest int of the build that a worker runs
  SpillAt,         \* the spillThreshold of a worker, 0 for "in memory"
  MaxDiskErrors,   \* bound on the opens and writes that fail: a full disk,
                   \* too many open files
  None             \* no store, no file, a freed buffer

ASSUME WorkerOfAssumption == WorkerOf \in [Executions -> Workers]
ASSUME HostOfAssumption == HostOf \in [Workers -> Hosts]
ASSUME NumPartitionsAssumption == NumPartitions \in Nat \ {0}
ASSUME KeysAssumption == Keys \in Seq(DOMAIN Hash)
ASSUME HashAssumption == \A key \in DOMAIN Hash : Hash[key] \in Nat
ASSUME MaxIntAssumption == MaxInt \in [Workers -> Nat]
ASSUME SpillAtAssumption == SpillAt \in [Workers -> Nat]

Partitions == 0 .. NumPartitions - 1

\* The partition that each line belongs in.
Output == [i \in 1 .. Len(Keys) |-> Hash[Keys[i]] % NumPartitions]

\* int(h.Sum32()) % ps.numPartitions.  Where int is not wider than the hash the
\* conversion wraps around, and % has the sign of its left operand.
PartitionOf(w, key) ==
  LET h == Hash[key] IN
  IF h <= MaxInt[w] THEN h % NumPartitions
                    ELSE -((2 * (MaxInt[w] + 1) - h) % NumPartitions)

Lines == 1 .. Len(Output)
Content == [Lines -> Nat]

\* How often each line is there, the pairs <<k, i>> where line i begins on the
\* line of k, and the last line as long as there is no newline after it.
Text == [lines : Content, joined : SUBSET (Lines \X Lines),
         open : Lines \cup {None}]
ASSUME NoneAssumption == None \notin Executions \cup Text \cup Lines

VARIABLES
  stage,       \* what each execution does with its store
  taken,       \* how many lines of its child it has read
  buffers,     \* ps.buffers, None for a nil buffer
  onDisk,      \* how many partitions its spill has written
  spilled,     \* ps.spilled
  files,       \* the partition files in the directory of each host
  dirs,        \* the hosts where that directory exists
  published,   \* w.partitionStores[job/task]
  up,          \* the workers that have not shut down
  requests,    \* requests that have found a store, and not yet its data
  responses,   \* the partitions sent with status 200
  diskErrors,
  unended      \* history: the lines that were left without their newline

storeVars == <<stage, taken, buffers, onDisk, spilled>>
diskVars == <<files, dirs, diskErrors, unended>>
httpVars == <<requests, responses>>
vars == <<storeVars, diskVars, published, up, httpVars>>

Stages == {"waiting", "reading", "ending", "spilling", "published", "failing",
           "retiring", "over", "killed"}
Requests == [store : Executions, partition : Partitions]
Responses == [partition : Partitions, content : Text]

TypeOK == /\ stage \in [Executions -> Stages]
          /\ taken \in [Executions -> 0 .. Len(Output)]
          /\ buffers \in [Executions -> [Partitions -> Text \cup {None}]]
          /\ onDisk \in [Executions -> 0 .. NumPartitions]
          /\ spilled \in [Executions -> BOOLEAN]
          /\ files \in [Hosts -> [Partitions -> Text \cup {None}]]
          /\ dirs \subseteq Hosts
          /\ published \in [Workers -> Executions \cup {None}]
          /\ up \subseteq Workers
          /\ requests \subseteq Requests
          /\ responses \subseteq Responses
          /\ diskErrors \in Nat
          /\ unended \subseteq Lines

Host(e) == HostOf[WorkerOf[e]]
Threshold(e) == SpillAt[WorkerOf[e]]

Empty == [i \in Lines |-> 0]
EmptyText == [lines |-> Empty, joined |-> {}, open |-> None]

\* Line i is appended, and then its newline.
WithLine(text, i) ==
  [lines  |-> [text.lines EXCEPT ![i] = @ + 1],
   joined |-> text.joined \cup
                (IF text.open = None THEN {} ELSE {<<text.open, i>>}),
   open   |-> i]
WithNewline(text) == [text EXCEPT !.open = None]

NoFiles == [p \in Partitions |-> None]

\* The first n lines of partition p, and all of them.
Upto(n, p) == [i \in Lines |-> IF i <= n /\ Output[i] = p THEN 1 ELSE 0]
Whole(p) == Upto(Len(Output), p)

Init == /\ stage = [e \in Executions |-> "waiting"]
        /\ taken = [e \in Executions |-> 0]
        /\ buffers = [e \in Executions |-> NoFiles]
        /\ onDisk = [e \in Executions |-> 0]
        /\ spilled = [e \in Executions |-> FALSE]
        /\ files = [h \in Hosts |-> NoFiles]
        /\ dirs = {}
        /\ published = [w \in Workers |-> None]
        /\ up = Workers
        /\ requests = {}
        /\ responses = {}
        /\ diskErrors = 0
        /\ unended = {}

-----------------------------------------------------------------------------
(* Filling a store                                                         *)

Running(e, st) == stage[e] = st /\ WorkerOf[e] \in up

NewPartitionStore(e) ==
  /\ Running(e, "waiting")
  /\ stage' = [stage EXCEPT ![e] = "reading"]
  /\ buffers' = [buffers EXCEPT ![e] = [p \in Partitions |-> EmptyText]]
  /\ UNCHANGED <<taken, onDisk, spilled, diskVars, published, up, httpVars>>

\* Write, as long as the store is in memory.  The line that reaches the
\* threshold also starts the spill: its directory is made, if need be.
WriteToMemory(e) ==
  LET line == taken[e] + 1
      p == PartitionOf(WorkerOf[e], Keys[line])
  IN
  /\ Running(e, "reading")
  /\ ~spilled[e]
  /\ line \in Lines
  /\ p \in Partitions
  /\ taken' = [taken EXCEPT ![e] = line]
  /\ buffers' = [buffers EXCEPT ![e][p] = WithNewline(WithLine(@, line))]
  /\ IF Threshold(e) > 0 /\ line >= Threshold(e)
       THEN /\ stage' = [stage EXCEPT ![e] = "spilling"]
            /\ dirs' = dirs \cup {Host(e)}
       ELSE UNCHANGED <<stage, dirs>>
  /\ UNCHANGED <<onDisk, spilled, files, diskErrors, unended, published, up,
                 httpVars>>

\* spillLocked, one file at a time: ps.mu keeps the users of this store out,
\* and nobody else.  os.WriteFile replaces a file that is already there.
SpillPartition(e) ==
  LET p == onDisk[e] IN
  /\ Running(e, "spilling")
  /\ Host(e) \in dirs
  /\ files' = [files EXCEPT ![Host(e)][p] = buffers[e][p]]
  /\ buffers' = [buffers EXCEPT ![e][p] = None]
  /\ onDisk' = [onDisk EXCEPT ![e] = p + 1]
  /\ IF p + 1 = NumPartitions
       THEN /\ spilled' = [spilled EXCEPT ![e] = TRUE]
            /\ stage' = [stage EXCEPT ![e] = "reading"]
       ELSE UNCHANGED <<spilled, stage>>
  /\ UNCHANGED <<taken, dirs, diskErrors, unended, published, up, httpVars>>

\* An open or a write fails for want of space or of a file descriptor.
DiskError == diskErrors < MaxDiskErrors /\ diskErrors' = diskErrors + 1

\* The directory is gone, or the write fails.
SpillFails(e) ==
  /\ Running(e, "spilling")
  /\ DiskError \/ (Host(e) \notin dirs /\ UNCHANGED diskErrors)
  /\ stage' = [stage EXCEPT ![e] = "failing"]
  /\ UNCHANGED <<taken, buffers, onDisk, spilled, files, dirs, unended,
                 published, up, httpVars>>

\* Write, once the store is on disk: the line is appended, without its newline.
\* The file is opened without O_CREATE.
WriteToDisk(e) ==
  LET line == taken[e] + 1
      p == PartitionOf(WorkerOf[e], Keys[line])
      present == files[Host(e)][p] # None
  IN
  /\ Running(e, "reading")
  /\ spilled[e]
  /\ line \in Lines
  /\ p \in Partitions
  /\ \/ /\ present
        /\ files' = [files EXCEPT ![Host(e)][p] = WithLine(@, line)]
        /\ taken' = [taken EXCEPT ![e] = line]
        /\ stage' = [stage EXCEPT ![e] = "ending"]
        /\ UNCHANGED diskErrors
     \/ /\ DiskError \/ (~present /\ UNCHANGED diskErrors)
        /\ stage' = [stage EXCEPT ![e] = "failing"]
        /\ UNCHANGED <<files, taken>>
  /\ UNCHANGED <<buffers, onDisk, spilled, dirs, unended, published, up,
                 httpVars>>

\* The file is opened again for the newline.  If that fails, or the write of
\* the newline, Write goes on as if nothing had happened.
EndLine(e) ==
  LET line == taken[e]
      p == PartitionOf(WorkerOf[e], Keys[line])
      present == files[Host(e)][p] # None
  IN
  /\ Running(e, "ending")
  /\ stage' = [stage EXCEPT ![e] = "reading"]
  /\ \/ /\ present
        /\ files' = [files EXCEPT ![Host(e)][p] = WithNewline(@)]
        /\ UNCHANGED <<diskErrors, unended>>
     \/ /\ DiskError \/ (~present /\ UNCHANGED diskErrors)
        /\ unended' = unended \cup {line}
        /\ UNCHANGED files
  /\ UNCHANGED <<taken, buffers, onDisk, spilled, dirs, published, up,
                 httpVars>>

\* The child crashes, prints a malformed line or is killed by an abort.
ChildFails(e) ==
  /\ Running(e, "reading")
  /\ stage' = [stage EXCEPT ![e] = "failing"]
  /\ UNCHANGED <<taken, buffers, onDisk, spilled, diskVars, published, up,
                 httpVars>>

-----------------------------------------------------------------------------
(* Publishing and removing it                                              *)

\* Mutant of Publish: a child that died early is taken for one that is done.
PublishAnyway(e) ==
  LET w == WorkerOf[e]
      old == published[w]
  IN /\ Running(e, "reading")
     /\ published' = [published EXCEPT ![w] = e]
     /\ stage' = [k \in Executions |-> IF k = e THEN "published"
                                       ELSE IF k = old THEN "retiring"
                                       ELSE stage[k]]
     /\ UNCHANGED <<taken, buffers, onDisk, spilled, diskVars, up, httpVars>>

\* The store becomes the one that is served, under w.mu.  An older store of
\* the same task is cleaned up, after the unlock.
Publish(e) ==
  LET w == WorkerOf[e]
      old == published[w]
  IN /\ Running(e, "reading")
     /\ taken[e] = Len(Output)
     /\ published' = [published EXCEPT ![w] = e]
     /\ stage' = [k \in Executions |->
                    IF k = e THEN "published"
                    ELSE IF k = old THEN "retiring"
                    ELSE stage[k]]
     /\ UNCHANGED <<taken, buffers, onDisk, spilled, diskVars, up, httpVars>>

\* Mutant of Cleanup: the directory goes whether the store is in it or not.
CleanupDirectory(e) ==
  /\ stage[e] \in {"failing", "retiring"}
  /\ stage' = [stage EXCEPT ![e] = "over"]
  /\ buffers' = [buffers EXCEPT ![e] = NoFiles]
  /\ files' = [files EXCEPT ![Host(e)] = NoFiles]
  /\ dirs' = dirs \ {Host(e)}
  /\ UNCHANGED <<taken, onDisk, spilled, diskErrors, unended, published, up,
                 httpVars>>

\* Files of a spill that did not end are left on disk.
Cleanup(e) ==
  /\ stage[e] \in {"failing", "retiring"}
  /\ stage' = [stage EXCEPT ![e] = "over"]
  /\ buffers' = [buffers EXCEPT ![e] = NoFiles]
  /\ IF spilled[e]
       THEN /\ files' = [files EXCEPT ![Host(e)] = NoFiles]
            /\ dirs' = dirs \ {Host(e)}
       ELSE UNCHANGED <<files, dirs>>
  /\ UNCHANGED <<taken, onDisk, spilled, diskErrors, unended, published, up,
                 httpVars>>

\* cleanupPartitionStores takes the store out of the map and then cleans it
\* up.  The executions that run are killed with the process.
Shutdown(w) ==
  /\ w \in up
  /\ up' = up \ {w}
  /\ published' = [published EXCEPT ![w] = None]
  /\ stage' = [e \in Executions |->
                 IF e = published[w] THEN "retiring" ELSE stage[e]]
  /\ UNCHANGED <<taken, buffers, onDisk, spilled, diskVars, httpVars>>

\* The process is killed, also by the panic of a Write to a partition that does
\* not exist.  Its memory and its requests go, its files stay.
Die(w) ==
  /\ w \in up
  /\ up' = up \ {w}
  /\ published' = [published EXCEPT ![w] = None]
  /\ stage' = [e \in Executions |->
                 IF WorkerOf[e] = w THEN "killed" ELSE stage[e]]
  /\ requests' = {r \in requests : WorkerOf[r.store] # w}
  /\ UNCHANGED <<taken, buffers, onDisk, spilled, diskVars, responses>>

-----------------------------------------------------------------------------
(* Serving it                                                              *)

\* Mutant of Lookup: the request goes on when there is no store.
LookupUnchecked(w, p) ==
  /\ requests' = requests \cup {[store |-> published[w], partition |-> p]}
  /\ UNCHANGED <<storeVars, diskVars, published, up, responses>>

\* handlePartition finds the store under w.mu.
Lookup(w, p) ==
  /\ published[w] # None
  /\ requests' = requests \cup {[store |-> published[w], partition |-> p]}
  /\ UNCHANGED <<storeVars, diskVars, published, up, responses>>

\* What ServePartition finds under ps.mu; None is a 404.
Served(e, p) == IF spilled[e] THEN files[Host(e)][p] ELSE buffers[e][p]

ServePartition(r) ==
  LET content == Served(r.store, r.partition) IN
  /\ r \in requests
  /\ requests' = requests \ {r}
  /\ responses' = IF content = None THEN responses
                  ELSE responses \cup {[partition |-> r.partition,
                                        content |-> content]}
  /\ UNCHANGED <<storeVars, diskVars, published, up>>

Next == \/ \E e \in Executions : \/ NewPartitionStore(e)
                                 \/ WriteToMemory(e)
                                 \/ SpillPartition(e)
                                 \/ SpillFails(e)
                                 \/ WriteToDisk(e)
                                 \/ EndLine(e)
                                 \/ ChildFails(e)
                                 \/ Publish(e)
                                 \/ Cleanup(e)
        \/ \E w \in Workers : Shutdown(w) \/ Die(w)
        \/ \E w \in Workers, p \in Partitions : Lookup(w, p)
        \/ \E r \in requests : ServePartition(r)

Spec == Init /\ [][Next]_vars

-----------------------------------------------------------------------------
(* Properties.  They hold as long as no two executions spill on one host   *)
(* (NoSharing), and as no worker has a wrong idea of where a key belongs   *)
(* (BuildsAgree).  The code sees to neither.                               *)

Spills(e) == Threshold(e) \in 1 .. Len(Output)
NoSharing ==
  \A e, f \in Executions : Spills(e) /\ Spills(f) /\ Host(e) = Host(f) => e = f

\* A build with 64-bit integers is right about every key.  One with 32 is right
\* about those it does not panic at if, say, NumPartitions is a power of two.
WideInt == \A w \in Workers, key \in DOMAIN Hash : Hash[key] <= MaxInt[w]
BuildsAgree ==
  \A w \in Workers, key \in DOMAIN Hash :
    PartitionOf(w, key) \in Partitions
      => PartitionOf(w, key) = Hash[key] % NumPartitions

\* All the lines of a partition, each once, and each on a line of its own
\* unless the newline of the one before it could not be written.  (partition.go:96
\* says "Ensure line ends with newline", and lines 98-100 ignore all errors.)
Complete(text, p) ==
  text.lines = Whole(p) /\ \A pair \in text.joined : pair[1] \in unended

\* "There is no partial-read risk.  The HTTP handler only serves data after
\* the Map task has completed" (docs/design.md:101): what a reduce is sent is
\* complete, whatever is replaced or removed between its request and the
\* answer, and whichever writes have failed before the map succeeded.
NoPartialReads == \A r \in responses : Complete(r.content, r.partition)

\* The URLs that the master was given work for as long as the worker is up,
\* also after the task was executed again on it.
PublishedIsServed ==
  \A w \in Workers : published[w] # None =>
    \A p \in Partitions : /\ Served(published[w], p) # None
                          /\ Complete(Served(published[w], p), p)

=============================================================================
