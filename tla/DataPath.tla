------------------------------ MODULE DataPath ------------------------------
(***************************************************************************)
(* From the lines that a map task prints to the lines in its job's output: *)
(* the second half of executeReduce (src/internal/worker/executor.go) on   *)
(* what PartitionStore serves, with the example reducer as its child.      *)
(*                                                                         *)
(* Keys are numbers in the order of bytes.Compare.  The value of every     *)
(* line is 1, which is what the example mapper prints.  Reduces share      *)
(* nothing, so one at a time is enough.                                    *)
(***************************************************************************)
EXTENDS PartitionStore, FiniteSets

ASSUME KeyOrderAssumption == DOMAIN Hash \subseteq Nat
ASSUME NoKeyAssumption == None \notin DOMAIN Hash

VARIABLES
  child,     \* the reduce that runs its child, None if there is none
  reduced    \* the outputs that were uploaded

dataVars == <<vars, child, reduced>>

\* Of a reduce: the lines that its child has not read yet, those that run
\* together, what the child has printed, and the key (None before the first
\* line) and the count that it holds.
Reduces == [partition : Partitions, left : Content,
            joined : SUBSET (Lines \X Lines),
            printed : Seq((DOMAIN Hash) \X Nat),
            key : (DOMAIN Hash) \cup {None}, count : Nat]

-----------------------------------------------------------------------------
\* A line of the text begins with the key of its first line.
Heads(c) == {i \in Lines : /\ c.left[i] > 0
                           /\ \A pair \in c.joined : pair[2] # i}

\* Mutant of NextLines: the lines go to the child as they were gathered.
UnsortedLines(c) ==
  {i \in Heads(c) : \A pair \in c.joined : pair[1] # i}

\* The lines that the child can read next, once all are sorted by extractKey.
\* sort.Slice is not stable: lines with the same key come in any order.  Where
\* two run together int(value) raises an error, and the child ends with it.
NextLines(c) ==
  {i \in Heads(c) : /\ \A k \in Heads(c) : Keys[i] <= Keys[k]
                    /\ \A pair \in c.joined : pair[1] # i}

\* The reducer keeps the current key and its count; a new key prints the old.
Flush(c) == IF c.key = None THEN c.printed
            ELSE Append(c.printed, <<c.key, c.count>>)
ReduceLine(c, key) ==
  IF key = c.key THEN [c EXCEPT !.count = @ + 1]
  ELSE [c EXCEPT !.printed = Flush(c), !.key = key, !.count = 1]

\* The partition is gathered and sorted, and the child is started.
StartChild ==
  /\ child = None
  /\ \E r \in responses :
       child' = [partition |-> r.partition, left |-> r.content.lines,
                 joined |-> r.content.joined, printed |-> <<>>,
                 key |-> None, count |-> 0]
  /\ UNCHANGED <<vars, reduced>>

ReadLine ==
  /\ child # None
  /\ \E i \in NextLines(child) :
       child' = [ReduceLine(child, Keys[i]) EXCEPT !.left[i] = @ - 1]
  /\ UNCHANGED <<vars, reduced>>

\* The end of the input prints the last key.  All that was printed is uploaded.
UploadOutput ==
  /\ child # None
  /\ child.left = Empty
  /\ reduced' = reduced \cup
       {[partition |-> child.partition, printed |-> Flush(child)]}
  /\ child' = None
  /\ UNCHANGED vars

\* The child ends with an error, is killed, or the upload fails: what it has
\* printed is thrown away.
ReduceFails == child # None /\ child' = None /\ UNCHANGED <<vars, reduced>>

DataInit == Init /\ child = None /\ reduced = {}
DataNext == \/ Next /\ UNCHANGED <<child, reduced>>
            \/ StartChild \/ ReadLine \/ UploadOutput \/ ReduceFails
DataSpec == DataInit /\ [][DataNext]_dataVars

-----------------------------------------------------------------------------
\* Every key is counted once, with all its lines, in the output of the partition
\* it belongs in, and in no other: whichever worker has hashed it, whichever
\* store it was served from, however the sort has ordered its lines, and
\* whichever of them run together.
LinesWith(key) == {i \in Lines : Keys[i] = key}
KeysIn(p) == {Keys[i] : i \in {k \in Lines : Output[k] = p}}

Counts(printed, keys) ==
  /\ \A n \in 1 .. Len(printed) :
       \E key \in keys : printed[n] = <<key, Cardinality(LinesWith(key))>>
  /\ \A key \in keys : \E n \in 1 .. Len(printed) : printed[n][1] = key
  /\ \A m, n \in 1 .. Len(printed) : printed[m][1] = printed[n][1] => m = n
KeysAreReducedOnce ==
  \A r \in reduced : Counts(r.printed, KeysIn(r.partition))

=============================================================================
