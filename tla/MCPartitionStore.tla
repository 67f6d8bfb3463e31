-------------------------- MODULE MCPartitionStore --------------------------
(* DataPath, and with it PartitionStore, on small sets for TLC: a task that *)
(* prints four lines, three of them for one partition, two with one key.   *)
EXTENDS DataPath, TLC

CONSTANTS e1, e2, e3, w1, w2, h1

\* The hash has three bits, and the greatest int of w2 has two: the hash of
\* key 3 wraps around there, and key 4 would make w2 panic.
FourKeys == <<3, 2, 3, 1>>
SmallHash == [key \in 1 .. 4 |-> CASE key = 1 -> 1 [] key = 2 -> 2
                                   [] key = 3 -> 4 [] key = 4 -> 7]

\* w1 runs the task twice, in memory.  w2, on the same host, runs it once and
\* spills at the first line, so that it writes two lines of one partition to
\* disk.
MixedExecutions == {e1, e2, e3}
MixedWorkers == {w1, w2}
MixedWorkerOf == [e \in MixedExecutions |-> IF e = e3 THEN w2 ELSE w1]
MixedSpillAt == [w \in MixedWorkers |-> IF w = w1 THEN 0 ELSE 1]
MixedMaxInt == [w \in MixedWorkers |-> IF w = w1 THEN 31 ELSE 3]
Reruns == Permutations({e1, e2})   \* nothing tells the runs of w1 apart
OneHost == [w \in MixedWorkers |-> h1]

\* w1 runs the task twice and spills.
SpillingExecutions == {e1, e2}
SpillingWorkerOf == [e \in SpillingExecutions |-> w1]
SpillingSpillAt == [w \in MixedWorkers |-> 2]

=============================================================================
