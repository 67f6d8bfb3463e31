------------------------------ MODULE MCCluster -----------------------------
(* Cluster on small sets, for TLC.                                         *)
EXTENDS Cluster, TLC

Symmetry == Permutations(Workers) \cup Permutations(Jobs)

\* Each job has an output prefix of its own.
OwnPrefix == [j \in Jobs |-> j]

\* The records of what has happened do not influence what happens.
View == <<masterVars, bounds, processVars, cleaning, mishaps>>

=============================================================================
