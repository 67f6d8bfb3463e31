----------------------------- MODULE MCControl -----------------------------
(* Control on small sets, for TLC.                                         *)
EXTENDS Control, TLC

Symmetry == Permutations(Workers) \cup Permutations(Jobs)

\* Only an eviction reads currentTask.  Two states that differ there and allow
\* no further eviction have the same future, and count as one.
View == <<schedVars, registered, submitVars, checkpointVars, netVars, bounds,
          IF evictions < MaxEvictions THEN currentTask ELSE <<>>>>

=============================================================================
