----------------------------- MODULE MCService -----------------------------
(* ControlService on small sets, for TLC.                                  *)
EXTENDS ControlService, TLC

Symmetry == Permutations(Workers) \cup Permutations(Jobs)

=============================================================================
