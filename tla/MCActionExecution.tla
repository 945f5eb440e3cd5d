------------------------- MODULE MCActionExecution -------------------------
(* Instances of ActionExecution for TLC.                                   *)
EXTENDS ActionExecution, TLC

Symmetry == Permutations(ExecIds) \cup Permutations(Handlers)
=============================================================================
