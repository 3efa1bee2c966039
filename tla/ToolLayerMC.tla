----------------------------- MODULE ToolLayerMC -----------------------------
(* ToolLayer on small instances.  Sessions, rows and runs are              *)
(* interchangeable, and no liveness is checked: symmetry is sound.         *)
EXTENDS ToolLayer, TLC

Symmetry ==
  Permutations(Sessions) \cup Permutations(Rows) \cup Permutations(Executions)
=============================================================================
