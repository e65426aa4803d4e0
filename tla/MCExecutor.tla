----------------------------- MODULE MCExecutor -----------------------------
(* Instances of Executor for TLC.  Fairness is stated per stream and process, *)
(* so no symmetry is declared.                                               *)
EXTENDS Executor
=============================================================================
