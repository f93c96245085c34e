----------------------------- MODULE MCScaleDown -----------------------------
(* Executions of the workflow are interchangeable; instances are not. *)
EXTENDS ScaleDown, TLC

Symmetry == Permutations(Execs)
==============================================================================
