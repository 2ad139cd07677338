----------------------------- MODULE MCDisposal -----------------------------
(* Disposal on small instances: executions that take turns on two workspaces. *)
EXTENDS Disposal, TLC

DirSymmetry == Permutations(Dir)
=============================================================================
