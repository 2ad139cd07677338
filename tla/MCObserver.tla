----------------------------- MODULE MCObserver -----------------------------
(* Observer on small instances. *)
EXTENDS Observer, TLC

\* The ids but the one of the gated shell are interchangeable.
TidSymmetry == Permutations(Tid \ {First})
=============================================================================
