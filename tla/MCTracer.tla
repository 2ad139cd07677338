------------------------------ MODULE MCTracer ------------------------------
(* Tracer on small instances. *)
EXTENDS Tracer

CONSTANTS a, b, g
=============================================================================
