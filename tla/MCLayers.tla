------------------------------ MODULE MCLayers ------------------------------
(* Layers on a file in a directory in a directory. *)
EXTENDS Layers, TLC

CONSTANTS d, s, f

Nested == (d :> {}) @@ (s :> {d}) @@ (f :> {d, s})

\* s is a directory or a file.
Entries3 ==
  [kind : {"whiteout"}, path : {d, s, f}] \cup [kind : {"file"}, path : {s, f}] \cup
  [kind : {"dir"}, path : {s}] \cup [kind : {"opaque"}, path : {d, s}]
=============================================================================
