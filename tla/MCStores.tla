------------------------------ MODULE MCStores ------------------------------
(* Stores on small instances. *)
EXTENDS Stores, TLC

CONSTANTS p1, p2, p3, b1, json, ci, nightly

\* Two spellings that sanitize makes one.
OnePipelineEach == (p1 :> ci) @@ (p2 :> nightly) @@ (p3 :> ci)
OneFile == (ci :> json) @@ (nightly :> json)

\* The image of the first run has a layer twice.
TwiceAndOnce == (p1 :> <<b1, b1>>) @@ (p2 :> <<b1>>) @@ (p3 :> <<>>)

\* The first profile is the longer one.
Sizes == (p1 :> 2) @@ (p2 :> 1) @@ (p3 :> 1) @@ (b1 :> 2)

AllWriters == UNION {{Saver(p)} \cup Tasks(p) : p \in Proc}
=============================================================================
