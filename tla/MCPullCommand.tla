--------------------------- MODULE MCPullCommand ---------------------------
(* PullCommand on small instances. *)
EXTENDS PullCommand, TLC

CONSTANTS l1, l2, m1, m2, c, b1

\* A list whose entry for the platform is m1, and one that has nothing for it.
Select == (l1 :> m1) @@ (l2 :> None)
Blobs == (m1 :> <<c, b1>>) @@ (m2 :> <<c>>)
=============================================================================
