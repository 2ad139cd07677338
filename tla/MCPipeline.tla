----------------------------- MODULE MCPipeline -----------------------------
(* Pipeline on small instances: two paths, two contents, one or two tags. *)
EXTENDS Pipeline, TLC

CONSTANTS a, b, c1, c2, t1, t2

Opt(t, cold, trace) == [tag |-> t, cold |-> cold, trace |-> trace]

\* One image with both files.
FullImage == [t \in {t1} |-> (a :> c1 @@ b :> c2)]
\* A second image that has a different file under a and no b.
TwoImages == (t1 :> (a :> c1 @@ b :> c2)) @@ (t2 :> (a :> c2 @@ b :> None))

AnyBranch == SUBSET {a, b}
BothPaths == {{a, b}}
OneOrBoth == {{a}, {a, b}}

PlainRun == {Opt(t1, FALSE, TRUE)}
AnyRun == [tag : {t1}, cold : BOOLEAN, trace : BOOLEAN]
EitherImage == {Opt(t, FALSE, TRUE) : t \in {t1, t2}}

RunSymmetry == Permutations(Run)
=============================================================================
