--------------------------- MODULE PipelineProofs ---------------------------
(***************************************************************************)
(* Theorems about Pipeline for any number of runs, paths, contents, images,  *)
(* command lines and jobs.                                                   *)
(***************************************************************************)
EXTENDS Pipeline, TLAPS

Active == {"prepare", "job", "record"}

\* What an active run carries, and that it works on a profile for its own image.
LocalOK ==
  \A r \in Run : run[r].pc \in Active =>
    /\ run[r].opt \in Options /\ run[r].mode \in {"cold", "warm"}
    /\ run[r].prof \in Profile /\ run[r].prof.image = run[r].opt.tag

TypeInv == Typed /\ LocalOK

USE NoneAssumption, OptionsAssumption, MaxRunsAssumption, UpstreamAssumption

\* An empty tree is a tree.
LEMMA EmptyTreeType == EmptyTree \in Tree
  BY DEF EmptyTree, Tree

\* A new profile is a profile of its image that counts no run.
LEMMA NewProfileType ==
  ASSUME NEW t \in Tag
  PROVE  NewProfile(t) \in Profile /\ NewProfile(t).image = t /\ NewProfile(t).runs = 0
  BY EmptyTreeType DEF NewProfile, Profile

\* An active local state.
ActiveOK(l) ==
  l.pc \in Active =>
    /\ l.opt \in Options /\ l.mode \in {"cold", "warm"}
    /\ l.prof \in Profile /\ l.prof.image = l.opt.tag

\* The types hold initially.
LEMMA TypeInit == Init => TypeInv
  BY EmptyTreeType DEF Init, TypeInv, Typed, LocalOK, Active, Idle, Local, Pc

\* A run that becomes a well-typed local state leaves the runs well typed.
LEMMA BecomeType ==
  ASSUME TypeInv, NEW r \in Run, NEW l \in Local, ActiveOK(l), Become(r, l)
  PROVE  run' \in [Run -> Local] /\ LocalOK'
  BY DEF TypeInv, Typed, LocalOK, ActiveOK, Become

\* A step of a run keeps the types.
LEMMA TypeStep ==
  ASSUME TypeInv, NEW r \in Run, Step(r) \/ Abort(r)
  PROVE  TypeInv'
<1>0. /\ run[r] \in Local /\ ActiveOK(run[r]) /\ run \in [Run -> Local]
      /\ image \in [Tag -> Tree] /\ disk \in Profile \cup {None}
      /\ cache \subseteq Content /\ evicted \subseteq Content
  BY DEF TypeInv, Typed, LocalOK, ActiveOK
<1>1. ASSUME NEW opt \in Options, Begin(r, opt)  PROVE TypeInv'
  <2>1. Working(opt) \in Profile /\ Working(opt).image = opt.tag
    BY <1>0, NewProfileType DEF Working
  <2>2. ChooseMode(opt) \in {"cold", "warm"}  BY DEF ChooseMode
  <2> DEFINE l == [Idle EXCEPT !.pc = "prepare", !.opt = opt,
                               !.mode = ChooseMode(opt), !.prof = Working(opt)]
  <2>3. l \in Local /\ ActiveOK(l)
    BY <2>1, <2>2, EmptyTreeType DEF Local, Idle, ActiveOK, Pc
  <2> QED  BY <1>0, <1>1, <2>3, BecomeType DEF Begin, TypeInv, Typed
<1>2. CASE Pull(r)
  <2> DEFINE l == [run[r] EXCEPT !.pc = "job", !.root = image[run[r].opt.tag],
                                 !.pulled = image[run[r].opt.tag]]
  <2>1. image[run[r].opt.tag] \in Tree  BY <1>0, <1>2 DEF Pull, ActiveOK, Active
  <2>2. l \in Local /\ ActiveOK(l)
    BY <1>0, <1>2, <2>1 DEF Pull, Local, ActiveOK, Active, Pc
  <2> QED  BY <1>0, <1>2, <2>2, BecomeType DEF Pull, TypeInv, Typed
<1>3. CASE Place(r)
  <2> DEFINE l == [run[r] EXCEPT !.pc = "job", !.root = run[r].prof.entries]
  <2>1. run[r].prof.entries \in Tree  BY <1>0, <1>3 DEF Place, ActiveOK, Active, Profile
  <2>2. l \in Local /\ ActiveOK(l)
    BY <1>0, <1>3, <2>1 DEF Place, Local, ActiveOK, Active, Pc
  <2> QED  BY <1>0, <1>3, <2>2, BecomeType DEF Place, TypeInv, Typed
<1>4. CASE PlaceFails(r)
  <2>1. /\ [run[r] EXCEPT !.pc = "failed"] \in Local
        /\ ActiveOK([run[r] EXCEPT !.pc = "failed"])
    BY <1>0 DEF Local, ActiveOK, Active, Pc
  <2> QED  BY <1>0, <1>4, <2>1, BecomeType DEF PlaceFails, TypeInv, Typed
<1>5. CASE Job(r)
  <2>1. PICK o \in Outcome(run[r].root) :
          Become(r, [run[r] EXCEPT !.pc = "record", !.root = o.tree, !.exit = o.exit,
                                   !.todo = IF run[r].opt.trace THEN o.touched ELSE {}])
    BY <1>5 DEF Job
  <2> DEFINE t == IF run[r].opt.trace THEN o.touched ELSE {}
             l == [run[r] EXCEPT !.pc = "record", !.root = o.tree, !.exit = o.exit, !.todo = t]
  <2>2. o.tree \in Tree /\ o.exit \in {0, 1} /\ t \subseteq Path
    BY DEF Outcome
  <2> HIDE DEF t
  <2>3. l \in Local /\ ActiveOK(l)
    BY <1>0, <1>5, <2>2 DEF Job, Local, ActiveOK, Active, Pc
  <2>4. Become(r, l)  BY <2>1 DEF t
  <2> QED  BY <1>0, <1>5, <2>3, <2>4, BecomeType DEF Job, TypeInv, Typed
<1>6. ASSUME NEW q \in Path, Record(r, q)  PROVE TypeInv'
  <2>1. CASE run[r].root[q] = None
    <3>1. /\ [run[r] EXCEPT !.todo = @ \ {q}] \in Local
          /\ ActiveOK([run[r] EXCEPT !.todo = @ \ {q}])
      BY <1>0 DEF Local, ActiveOK
    <3> QED  BY <1>0, <1>6, <2>1, <3>1, BecomeType DEF Record, TypeInv, Typed
  <2>2. CASE run[r].root[q] # None
    <3> DEFINE e == [run[r].prof EXCEPT !.entries[q] = run[r].root[q]]
               l == [run[r] EXCEPT !.todo = @ \ {q}, !.prof.entries[q] = run[r].root[q]]
    <3>1. run[r].root[q] \in Content  BY <1>0, <2>2 DEF Local, Tree
    <3>2. e \in Profile /\ e.image = run[r].prof.image
      BY <1>0, <1>6, <3>1 DEF Record, ActiveOK, Active, Profile, Tree
    <3>3. l = [run[r] EXCEPT !.todo = @ \ {q}, !.prof = e]
      BY <1>0 DEF Local
    <3> HIDE DEF e
    <3>4. l \in Local /\ ActiveOK(l)
      BY <1>0, <1>6, <3>2, <3>3 DEF Record, Local, ActiveOK, Active
    <3> QED  BY <1>0, <1>6, <2>2, <3>1, <3>4, BecomeType DEF Record, TypeInv, Typed
  <2> QED  BY <2>1, <2>2
<1>7. ASSUME NEW q \in Path, RecordFails(r, q)  PROVE TypeInv'
  <2>1. /\ [run[r] EXCEPT !.todo = @ \ {q}] \in Local
        /\ ActiveOK([run[r] EXCEPT !.todo = @ \ {q}])
    BY <1>0 DEF Local, ActiveOK
  <2> QED  BY <1>0, <1>7, <2>1, BecomeType DEF RecordFails, TypeInv, Typed
<1>8. CASE FallBack(r)
  <2> DEFINE e == [NewProfile(run[r].opt.tag) EXCEPT !.runs = run[r].prof.runs]
             l == [run[r] EXCEPT !.pc = "prepare", !.mode = "cold", !.fell = TRUE, !.prof = e]
  <2>1. run[r].opt.tag \in Tag /\ run[r].prof.runs \in 0..MaxRuns
    BY <1>0, <1>8 DEF FallBack, ActiveOK, Active, Profile
  <2>2. e \in Profile /\ e.image = run[r].opt.tag
    BY <2>1, NewProfileType DEF Profile
  <2>3. l \in Local /\ ActiveOK(l)
    BY <1>0, <1>8, <2>2 DEF FallBack, Local, ActiveOK, Active, Pc
  <2> QED  BY <1>0, <1>8, <2>3, BecomeType DEF FallBack, TypeInv, Typed
<1>9. CASE Save(r)
  <2>1. [run[r].prof EXCEPT !.runs = Increment(@)] \in Profile
    BY <1>0, <1>9 DEF Save, ActiveOK, Active, Profile, Increment
  <2>2. /\ [run[r] EXCEPT !.pc = "done"] \in Local
        /\ ActiveOK([run[r] EXCEPT !.pc = "done"])
    BY <1>0 DEF Local, ActiveOK, Active, Pc
  <2> QED  BY <1>0, <1>9, <2>1, <2>2, BecomeType DEF Save, TypeInv, Typed
<1>10. CASE Abort(r)
  <2>1. /\ [Idle EXCEPT !.pc = "failed"] \in Local
        /\ ActiveOK([Idle EXCEPT !.pc = "failed"])
    BY EmptyTreeType DEF Local, ActiveOK, Active, Pc, Idle
  <2> QED  BY <1>0, <1>10, <2>1, BecomeType DEF Abort, TypeInv, Typed
<1> QED
  BY <1>1, <1>2, <1>3, <1>4, <1>5, <1>6, <1>7, <1>8, <1>9, <1>10 DEF Step

\* Every step keeps the types.
LEMMA TypeNext == TypeInv /\ [Next]_vars => TypeInv'
<1> SUFFICES ASSUME TypeInv, [Next]_vars  PROVE TypeInv'
  OBVIOUS
<1>1. ASSUME NEW r \in Run, Step(r) \/ Abort(r)  PROVE TypeInv'
  BY <1>1, TypeStep
<1>2. ASSUME NEW c \in Content, Evict(c)  PROVE TypeInv'
  BY <1>2 DEF Evict, TypeInv, Typed, LocalOK
<1>3. ASSUME NEW t \in Tag, NEW tree \in Tree, Retag(t, tree)  PROVE TypeInv'
  BY <1>3 DEF Retag, TypeInv, Typed, LocalOK
<1>4. CASE UNCHANGED vars
  BY <1>4 DEF vars, TypeInv, Typed, LocalOK
<1> QED
  BY <1>1, <1>2, <1>3, <1>4 DEF Next, FixedNext

\* Type correctness, and an active run works on a profile for the image it was
\* asked to run.
THEOREM Typing == Spec => []TypeOK
<1>1. TypeInv => TypeOK  BY DEF TypeInv, TypeOK, LocalOK, Active
<1> QED  BY TypeInit, TypeNext, <1>1, PTL DEF Spec

-----------------------------------------------------------------------------
(* What a profile names was cached first: run.rs records before it saves. *)

\* What run l works on is cached, or was.
LocalBacked(l, ever) == l.pc \in Active => Digests(l.prof.entries) \subseteq ever

BackedInv ==
  /\ Backed
  /\ \A r \in Run : LocalBacked(run[r], cache \cup evicted)

\* A new profile names no content, whatever it counts.
LEMMA EmptyBacked ==
  ASSUME NEW t \in Tag, NEW n \in Nat
  PROVE  /\ Digests(NewProfile(t).entries) = {}
         /\ Digests([NewProfile(t) EXCEPT !.runs = n].entries) = {}
  BY DEF NewProfile, Digests, Named, EmptyTree

\* Naming one more file adds at most its content.
LEMMA DigestsExcept ==
  ASSUME NEW e \in Tree, NEW q \in Path, NEW c \in Content
  PROVE  Digests([e EXCEPT ![q] = c]) \subseteq Digests(e) \cup {c}
  BY DEF Tree, Digests, Named

\* A step of r that leaves the disk alone and forgets no content.
LEMMA BecomeBacked ==
  ASSUME TypeInv, BackedInv, NEW r \in Run, NEW l \in Local, Become(r, l),
         disk' = disk, cache \cup evicted \subseteq cache' \cup evicted',
         LocalBacked(l, cache' \cup evicted')
  PROVE  BackedInv'
<1>1. Backed'  BY DEF BackedInv, Backed
<1>2. ASSUME NEW s \in Run  PROVE LocalBacked(run[s], cache \cup evicted)'
  <2>1. CASE s = r
    BY <2>1 DEF Become, TypeInv, Typed, LocalBacked
  <2>2. CASE s # r
    <3>1. run'[s] = run[s]  BY <2>2 DEF Become, TypeInv, Typed
    <3> QED  BY <3>1 DEF BackedInv, LocalBacked
  <2> QED  BY <2>1, <2>2
<1> QED  BY <1>1, <1>2 DEF BackedInv

\* A step of a run names nothing that was not cached.
LEMMA BackedStep ==
  ASSUME TypeInv, BackedInv, NEW r \in Run, Step(r) \/ Abort(r)
  PROVE  BackedInv'
<1>0. /\ run[r] \in Local /\ ActiveOK(run[r]) /\ run \in [Run -> Local]
      /\ LocalBacked(run[r], cache \cup evicted)
      /\ disk \in Profile \cup {None}
      /\ disk # None => Digests(disk.entries) \subseteq cache \cup evicted
  BY DEF TypeInv, Typed, LocalOK, ActiveOK, BackedInv, Backed
<1>t. run' \in [Run -> Local]
  BY TypeStep DEF TypeInv, Typed
<1>l. ASSUME NEW l, Become(r, l)  PROVE l \in Local
  BY <1>0, <1>t, <1>l DEF Become
<1>1. ASSUME NEW opt \in Options, Begin(r, opt)  PROVE BackedInv'
  <2> DEFINE l == [Idle EXCEPT !.pc = "prepare", !.opt = opt,
                               !.mode = ChooseMode(opt), !.prof = Working(opt)]
  <2>1. Digests(Working(opt).entries) \subseteq cache \cup evicted
    BY <1>0, EmptyBacked DEF Working
  <2>2. LocalBacked(l, cache \cup evicted)
    BY <2>1 DEF Idle, LocalBacked
  <2> QED  BY <1>1, <1>l, <2>2, BecomeBacked DEF Begin
<1>2. CASE Pull(r)
  BY <1>0, <1>2, <1>l, BecomeBacked DEF Pull, LocalBacked, Local, Active
<1>3. CASE Place(r)
  BY <1>0, <1>3, <1>l, BecomeBacked DEF Place, LocalBacked, Local, Active
<1>4. CASE PlaceFails(r)
  BY <1>0, <1>4, <1>l, BecomeBacked DEF PlaceFails, LocalBacked, Local, Active
<1>5. CASE Job(r)
  <2>1. PICK o \in Outcome(run[r].root) :
          Become(r, [run[r] EXCEPT !.pc = "record", !.root = o.tree, !.exit = o.exit,
                                   !.todo = IF run[r].opt.trace THEN o.touched ELSE {}])
    BY <1>5 DEF Job
  <2> DEFINE t == IF run[r].opt.trace THEN o.touched ELSE {}
             l == [run[r] EXCEPT !.pc = "record", !.root = o.tree, !.exit = o.exit, !.todo = t]
  <2> HIDE DEF t
  <2>2. LocalBacked(l, cache \cup evicted)
    BY <1>0, <1>5 DEF Job, LocalBacked, Local, Active
  <2>3. Become(r, l)  BY <2>1 DEF t
  <2> QED  BY <1>5, <1>l, <2>2, <2>3, BecomeBacked DEF Job
<1>6. ASSUME NEW q \in Path, Record(r, q)  PROVE BackedInv'
  <2>1. CASE run[r].root[q] = None
    BY <1>0, <1>6, <1>l, <2>1, BecomeBacked DEF Record, LocalBacked, Local
  <2>2. CASE run[r].root[q] # None
    <3> DEFINE c == run[r].root[q]
               e == [run[r].prof.entries EXCEPT ![q] = c]
               l == [run[r] EXCEPT !.todo = @ \ {q}, !.prof.entries[q] = c]
    <3>1. c \in Content  BY <1>0, <2>2 DEF Local, Tree
    <3>2. run[r].prof.entries \in Tree /\ run[r].prof \in Profile
      BY <1>0, <1>6 DEF Record, ActiveOK, Active, Profile
    <3>3. Digests(e) \subseteq cache \cup evicted \cup {c}
      BY <1>0, <1>6, <3>1, <3>2, DigestsExcept DEF Record, LocalBacked, Active
    <3>4. cache' \cup evicted' = cache \cup evicted \cup {c} /\ disk' = disk /\ Become(r, l)
      BY <1>6, <2>2 DEF Record
    <3>5. l.prof.entries = e /\ l.pc = "record"
      BY <1>0, <1>6, <3>2 DEF Record, Local, Profile
    <3> HIDE DEF e, l, c
    <3>6. LocalBacked(l, cache' \cup evicted')
      BY <3>3, <3>4, <3>5 DEF LocalBacked
    <3> QED  BY <1>l, <3>4, <3>6, BecomeBacked
  <2> QED  BY <2>1, <2>2
<1>7. ASSUME NEW q \in Path, RecordFails(r, q)  PROVE BackedInv'
  BY <1>0, <1>7, <1>l, BecomeBacked DEF RecordFails, LocalBacked, Local
<1>8. CASE FallBack(r)
  <2> DEFINE e == [NewProfile(run[r].opt.tag) EXCEPT !.runs = run[r].prof.runs]
             l == [run[r] EXCEPT !.pc = "prepare", !.mode = "cold", !.fell = TRUE, !.prof = e]
  <2>1. Digests(e.entries) = {}
    BY <1>0, <1>8, EmptyBacked DEF FallBack, ActiveOK, Active, Profile
  <2> HIDE DEF e
  <2>2. LocalBacked(l, cache \cup evicted)
    BY <1>0, <2>1 DEF LocalBacked, Local
  <2>3. Become(r, l)  BY <1>8 DEF FallBack, e
  <2> QED  BY <1>8, <1>l, <2>2, <2>3, BecomeBacked DEF FallBack
<1>9. CASE Save(r)
  <2>1. Backed'
    <3>1. disk'.entries = run[r].prof.entries
      BY <1>0, <1>9 DEF Save, ActiveOK, Active, Profile
    <3> QED  BY <1>0, <1>9, <3>1 DEF Save, Backed, LocalBacked, Active
  <2>2. ASSUME NEW s \in Run  PROVE LocalBacked(run[s], cache \cup evicted)'
    <3>1. CASE s = r
      <4>1. run'[s].pc = "done"  BY <1>0, <1>9, <3>1 DEF Save, Become, Local
      <4> QED  BY <4>1 DEF LocalBacked, Active
    <3>2. CASE s # r
      <4>1. run'[s] = run[s]  BY <1>0, <1>9, <3>2 DEF Save, Become
      <4> QED  BY <1>9, <4>1 DEF Save, BackedInv, LocalBacked
    <3> QED  BY <3>1, <3>2
  <2> QED  BY <2>1, <2>2 DEF BackedInv
<1>10. CASE Abort(r)
  <2>1. LocalBacked([Idle EXCEPT !.pc = "failed"], cache \cup evicted)
    BY DEF LocalBacked, Active, Idle
  <2> QED  BY <1>10, <1>l, <2>1, BecomeBacked DEF Abort
<1> QED
  BY <1>1, <1>2, <1>3, <1>4, <1>5, <1>6, <1>7, <1>8, <1>9, <1>10 DEF Step

\* No step forgets that a content was cached.
LEMMA BackedNext == TypeInv /\ BackedInv /\ [Next]_vars => BackedInv'
<1> SUFFICES ASSUME TypeInv, BackedInv, [Next]_vars  PROVE BackedInv'
  OBVIOUS
<1>1. ASSUME NEW r \in Run, Step(r) \/ Abort(r)  PROVE BackedInv'
  BY <1>1, BackedStep
<1>2. ASSUME NEW c \in Content, Evict(c)  PROVE BackedInv'
  <2>1. cache' \cup evicted' = cache \cup evicted /\ disk' = disk /\ run' = run
    BY <1>2 DEF Evict
  <2> QED  BY <2>1 DEF BackedInv, Backed, LocalBacked
<1>3. ASSUME NEW t \in Tag, NEW tree \in Tree, Retag(t, tree)  PROVE BackedInv'
  BY <1>3 DEF Retag, BackedInv, Backed, LocalBacked
<1>4. CASE UNCHANGED vars
  BY <1>4 DEF vars, BackedInv, Backed, LocalBacked
<1> QED
  BY <1>1, <1>2, <1>3, <1>4 DEF Next, FixedNext

\* BackedInv is an invariant: an active run only works on contents that are cached
\* or were evicted.
THEOREM BackedAlways == Spec => [](TypeInv /\ BackedInv)
<1>1. Init => BackedInv
  BY DEF Init, BackedInv, Backed, LocalBacked, Idle, Active
<1> QED  BY TypeInit, TypeNext, BackedNext, <1>1, PTL DEF Spec

\* A saved profile never names a content that was not cached first, however the
\* runs overlap, fail or are killed.
THEOREM ProfilesBacked == Spec => []Backed
<1>1. BackedInv => Backed  BY DEF BackedInv
<1> QED  BY BackedAlways, <1>1, PTL

-----------------------------------------------------------------------------
(* Images that stay what they are, and jobs that do not write. *)

\* What e names is what image t has there.
Agrees(e, t) == \A q \in Path : e[q] # None => e[q] = Upstream[t][q]

\* A run works on files of its own image only: a warm root is part of it, a cold
\* root all of it; and a failure is only reported after a cold run.
LocalReal(l) ==
  /\ l.pc \in Active => Agrees(l.prof.entries, l.opt.tag)
  /\ l.pc \in {"job", "record"} /\ l.mode = "warm" => Agrees(l.root, l.opt.tag)
  /\ l.pc \in {"job", "record"} /\ l.mode = "cold" =>
       l.root = Upstream[l.opt.tag] /\ l.pulled = Upstream[l.opt.tag]
  /\ l.pc = "done" /\ l.exit # 0 =>
       l.root = Upstream[l.opt.tag] /\ l.pulled = Upstream[l.opt.tag]

RealInv ==
  /\ image = Upstream
  /\ disk # None => Agrees(disk.entries, disk.image)
  /\ \A r \in Run : LocalReal(run[r])

\* A new profile contradicts no image.
LEMMA EmptyAgrees ==
  ASSUME NEW t \in Tag, NEW n \in Nat
  PROVE  /\ Agrees(NewProfile(t).entries, t)
         /\ Agrees([NewProfile(t) EXCEPT !.runs = n].entries, t)
  BY DEF NewProfile, Agrees, EmptyTree

\* A step of r that leaves the disk alone.
LEMMA BecomeReal ==
  ASSUME TypeInv, RealInv, NEW r \in Run, NEW l \in Local, Become(r, l),
         disk' = disk, image' = image, LocalReal(l)
  PROVE  RealInv'
<1>1. ASSUME NEW s \in Run  PROVE LocalReal(run[s])'
  <2>1. CASE s = r
    BY <2>1 DEF Become, TypeInv, Typed, LocalReal, Agrees
  <2>2. CASE s # r
    <3>1. run'[s] = run[s]  BY <2>2 DEF Become, TypeInv, Typed
    <3> QED  BY <3>1 DEF RealInv, LocalReal, Agrees
  <2> QED  BY <2>1, <2>2
<1> QED  BY <1>1 DEF RealInv, Agrees

\* A step of a run whose job does not write only brings files of its image.
LEMMA RealStep ==
  ASSUME "write" \notin Behaviour,
         TypeInv, RealInv, NEW r \in Run, Step(r) \/ Abort(r)
  PROVE  RealInv'
<1>0. /\ run[r] \in Local /\ ActiveOK(run[r]) /\ run \in [Run -> Local]
      /\ LocalReal(run[r]) /\ image = Upstream
      /\ disk \in Profile \cup {None}
      /\ disk # None => Agrees(disk.entries, disk.image)
  BY DEF TypeInv, Typed, LocalOK, ActiveOK, RealInv
<1>t. run' \in [Run -> Local]
  BY TypeStep DEF TypeInv, Typed
<1>l. ASSUME NEW l, Become(r, l)  PROVE l \in Local
  BY <1>0, <1>t, <1>l DEF Become
<1>1. ASSUME NEW opt \in Options, Begin(r, opt)  PROVE RealInv'
  <2> DEFINE l == [Idle EXCEPT !.pc = "prepare", !.opt = opt,
                               !.mode = ChooseMode(opt), !.prof = Working(opt)]
  <2>1. Agrees(Working(opt).entries, opt.tag)
    BY <1>0, EmptyAgrees DEF Working
  <2>2. LocalReal(l)
    BY <2>1 DEF Idle, LocalReal
  <2> QED  BY <1>1, <1>l, <2>2, BecomeReal DEF Begin
<1>2. CASE Pull(r)
  BY <1>0, <1>2, <1>l, BecomeReal DEF Pull, LocalReal, Local, Active
<1>3. CASE Place(r)
  BY <1>0, <1>3, <1>l, BecomeReal DEF Place, LocalReal, Local, Active
<1>4. CASE PlaceFails(r)
  BY <1>0, <1>4, <1>l, BecomeReal DEF PlaceFails, LocalReal, Local, Active
<1>5. CASE Job(r)
  <2>1. PICK o \in Outcome(run[r].root) :
          Become(r, [run[r] EXCEPT !.pc = "record", !.root = o.tree, !.exit = o.exit,
                                   !.todo = IF run[r].opt.trace THEN o.touched ELSE {}])
    BY <1>5 DEF Job
  <2>2. o.tree = run[r].root  BY DEF Outcome
  <2> DEFINE t == IF run[r].opt.trace THEN o.touched ELSE {}
             l == [run[r] EXCEPT !.pc = "record", !.root = o.tree, !.exit = o.exit, !.todo = t]
  <2> HIDE DEF t
  <2>3. LocalReal(l)
    BY <1>0, <1>5, <2>2 DEF Job, LocalReal, Local, Active
  <2>4. Become(r, l)  BY <2>1 DEF t
  <2> QED  BY <1>5, <1>l, <2>3, <2>4, BecomeReal DEF Job
<1>6. ASSUME NEW q \in Path, Record(r, q)  PROVE RealInv'
  <2>1. CASE run[r].root[q] = None
    BY <1>0, <1>6, <1>l, <2>1, BecomeReal DEF Record, LocalReal, Local
  <2>2. CASE run[r].root[q] # None
    <3> DEFINE c == run[r].root[q]
               e == [run[r].prof.entries EXCEPT ![q] = c]
               t == run[r].opt.tag
               l == [run[r] EXCEPT !.todo = @ \ {q}, !.prof.entries[q] = c]
    <3>1. run[r].prof.entries \in Tree /\ run[r].prof \in Profile /\ run[r].pc = "record"
      BY <1>0, <1>6 DEF Record, ActiveOK, Active, Profile
    <3>2. c = Upstream[t][q]
      BY <1>0, <2>2, <3>1 DEF LocalReal, Agrees, ActiveOK, Active
    <3>3. Agrees(run[r].prof.entries, t)
      BY <1>0, <3>1 DEF LocalReal, Active
    <3>4. Agrees(e, t)
      BY <3>1, <3>2, <3>3 DEF Agrees, Tree
    <3>5. disk' = disk /\ image' = image /\ Become(r, l)
      BY <1>6, <2>2 DEF Record
    <3>6. /\ l.prof.entries = e /\ l.pc = "record" /\ l.opt = run[r].opt
          /\ l.mode = run[r].mode /\ l.root = run[r].root /\ l.pulled = run[r].pulled
      BY <1>0, <3>1 DEF Local, Profile
    <3> HIDE DEF e, l
    <3>7. LocalReal(l)
      BY <1>0, <3>1, <3>4, <3>6 DEF LocalReal
    <3> QED  BY <1>l, <3>5, <3>7, BecomeReal
  <2> QED  BY <2>1, <2>2
<1>7. ASSUME NEW q \in Path, RecordFails(r, q)  PROVE RealInv'
  BY <1>0, <1>7, <1>l, BecomeReal DEF RecordFails, LocalReal, Local
<1>8. CASE FallBack(r)
  <2> DEFINE e == [NewProfile(run[r].opt.tag) EXCEPT !.runs = run[r].prof.runs]
             l == [run[r] EXCEPT !.pc = "prepare", !.mode = "cold", !.fell = TRUE, !.prof = e]
  <2>1. Agrees(e.entries, run[r].opt.tag)
    BY <1>0, <1>8, EmptyAgrees DEF FallBack, ActiveOK, Active, Profile
  <2> HIDE DEF e
  <2>2. LocalReal(l)
    BY <1>0, <2>1 DEF LocalReal, Local
  <2>3. Become(r, l)  BY <1>8 DEF FallBack, e
  <2> QED  BY <1>8, <1>l, <2>2, <2>3, BecomeReal DEF FallBack
<1>9. CASE Save(r)
  <2>1. disk' # None => Agrees(disk'.entries, disk'.image)
    <3>1. /\ disk'.entries = run[r].prof.entries
          /\ disk'.image = run[r].opt.tag
      BY <1>0, <1>9 DEF Save, ActiveOK, Active, Profile
    <3> QED  BY <1>0, <1>9, <3>1 DEF Save, LocalReal, Active
  <2>2. LocalReal([run[r] EXCEPT !.pc = "done"])
    BY <1>0, <1>9 DEF Save, LocalReal, Local, Active, ActiveOK
  <2>3. ASSUME NEW s \in Run  PROVE LocalReal(run[s])'
    <3>1. CASE s = r
      <4>1. run'[s] = [run[r] EXCEPT !.pc = "done"]  BY <1>0, <1>9, <3>1 DEF Save, Become
      <4> QED  BY <2>2, <4>1 DEF LocalReal, Agrees
    <3>2. CASE s # r
      <4>1. run'[s] = run[s]  BY <1>0, <1>9, <3>2 DEF Save, Become
      <4> QED  BY <1>9, <4>1 DEF RealInv, LocalReal, Agrees
    <3> QED  BY <3>1, <3>2
  <2> QED  BY <1>0, <1>9, <2>1, <2>3 DEF RealInv, Save, Agrees
<1>10. CASE Abort(r)
  <2>1. LocalReal([Idle EXCEPT !.pc = "failed"])
    BY DEF LocalReal, Active, Idle
  <2> QED  BY <1>10, <1>l, <2>1, BecomeReal DEF Abort
<1> QED
  BY <1>1, <1>2, <1>3, <1>4, <1>5, <1>6, <1>7, <1>8, <1>9, <1>10 DEF Step

\* RealInv is an invariant while the registry keeps serving the same images and
\* jobs do not write.
THEOREM RealAlways ==
  ASSUME "write" \notin Behaviour
  PROVE  FixedSpec => [](TypeInv /\ RealInv)
<1>1. Init => RealInv
  BY DEF Init, RealInv, LocalReal, Idle, Active
<1>2. TypeInv /\ [FixedNext]_vars => TypeInv'
  BY TypeNext DEF Next
<1>3. TypeInv /\ RealInv /\ [FixedNext]_vars => RealInv'
  <2> SUFFICES ASSUME TypeInv, RealInv, [FixedNext]_vars  PROVE RealInv'
    OBVIOUS
  <2>1. ASSUME NEW r \in Run, Step(r) \/ Abort(r)  PROVE RealInv'
    BY <2>1, RealStep
  <2>2. ASSUME NEW c \in Content, Evict(c)  PROVE RealInv'
    BY <2>2 DEF Evict, RealInv, LocalReal, Agrees
  <2>3. CASE UNCHANGED vars
    BY <2>3 DEF vars, RealInv, LocalReal, Agrees
  <2> QED  BY <2>1, <2>2, <2>3 DEF FixedNext
<1> QED  BY TypeInit, <1>1, <1>2, <1>3, PTL DEF FixedSpec

\* Runs on different images replace each other's profile, yet a profile never
\* names a file of another image.
THEOREM ProfilesOfTheirImage ==
  ASSUME "write" \notin Behaviour
  PROVE  FixedSpec => []EntriesFromImage
<1>1. TypeInv /\ RealInv => EntriesFromImage
  BY DEF RealInv, EntriesFromImage, Agrees, Named
<1> QED  BY RealAlways, <1>1, PTL

\* A failing exit code that is reported comes from a job that had the whole image.
THEOREM ReportedFailuresReal ==
  ASSUME "write" \notin Behaviour
  PROVE  FixedSpec => []FailuresAreReal
<1>1. TypeInv /\ RealInv => FailuresAreReal
  BY DEF RealInv, LocalReal, FailuresAreReal
<1> QED  BY RealAlways, <1>1, PTL

-----------------------------------------------------------------------------
(* One run at a time. *)

\* A run continues what d, the profile file, says of its image: it has counted as
\* many runs and, unless it fell back, knows every path.
Continues(l, d) ==
  l.pc \in Active /\ d # None /\ d.image = l.opt.tag =>
    /\ l.prof.runs >= d.runs
    /\ ~l.fell => Named(d.entries) \subseteq Named(l.prof.entries)

ContinuesInv == \A r \in Run : Continues(run[r], disk)

\* Recording one more path forgets none.
LEMMA NamedExcept ==
  ASSUME NEW e \in Tree, NEW q \in Path, NEW c \in Content
  PROVE  Named(e) \subseteq Named([e EXCEPT ![q] = c])
  BY DEF Tree, Named

\* The steps of the only run that do not save.
LEMMA ContinuesStep ==
  ASSUME TypeInv, ContinuesInv, NEW r \in Run, Step(r) \/ Abort(r), ~Save(r)
  PROVE  disk' = disk /\ Continues(run'[r], disk)
<1>0. /\ run[r] \in Local /\ ActiveOK(run[r]) /\ run \in [Run -> Local]
      /\ Continues(run[r], disk) /\ disk \in Profile \cup {None}
  BY DEF TypeInv, Typed, LocalOK, ActiveOK, ContinuesInv
<1>l. ASSUME NEW l, Become(r, l)  PROVE run'[r] = l
  BY <1>0, <1>l DEF Become
<1>1. ASSUME NEW opt \in Options, Begin(r, opt)
      PROVE  disk' = disk /\ Continues(run'[r], disk)
  <2>1. disk # None /\ disk.image = opt.tag => Working(opt) = disk
    BY DEF Working
  <2>2. disk # None => disk.runs \in Nat
    BY <1>0 DEF Profile
  <2>3. run'[r] = [Idle EXCEPT !.pc = "prepare", !.opt = opt,
                               !.mode = ChooseMode(opt), !.prof = Working(opt)]
    BY <1>1, <1>l DEF Begin
  <2>4. run'[r].opt = opt /\ run'[r].prof = Working(opt)
    BY <2>3 DEF Idle
  <2> QED  BY <1>1, <2>1, <2>2, <2>4 DEF Begin, Continues
<1>2. CASE Pull(r)
  BY <1>0, <1>2, <1>l DEF Pull, Continues, Local, Active
<1>3. CASE Place(r)
  BY <1>0, <1>3, <1>l DEF Place, Continues, Local, Active
<1>4. CASE PlaceFails(r)
  BY <1>0, <1>4, <1>l DEF PlaceFails, Continues, Local, Active
<1>5. CASE Job(r)
  <2>1. PICK o \in Outcome(run[r].root) :
          Become(r, [run[r] EXCEPT !.pc = "record", !.root = o.tree, !.exit = o.exit,
                                   !.todo = IF run[r].opt.trace THEN o.touched ELSE {}])
    BY <1>5 DEF Job
  <2> DEFINE t == IF run[r].opt.trace THEN o.touched ELSE {}
             l == [run[r] EXCEPT !.pc = "record", !.root = o.tree, !.exit = o.exit, !.todo = t]
  <2>3. run'[r] = l  BY <1>l, <2>1
  <2> HIDE DEF t
  <2>2. /\ run'[r].prof = run[r].prof /\ run'[r].opt = run[r].opt
        /\ run'[r].fell = run[r].fell
    BY <1>0, <2>3 DEF Local
  <2> QED  BY <1>0, <1>5, <2>2 DEF Job, Continues, Active
<1>6. ASSUME NEW q \in Path, Record(r, q)
      PROVE  disk' = disk /\ Continues(run'[r], disk)
  <2>1. CASE run[r].root[q] = None
    BY <1>0, <1>6, <1>l, <2>1 DEF Record, Continues, Local
  <2>2. CASE run[r].root[q] # None
    <3> DEFINE c == run[r].root[q]
               e == [run[r].prof.entries EXCEPT ![q] = c]
               l == [run[r] EXCEPT !.todo = @ \ {q}, !.prof.entries[q] = c]
    <3>1. run[r].prof.entries \in Tree /\ run[r].prof \in Profile /\ run[r].pc = "record"
      BY <1>0, <1>6 DEF Record, ActiveOK, Active, Profile
    <3>2. c \in Content  BY <1>0, <2>2 DEF Local, Tree
    <3>3. Named(run[r].prof.entries) \subseteq Named(e)
      BY <3>1, <3>2, NamedExcept
    <3>4. disk' = disk /\ run'[r] = l
      BY <1>6, <1>l, <2>2 DEF Record
    <3>5. /\ l.prof.entries = e /\ l.prof.runs = run[r].prof.runs /\ l.pc = "record"
          /\ l.opt = run[r].opt /\ l.fell = run[r].fell
      BY <1>0, <3>1 DEF Local, Profile
    <3> HIDE DEF e, l
    <3> QED  BY <1>0, <3>1, <3>3, <3>4, <3>5 DEF Continues, Active
  <2> QED  BY <2>1, <2>2
<1>7. ASSUME NEW q \in Path, RecordFails(r, q)
      PROVE  disk' = disk /\ Continues(run'[r], disk)
  BY <1>0, <1>7, <1>l DEF RecordFails, Continues, Local
<1>8. CASE FallBack(r)
  <2> DEFINE e == [NewProfile(run[r].opt.tag) EXCEPT !.runs = run[r].prof.runs]
             l == [run[r] EXCEPT !.pc = "prepare", !.mode = "cold", !.fell = TRUE, !.prof = e]
  <2>1. e.runs = run[r].prof.runs  BY DEF NewProfile
  <2> HIDE DEF e
  <2>2. run'[r] = l  BY <1>8, <1>l DEF FallBack, e
  <2>3. run'[r].opt = run[r].opt /\ run'[r].prof = e /\ run'[r].fell
    BY <1>0, <2>2 DEF Local
  <2> QED  BY <1>0, <1>8, <2>1, <2>3 DEF FallBack, Continues, Active
<1>9. CASE Abort(r)
  <2>1. run'[r].pc = "failed"
    BY <1>9, <1>l DEF Abort, Idle
  <2> QED  BY <1>9, <2>1 DEF Abort, Continues, Active
<1> QED
  BY <1>1, <1>2, <1>3, <1>4, <1>5, <1>6, <1>7, <1>8, <1>9 DEF Step

\* Saving leaves on disk what the run worked on, counted once more.
LEMMA SaveStep ==
  ASSUME TypeInv, ContinuesInv, NEW r \in Run, Save(r)
  PROVE  /\ run'[r].pc = "done"
         /\ disk # None /\ disk.image = disk'.image =>
              /\ disk'.runs >= disk.runs
              /\ ~run[r].fell => Named(disk.entries) \subseteq Named(disk'.entries)
<1>0. /\ run[r] \in Local /\ run \in [Run -> Local] /\ disk \in Profile \cup {None}
      /\ run[r].pc = "record" /\ run[r].prof \in Profile
      /\ run[r].prof.image = run[r].opt.tag /\ Continues(run[r], disk)
  BY DEF TypeInv, Typed, LocalOK, ContinuesInv, Save, Active
<1>1. run'[r].pc = "done"
  BY <1>0 DEF Save, Become, Local
<1>2. /\ disk'.image = run[r].opt.tag
      /\ disk'.entries = run[r].prof.entries
      /\ disk'.runs >= run[r].prof.runs
  BY <1>0 DEF Save, Profile, Increment
<1>3. disk'.runs \in Nat /\ run[r].prof.runs \in Nat /\ (disk # None => disk.runs \in Nat)
  BY <1>0 DEF Save, Profile, Increment
<1> QED  BY <1>0, <1>1, <1>2, <1>3 DEF Continues, Active

\* When runs take turns, the only run continues the profile file.
LEMMA ContinuesNext ==
  ASSUME \A r, s \in Run : r = s, TypeInv, ContinuesInv, [Next]_vars
  PROVE  ContinuesInv'
<1>1. ASSUME NEW r \in Run, Step(r) \/ Abort(r), ~Save(r)  PROVE ContinuesInv'
  <2>1. disk' = disk /\ Continues(run'[r], disk)
    BY <1>1, ContinuesStep
  <2> QED  BY <2>1 DEF ContinuesInv, Continues
<1>2. ASSUME NEW r \in Run, Save(r)  PROVE ContinuesInv'
  <2>1. run'[r].pc = "done"  BY <1>2, SaveStep
  <2> QED  BY <2>1 DEF ContinuesInv, Continues, Active
<1>3. ASSUME NEW c \in Content, Evict(c)  PROVE ContinuesInv'
  BY <1>3 DEF Evict, ContinuesInv, Continues
<1>4. ASSUME NEW t \in Tag, NEW tree \in Tree, Retag(t, tree)  PROVE ContinuesInv'
  BY <1>4 DEF Retag, ContinuesInv, Continues
<1>5. CASE UNCHANGED vars
  BY <1>5 DEF vars, ContinuesInv, Continues
<1> QED
  BY <1>1, <1>2, <1>3, <1>4, <1>5 DEF Next, FixedNext

\* When runs take turns, the run count of an image never goes back.
THEOREM CountNeverBack ==
  ASSUME \A r, s \in Run : r = s
  PROVE  Spec => CountKept
<1>1. Init => ContinuesInv
  BY DEF Init, ContinuesInv, Continues
<1>2. TypeInv /\ ContinuesInv /\ [Next]_vars => ContinuesInv'
  BY ContinuesNext
<1>3. TypeInv /\ ContinuesInv /\ [Next]_vars =>
        [disk # None /\ disk.image = disk'.image => disk'.runs >= disk.runs]_vars
  <2> SUFFICES ASSUME TypeInv, ContinuesInv, [Next]_vars, disk # None,
                      disk.image = disk'.image
               PROVE  disk'.runs >= disk.runs
    OBVIOUS
  <2>1. ASSUME NEW r \in Run, Step(r) \/ Abort(r)  PROVE disk' = disk \/ Save(r)
    BY <2>1, ContinuesStep
  <2>2. disk' = disk => disk'.runs >= disk.runs
    BY DEF TypeInv, Typed, Profile
  <2>3. ASSUME NEW r \in Run, Save(r)  PROVE disk'.runs >= disk.runs
    BY <2>3, SaveStep
  <2> QED  BY <2>1, <2>2, <2>3 DEF Next, FixedNext, Evict, Retag, vars
<1> QED  BY TypeInit, TypeNext, <1>1, <1>2, <1>3, PTL DEF Spec, CountKept

\* When runs take turns, the profile keeps improving: only a run that fell back may
\* forget a path.
THEOREM ProfileImproves ==
  ASSUME \A r, s \in Run : r = s
  PROVE  Spec => Improving
<1>1. Init => ContinuesInv
  BY DEF Init, ContinuesInv, Continues
<1>2. TypeInv /\ ContinuesInv /\ [Next]_vars => ContinuesInv'
  BY ContinuesNext
<1>3. TypeInv /\ ContinuesInv /\ [Next]_vars =>
        [\A r \in Run : SavedBy(r) /\ ~run[r].fell /\ disk # None /\ disk.image = disk'.image
           => Named(disk.entries) \subseteq Named(disk'.entries)]_vars
  <2> SUFFICES ASSUME TypeInv, ContinuesInv, [Next]_vars, NEW r \in Run,
                      ~run[r].fell, disk # None, disk.image = disk'.image
               PROVE  Named(disk.entries) \subseteq Named(disk'.entries)
    OBVIOUS
  <2>1. ASSUME NEW s \in Run, Step(s) \/ Abort(s)  PROVE disk' = disk \/ Save(s)
    BY <2>1, ContinuesStep
  <2>2. disk' = disk => Named(disk.entries) \subseteq Named(disk'.entries)
    OBVIOUS
  <2>3. ASSUME NEW s \in Run, Save(s)
        PROVE  Named(disk.entries) \subseteq Named(disk'.entries)
    BY <2>3, SaveStep
  <2> QED  BY <2>1, <2>2, <2>3 DEF Next, FixedNext, Evict, Retag, vars
<1> QED  BY TypeInit, TypeNext, <1>1, <1>2, <1>3, PTL DEF Spec, Improving

\* Only saving takes a run from recording to the end.
LEMMA OnlySaveEnds ==
  ASSUME TypeInv, NEW r \in Run, SavedBy(r), NEW s \in Run, Step(s) \/ Abort(s)
  PROVE  s = r /\ Save(r)
<1>1. run'[r].pc = "done" /\ run[r].pc = "record"  BY DEF SavedBy
<1>2. run \in [Run -> Local]  BY DEF TypeInv, Typed
<1>3. ASSUME NEW l, Become(s, l)  PROVE s = r /\ l.pc = "done"
  BY <1>1, <1>2, <1>3 DEF Become
<1>4. ASSUME NEW opt \in Options, Begin(s, opt)  PROVE FALSE
  BY <1>1, <1>3, <1>4 DEF Begin
<1>5. ~(Pull(s) \/ Place(s) \/ PlaceFails(s) \/ Job(s))
  <2>1. ASSUME Job(s)  PROVE FALSE
    <3>1. PICK l : Become(s, l)  BY <2>1 DEF Job
    <3> QED  BY <1>1, <1>3, <2>1, <3>1 DEF Job
  <2> QED  BY <1>1, <1>3, <2>1 DEF Pull, Place, PlaceFails
<1>6. ASSUME NEW q \in Path, Record(s, q)  PROVE FALSE
  <2>1. CASE run[s].root[q] = None
    BY <1>1, <1>2, <1>3, <1>6, <2>1 DEF Record, Local
  <2>2. CASE run[s].root[q] # None
    <3> DEFINE l == [run[s] EXCEPT !.todo = @ \ {q}, !.prof.entries[q] = run[s].root[q]]
    <3>1. s = r /\ l.pc = "done"  BY <1>3, <1>6, <2>2 DEF Record
    <3>2. run[r] \in Local /\ run[r].prof \in Profile
      BY <1>1, <1>2 DEF TypeInv, LocalOK, Active
    <3>3. l.pc = "record"  BY <1>1, <3>1, <3>2 DEF Local, Profile
    <3> QED  BY <3>1, <3>3
  <2> QED  BY <2>1, <2>2
<1>7. ASSUME NEW q \in Path, RecordFails(s, q)  PROVE FALSE
  BY <1>1, <1>2, <1>3, <1>7 DEF RecordFails, Local
<1>8. ASSUME FallBack(s)  PROVE FALSE
  <2> DEFINE e == [NewProfile(run[s].opt.tag) EXCEPT !.runs = run[s].prof.runs]
             l == [run[s] EXCEPT !.pc = "prepare", !.mode = "cold", !.fell = TRUE, !.prof = e]
  <2> HIDE DEF e
  <2>1. l.pc = "done"  BY <1>3, <1>8 DEF FallBack, e
  <2>2. l.pc = "prepare"  BY <1>2 DEF Local
  <2> QED  BY <2>1, <2>2
<1>9. ~Abort(s)
  BY <1>1, <1>3 DEF Abort, Idle
<1>10. ASSUME Save(s)  PROVE s = r
  BY <1>3, <1>10 DEF Save
<1> QED
  BY <1>4, <1>5, <1>6, <1>7, <1>8, <1>9, <1>10 DEF Step

-----------------------------------------------------------------------------
(* A run at a time, without the tracer. *)

\* A run that is not traced has nothing to record, and works on the entries the profile
\* file has for its image, or, fallen back, on none.
Untouched(l, d) ==
  l.pc \in Active /\ ~l.opt.trace =>
    /\ l.pc = "record" => l.todo = {}
    /\ l.fell => l.prof.entries = EmptyTree
    /\ ~l.fell /\ d # None /\ d.image = l.opt.tag => l.prof.entries = d.entries

UntouchedInv == \A r \in Run : Untouched(run[r], disk)

\* The steps of the only run that do not save.
LEMMA UntouchedStep ==
  ASSUME TypeInv, UntouchedInv, NEW r \in Run, Step(r) \/ Abort(r), ~Save(r)
  PROVE  disk' = disk /\ Untouched(run'[r], disk)
<1>0. /\ run[r] \in Local /\ ActiveOK(run[r]) /\ run \in [Run -> Local]
      /\ Untouched(run[r], disk) /\ disk \in Profile \cup {None}
  BY DEF TypeInv, Typed, LocalOK, ActiveOK, UntouchedInv
<1>l. ASSUME NEW l, Become(r, l)  PROVE run'[r] = l
  BY <1>0, <1>l DEF Become
<1>1. ASSUME NEW opt \in Options, Begin(r, opt)
      PROVE  disk' = disk /\ Untouched(run'[r], disk)
  <2>1. disk # None /\ disk.image = opt.tag => Working(opt) = disk
    BY DEF Working
  <2>2. run'[r] = [Idle EXCEPT !.pc = "prepare", !.opt = opt,
                               !.mode = ChooseMode(opt), !.prof = Working(opt)]
    BY <1>1, <1>l DEF Begin
  <2>3. /\ run'[r].opt = opt /\ run'[r].prof = Working(opt)
        /\ run'[r].pc = "prepare" /\ run'[r].fell = FALSE
    BY <2>2 DEF Idle
  <2> QED  BY <1>1, <2>1, <2>3 DEF Begin, Untouched
<1>2. CASE Pull(r)
  BY <1>0, <1>2, <1>l DEF Pull, Untouched, Local, Active
<1>3. CASE Place(r)
  BY <1>0, <1>3, <1>l DEF Place, Untouched, Local, Active
<1>4. CASE PlaceFails(r)
  BY <1>0, <1>4, <1>l DEF PlaceFails, Untouched, Local, Active
<1>5. CASE Job(r)
  <2>1. PICK o \in Outcome(run[r].root) :
          Become(r, [run[r] EXCEPT !.pc = "record", !.root = o.tree, !.exit = o.exit,
                                   !.todo = IF run[r].opt.trace THEN o.touched ELSE {}])
    BY <1>5 DEF Job
  <2> DEFINE t == IF run[r].opt.trace THEN o.touched ELSE {}
             l == [run[r] EXCEPT !.pc = "record", !.root = o.tree, !.exit = o.exit, !.todo = t]
  <2>2. run'[r] = l  BY <1>l, <2>1
  <2>3. ~run[r].opt.trace => t = {}  OBVIOUS
  <2> HIDE DEF t
  <2>4. /\ run'[r].prof = run[r].prof /\ run'[r].opt = run[r].opt
        /\ run'[r].fell = run[r].fell /\ run'[r].todo = t
    BY <1>0, <2>2 DEF Local
  <2> QED  BY <1>0, <1>5, <2>3, <2>4 DEF Job, Untouched, Active
<1>6. ASSUME NEW q \in Path, Record(r, q)
      PROVE  disk' = disk /\ Untouched(run'[r], disk)
  <2>1. disk' = disk /\ q \in run[r].todo /\ run[r].pc = "record"  BY <1>6 DEF Record
  <2>2. run[r].opt.trace  BY <1>0, <2>1 DEF Untouched, Active
  <2>3. run'[r].opt = run[r].opt
    <3>1. CASE run[r].root[q] = None
      BY <1>0, <1>6, <1>l, <3>1 DEF Record, Local
    <3>2. CASE run[r].root[q] # None
      BY <1>0, <1>6, <1>l, <3>2 DEF Record, Local
    <3> QED  BY <3>1, <3>2
  <2> QED  BY <2>1, <2>2, <2>3 DEF Untouched
<1>7. ASSUME NEW q \in Path, RecordFails(r, q)
      PROVE  disk' = disk /\ Untouched(run'[r], disk)
  <2>1. disk' = disk /\ q \in run[r].todo /\ run[r].pc = "record"  BY <1>7 DEF RecordFails
  <2>2. run[r].opt.trace  BY <1>0, <2>1 DEF Untouched, Active
  <2>3. run'[r].opt = run[r].opt  BY <1>0, <1>7, <1>l DEF RecordFails, Local
  <2> QED  BY <2>1, <2>2, <2>3 DEF Untouched
<1>8. CASE FallBack(r)
  <2> DEFINE e == [NewProfile(run[r].opt.tag) EXCEPT !.runs = run[r].prof.runs]
             l == [run[r] EXCEPT !.pc = "prepare", !.mode = "cold", !.fell = TRUE, !.prof = e]
  <2>1. e.entries = EmptyTree  BY DEF NewProfile
  <2> HIDE DEF e
  <2>2. run'[r] = l  BY <1>8, <1>l DEF FallBack, e
  <2>3. run'[r].prof = e /\ run'[r].fell /\ run'[r].pc = "prepare"
    BY <1>0, <2>2 DEF Local
  <2> QED  BY <1>8, <2>1, <2>3 DEF FallBack, Untouched
<1>9. CASE Abort(r)
  <2>1. run'[r].pc = "failed"
    BY <1>9, <1>l DEF Abort, Idle
  <2> QED  BY <1>9, <2>1 DEF Abort, Untouched, Active
<1> QED
  BY <1>1, <1>2, <1>3, <1>4, <1>5, <1>6, <1>7, <1>8, <1>9 DEF Step

\* When runs take turns, an untraced run keeps its hands off the entries.
LEMMA UntouchedNext ==
  ASSUME \A r, s \in Run : r = s, TypeInv, UntouchedInv, [Next]_vars
  PROVE  UntouchedInv'
<1>1. ASSUME NEW r \in Run, Step(r) \/ Abort(r), ~Save(r)  PROVE UntouchedInv'
  <2>1. disk' = disk /\ Untouched(run'[r], disk)
    BY <1>1, UntouchedStep
  <2> QED  BY <2>1 DEF UntouchedInv, Untouched
<1>2. ASSUME NEW r \in Run, Save(r)  PROVE UntouchedInv'
  <2>1. run'[r].pc = "done"
    BY <1>2 DEF Save, Become, Local, TypeInv, Typed
  <2> QED  BY <2>1 DEF UntouchedInv, Untouched, Active
<1>3. ASSUME NEW c \in Content, Evict(c)  PROVE UntouchedInv'
  BY <1>3 DEF Evict, UntouchedInv, Untouched
<1>4. ASSUME NEW t \in Tag, NEW tree \in Tree, Retag(t, tree)  PROVE UntouchedInv'
  BY <1>4 DEF Retag, UntouchedInv, Untouched
<1>5. CASE UNCHANGED vars
  BY <1>5 DEF vars, UntouchedInv, Untouched
<1> QED
  BY <1>1, <1>2, <1>3, <1>4, <1>5 DEF Next, FixedNext

\* When runs take turns, a run without the tracer leaves the entries of its image as they
\* were, cold or warm; one that falls back leaves none.
THEOREM UntracedLeavesProfile ==
  ASSUME \A r, s \in Run : r = s
  PROVE  Spec => UntracedKeeps
<1>1. Init => UntouchedInv
  BY DEF Init, UntouchedInv, Untouched, Active, Idle
<1>2. TypeInv /\ UntouchedInv /\ [Next]_vars => UntouchedInv'
  BY UntouchedNext
<1>3. TypeInv /\ UntouchedInv /\ [Next]_vars =>
        [\A r \in Run : SavedBy(r) /\ ~run[r].opt.trace /\ disk # None
                        /\ disk.image = disk'.image
           => disk'.entries = IF run[r].fell THEN [q \in Path |-> None] ELSE disk.entries]_vars
  <2> SUFFICES ASSUME TypeInv, UntouchedInv, [Next]_vars, NEW r \in Run, SavedBy(r),
                      ~run[r].opt.trace, disk # None, disk.image = disk'.image
               PROVE  disk'.entries = IF run[r].fell THEN [q \in Path |-> None]
                                      ELSE disk.entries
    OBVIOUS
  <2>1. ASSUME NEW s \in Run, Step(s) \/ Abort(s)  PROVE Save(r)
    BY <2>1, OnlySaveEnds
  <2>2. ASSUME Save(r)
        PROVE  disk'.entries = IF run[r].fell THEN [q \in Path |-> None] ELSE disk.entries
    <3>1. run[r].pc = "record"  BY <2>2 DEF Save
    <3>2. Untouched(run[r], disk) /\ run[r].prof \in Profile /\ run[r].prof.image = run[r].opt.tag
      BY <3>1 DEF UntouchedInv, TypeInv, LocalOK, Active
    <3>3. disk'.entries = run[r].prof.entries /\ disk'.image = run[r].opt.tag
      BY <2>2, <3>1, <3>2 DEF Save, Profile
    <3> QED  BY <3>1, <3>2, <3>3 DEF Untouched, Active, EmptyTree
  <2>3. ASSUME run' = run  PROVE FALSE
    BY <2>3 DEF SavedBy
  <2> QED  BY <2>1, <2>2, <2>3 DEF Next, FixedNext, Evict, Retag, vars
<1> QED  BY TypeInit, TypeNext, <1>1, <1>2, <1>3, PTL DEF Spec, UntracedKeeps
-----------------------------------------------------------------------------
(* Starting over *)

\* A run that fell back begins on no entries, and names what is in the root of its job.
Anew(l) ==
  l.fell =>
    /\ l.pc \in {"prepare", "job"} => l.prof.entries = EmptyTree
    /\ l.pc = "record" => \A q \in Named(l.prof.entries) : l.prof.entries[q] = l.root[q]

AnewInv == \A r \in Run : Anew(run[r])

\* A step of r that takes it where it may be.
LEMMA BecomeAnew ==
  ASSUME TypeInv, AnewInv, NEW r \in Run, NEW l, Become(r, l), Anew(l)
  PROVE  AnewInv'
<1>1. ASSUME NEW s \in Run  PROVE Anew(run[s])'
  <2>1. CASE s = r
    <3>1. run'[s] = l  BY <2>1 DEF Become, TypeInv, Typed
    <3> QED  BY <3>1 DEF Anew, Named
  <2>2. CASE s # r
    <3>1. run'[s] = run[s]  BY <2>2 DEF Become, TypeInv, Typed
    <3> QED  BY <3>1 DEF AnewInv, Anew, Named
  <2> QED  BY <2>1, <2>2
<1> QED  BY <1>1 DEF AnewInv

\* Recording names what the root holds; nothing else adds to an entry.
LEMMA AnewStep ==
  ASSUME TypeInv, AnewInv, NEW r \in Run, Step(r) \/ Abort(r)
  PROVE  AnewInv'
<1>0. run[r] \in Local /\ ActiveOK(run[r]) /\ Anew(run[r])
  BY DEF TypeInv, Typed, LocalOK, ActiveOK, AnewInv
<1>1. ASSUME NEW opt \in Options, Begin(r, opt)  PROVE AnewInv'
  <2>1. Anew([Idle EXCEPT !.pc = "prepare", !.opt = opt,
                          !.mode = ChooseMode(opt), !.prof = Working(opt)])
    BY DEF Anew, Idle
  <2> QED  BY <1>1, <2>1, BecomeAnew DEF Begin
<1>2. CASE Pull(r)
  <2> DEFINE l == [run[r] EXCEPT !.pc = "job", !.root = image[run[r].opt.tag],
                                 !.pulled = image[run[r].opt.tag]]
  <2>1. l.pc = "job" /\ l.fell = run[r].fell /\ l.prof = run[r].prof
    BY <1>0 DEF Local
  <2> HIDE DEF l
  <2>2. Anew(l)  BY <1>0, <1>2, <2>1 DEF Pull, Anew
  <2>3. Become(r, l)  BY <1>2 DEF Pull, l
  <2> QED  BY <2>2, <2>3, BecomeAnew
<1>3. CASE Place(r)
  <2> DEFINE l == [run[r] EXCEPT !.pc = "job", !.root = run[r].prof.entries]
  <2>1. l.pc = "job" /\ l.fell = run[r].fell /\ l.prof = run[r].prof
    BY <1>0 DEF Local
  <2> HIDE DEF l
  <2>2. Anew(l)  BY <1>0, <1>3, <2>1 DEF Place, Anew
  <2>3. Become(r, l)  BY <1>3 DEF Place, l
  <2> QED  BY <2>2, <2>3, BecomeAnew
<1>4. CASE PlaceFails(r)
  <2>1. Anew([run[r] EXCEPT !.pc = "failed"])  BY <1>0 DEF Local, Anew
  <2> QED  BY <1>4, <2>1, BecomeAnew DEF PlaceFails
<1>5. CASE Job(r)
  <2>1. PICK o \in Outcome(run[r].root) :
          Become(r, [run[r] EXCEPT !.pc = "record", !.root = o.tree, !.exit = o.exit,
                                   !.todo = IF run[r].opt.trace THEN o.touched ELSE {}])
    BY <1>5 DEF Job
  <2> DEFINE l == [run[r] EXCEPT !.pc = "record", !.root = o.tree, !.exit = o.exit,
                                 !.todo = IF run[r].opt.trace THEN o.touched ELSE {}]
  <2>2. l.pc = "record" /\ l.fell = run[r].fell /\ l.prof = run[r].prof
    BY <1>0 DEF Local
  <2>3. Become(r, l)  BY <2>1
  <2> HIDE DEF l
  <2>4. run[r].fell => Named(l.prof.entries) = {}
    BY <1>0, <1>5, <2>2 DEF Job, Anew, EmptyTree, Named
  <2>5. Anew(l)  BY <2>2, <2>4 DEF Anew
  <2> QED  BY <2>3, <2>5, BecomeAnew
<1>6. ASSUME NEW q \in Path, Record(r, q)  PROVE AnewInv'
  <2>1. CASE run[r].root[q] = None
    <3> DEFINE l == [run[r] EXCEPT !.todo = @ \ {q}]
    <3>1. /\ l.pc = run[r].pc /\ l.fell = run[r].fell /\ l.prof = run[r].prof
          /\ l.root = run[r].root
      BY <1>0 DEF Local
    <3>2. Become(r, l)  BY <1>6, <2>1 DEF Record
    <3> HIDE DEF l
    <3>3. Anew(l)  BY <1>0, <3>1 DEF Anew, Named
    <3> QED  BY <3>2, <3>3, BecomeAnew
  <2>2. CASE run[r].root[q] # None
    <3> DEFINE c == run[r].root[q]
               e == [run[r].prof.entries EXCEPT ![q] = c]
               l == [run[r] EXCEPT !.todo = @ \ {q}, !.prof.entries[q] = c]
    <3>1. run[r].prof \in Profile /\ run[r].pc = "record"
      BY <1>0, <1>6 DEF Record, ActiveOK, Active
    <3>2. /\ l.pc = "record" /\ l.fell = run[r].fell /\ l.prof.entries = e
          /\ l.root = run[r].root
      BY <1>0, <3>1 DEF Local, Profile
    <3>3. Become(r, l)  BY <1>6, <2>2 DEF Record
    <3>4. run[r].prof.entries \in Tree  BY <3>1 DEF Profile
    <3>5. e[q] = run[r].root[q] /\ \A p \in Path \ {q} : e[p] = run[r].prof.entries[p]
      BY <3>4 DEF Tree
    <3> HIDE DEF l, e
    <3>6. Anew(l)  BY <1>0, <3>1, <3>2, <3>5 DEF Anew, Named
    <3> QED  BY <3>3, <3>6, BecomeAnew
  <2> QED  BY <2>1, <2>2
<1>7. ASSUME NEW q \in Path, RecordFails(r, q)  PROVE AnewInv'
  <2> DEFINE l == [run[r] EXCEPT !.todo = @ \ {q}]
  <2>1. /\ l.pc = run[r].pc /\ l.fell = run[r].fell /\ l.prof = run[r].prof
        /\ l.root = run[r].root
    BY <1>0 DEF Local
  <2>2. Become(r, l)  BY <1>7 DEF RecordFails
  <2> HIDE DEF l
  <2>3. Anew(l)  BY <1>0, <2>1 DEF Anew, Named
  <2> QED  BY <2>2, <2>3, BecomeAnew
<1>8. CASE FallBack(r)
  <2> DEFINE e == [NewProfile(run[r].opt.tag) EXCEPT !.runs = run[r].prof.runs]
             l == [run[r] EXCEPT !.pc = "prepare", !.mode = "cold", !.fell = TRUE, !.prof = e]
  <2>1. e.entries = EmptyTree  BY DEF NewProfile
  <2>2. Become(r, l)  BY <1>8 DEF FallBack
  <2> HIDE DEF e
  <2>3. l.prof = e /\ l.pc = "prepare"  BY <1>0 DEF Local
  <2> HIDE DEF l
  <2>4. Anew(l)  BY <2>1, <2>3 DEF Anew
  <2> QED  BY <2>2, <2>4, BecomeAnew
<1>9. CASE Save(r)
  <2>1. Anew([run[r] EXCEPT !.pc = "done"])  BY <1>0 DEF Local, Anew
  <2> QED  BY <1>9, <2>1, BecomeAnew DEF Save
<1>10. CASE Abort(r)
  <2>1. Anew([Idle EXCEPT !.pc = "failed"])  BY DEF Anew, Idle
  <2> QED  BY <1>10, <2>1, BecomeAnew DEF Abort
<1> QED
  BY <1>1, <1>2, <1>3, <1>4, <1>5, <1>6, <1>7, <1>8, <1>9, <1>10 DEF Step

\* What a run that fell back saves is the root of its cold job: no entry of the profile
\* that failed survives it, whatever overlapping runs and moving tags do meanwhile.
THEOREM FallBackForgets == Spec => StartsOver
<1>1. Init => AnewInv
  BY DEF Init, AnewInv, Anew, Idle
<1>2. TypeInv /\ AnewInv /\ [Next]_vars => AnewInv'
  <2> SUFFICES ASSUME TypeInv, AnewInv, [Next]_vars  PROVE AnewInv'
    OBVIOUS
  <2>1. ASSUME NEW r \in Run, Step(r) \/ Abort(r)  PROVE AnewInv'
    BY <2>1, AnewStep
  <2>2. run' = run => AnewInv'  BY DEF AnewInv, Anew, Named
  <2> QED  BY <2>1, <2>2 DEF Next, FixedNext, Evict, Retag, vars
<1>3. TypeInv /\ AnewInv /\ [Next]_vars =>
        [\A r \in Run : SavedBy(r) /\ run[r].fell =>
           \A q \in Named(disk'.entries) : disk'.entries[q] = run[r].root[q]]_vars
  <2> SUFFICES ASSUME TypeInv, AnewInv, [Next]_vars, NEW r \in Run, SavedBy(r), run[r].fell,
                      NEW q \in Named(disk'.entries)
               PROVE  disk'.entries[q] = run[r].root[q]
    OBVIOUS
  <2>1. ASSUME NEW s \in Run, Step(s) \/ Abort(s)  PROVE Save(r)
    BY <2>1, OnlySaveEnds
  <2>2. ASSUME Save(r)  PROVE disk'.entries[q] = run[r].root[q]
    <3>1. run[r].pc = "record" /\ run[r].prof \in Profile
      BY <2>2 DEF Save, TypeInv, LocalOK, Active
    <3>2. disk'.entries = run[r].prof.entries  BY <2>2, <3>1 DEF Save, Profile
    <3> QED  BY <3>1, <3>2 DEF AnewInv, Anew
  <2>3. run' # run  BY DEF SavedBy
  <2> QED  BY <2>1, <2>2, <2>3 DEF Next, FixedNext, Evict, Retag, vars
<1> QED  BY TypeInit, TypeNext, <1>1, <1>2, <1>3, PTL DEF Spec, StartsOver
=============================================================================
