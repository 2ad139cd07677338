---------------------------- MODULE RootfsProofs ----------------------------
(* What is proved of Rootfs, for trees of any size and shape. *)
EXTENDS Rootfs, SequenceTheorems, TLAPS

-----------------------------------------------------------------------------
(* Paths and the directories above them *)

\* What a walk that has got to cur has entered.
Entered(cur) == Above(cur) \cup (IF cur = <<>> THEN {} ELSE {cur})

\* A path above a path is another path, and above it are no others.
LEMMA AboveAbove ==
  ASSUME NEW p \in Seq(Name), NEW q \in Above(p)
  PROVE  q \in Path /\ q # p /\ Above(q) \subseteq Above(p)
<1>1. PICK i \in 1..(Len(p) - 1) : q = SubSeq(p, 1, i)
  BY DEF Above
<1>2. q \in Seq(Name) /\ Len(q) = i /\ \A j \in 1..i : q[j] = p[j]
  BY <1>1
<1>3. q \in Path /\ q # p
  BY <1>2 DEF Path
<1>4. ASSUME NEW x \in Above(q) PROVE x \in Above(p)
  <2>1. PICK j \in 1..(i - 1) : x = SubSeq(q, 1, j)
    BY <1>2, <1>4 DEF Above
  <2>2. x = SubSeq(p, 1, j)
    BY <2>1, <1>1, <1>2
  <2> QED
    BY <2>2 DEF Above
<1> QED
  BY <1>3, <1>4

\* Above a step further is what was entered so far.
LEMMA AboveAppend ==
  ASSUME NEW s \in Seq(Name), NEW n \in Name
  PROVE  Append(s, n) \in Path /\ Above(Append(s, n)) = Entered(s)
<1> DEFINE a == Append(s, n)
<1>1. a \in Path /\ Len(a) = Len(s) + 1
  <2>1. a \in Seq(Name) /\ Len(a) = Len(s) + 1 /\ Len(s) \in Nat
    OBVIOUS
  <2>2. a # <<>>
    BY <2>1
  <2> QED
    BY <2>1, <2>2 DEF Path
<1>2. \A i \in 1..Len(s) : SubSeq(a, 1, i) = SubSeq(s, 1, i)
  OBVIOUS
<1>3. SubSeq(s, 1, Len(s)) = s
  OBVIOUS
<1>4. Above(a) = {SubSeq(s, 1, i) : i \in 1..Len(s)}
  BY <1>1, <1>2 DEF Above
<1>5. CASE s = <<>>
  <2>1. 1..Len(s) = {} /\ 1..(Len(s) - 1) = {}
    BY <1>5
  <2>2. Above(a) = {} /\ Above(s) = {}
    BY <2>1, <1>4 DEF Above
  <2> QED
    BY <2>2, <1>1, <1>5 DEF Entered
<1>6. CASE s # <<>>
  <2>1. 1..Len(s) = 1..(Len(s) - 1) \cup {Len(s)}
    BY <1>6
  <2>2. Above(a) = Above(s) \cup {s}
    BY <2>1, <1>3, <1>4 DEF Above
  <2> QED
    BY <2>2, <1>1, <1>6 DEF Entered
<1> QED
  BY <1>1, <1>5, <1>6

\* ".." leads back to what was entered before.
LEMMA EnteredFront ==
  ASSUME NEW s \in Seq(Name), s # <<>>
  PROVE  Front(s) \in Seq(Name) /\ Entered(Front(s)) \subseteq Entered(s)
<1> DEFINE f == SubSeq(s, 1, Len(s) - 1)
<1>1. f = Front(s)
  BY DEF Front
<1>2. f \in Seq(Name) /\ Len(f) = Len(s) - 1
  <2>1. Len(s) \in Nat \ {0}
    BY EmptySeq
  <2> QED
    BY <2>1
<1>3. f # <<>> => f \in Above(s)
  <2>1. ASSUME f # <<>> PROVE Len(s) - 1 \in 1..(Len(s) - 1)
    BY <1>2, <2>1
  <2> QED
    BY <2>1 DEF Above
<1>4. \A i \in 1..(Len(f) - 1) : SubSeq(f, 1, i) = SubSeq(s, 1, i)
  BY <1>2
<1>5. Above(f) \subseteq Above(s)
  BY <1>2, <1>4 DEF Above
<1> QED
  BY <1>1, <1>2, <1>3, <1>5 DEF Entered

-----------------------------------------------------------------------------
(* Types *)

\* What the kind of a path tells.
LEMMA Kinds ==
  ASSUME NEW t, IsTree(t), NEW p, Kind(t, p) # "none"
  PROVE  /\ p \in DOMAIN t /\ t[p] \in Node /\ t[p].kind = Kind(t, p)
         /\ Kind(t, p) = "dir" => t[p] = Dir
         /\ Kind(t, p) = "link" => t[p] \in Entry /\ t[p].to \in Ref
         /\ Kind(t, p) = "file" => t[p] \in Entry /\ t[p].content \in Content
<1>1. p \in DOMAIN t /\ t[p] \in Node /\ t[p].kind = Kind(t, p)
  BY DEF Kind, IsTree
<1> QED
  BY <1>1 DEF Node, Entry, Dir, Special

\* A replayed entry fits into the tree it is placed in.
LEMMA PlaceTree ==
  ASSUME TypeOK, NEW p \in todo, Place(p)
  PROVE  IsTree(root')
<1>1. p \in Path /\ p \in Seq(Name) /\ profile[p] \in Entry
  BY DEF TypeOK, Path
<1>2. \A q \in Above(p) : q \in Path /\ q # p /\ Above(q) \subseteq Above(p)
  BY <1>1, AboveAbove
<1>3. /\ DOMAIN root' = DOMAIN root \cup Above(p) \cup {p}
      /\ \A q \in DOMAIN root' :
           root'[q] = IF q = p THEN profile[p] ELSE IF q \in DOMAIN root THEN root[q] ELSE Dir
  BY DEF Place
<1>4. \A q \in DOMAIN root : q \in Path /\ root[q] \in Node /\ \A x \in Above(q) : Kind(root, x) = "dir"
  BY DEF TypeOK, IsTree
<1>5. \A x : Kind(root, x) = "dir" => x \in DOMAIN root /\ root[x] = Dir
  <2> TAKE x
  <2> QED
    BY Kinds DEF TypeOK
<1>6. \A x \in Above(p) : root'[x] = Dir
  <2> TAKE x \in Above(p)
  <2>1. Kind(root, x) \in {"none", "dir"}
    BY DEF Place, Blocked
  <2>2. CASE x \in DOMAIN root
    <3>1. Kind(root, x) = root[x].kind /\ root[x] \in Node
      BY <2>2, <1>4 DEF Kind
    <3>2. root[x].kind # "none"
      BY <3>1 DEF Node, Entry, Dir, Special
    <3> QED
      BY <3>1, <3>2, <2>1, <2>2, <1>2, <1>3, <1>5
  <2>3. CASE x \notin DOMAIN root
    BY <2>3, <1>2, <1>3
  <2> QED
    BY <2>2, <2>3
<1>7. \A x \in DOMAIN root : root[x] = Dir => root'[x] = Dir
  <2> TAKE x \in DOMAIN root
  <2>1. x = p => profile[p] = Dir
    BY DEF Place, Blocked
  <2> QED
    BY <2>1, <1>3
<1>8. Dir.kind = "dir" /\ Dir \in Node
  BY DEF Dir, Node, Entry
<1>9. ASSUME NEW q \in DOMAIN root'
      PROVE  q \in Path /\ root'[q] \in Node /\ \A x \in Above(q) : Kind(root', x) = "dir"
  <2>1. q \in Path /\ root'[q] \in Node
    BY <1>1, <1>2, <1>3, <1>4, <1>8 DEF Node
  <2>2. ASSUME NEW x \in Above(q) PROVE x \in DOMAIN root' /\ root'[x] = Dir
    <3>1. CASE q \in DOMAIN root
      BY <3>1, <2>2, <1>3, <1>4, <1>5, <1>7
    <3>2. CASE q \in Above(p) \cup {p}
      BY <3>2, <2>2, <1>2, <1>3, <1>6
    <3> QED
      BY <3>1, <3>2, <1>3
  <2> QED
    BY <2>1, <2>2, <1>8 DEF Kind
<1> QED
  BY <1>9 DEF IsTree

\* The entry a walk keeps is where a path can be, and of a kind a profile can hold.
LEMMA KeepType ==
  ASSUME TypeOK, NEW p \in Path, NEW e \in Entry, Keep(p, e)
  PROVE  /\ \A q \in DOMAIN profile' : q \in Path /\ profile'[q] \in Entry
         /\ DOMAIN profile' = DOMAIN profile \cup {p}
         /\ profile'[p] = e
         /\ \A q \in DOMAIN profile : q # p => profile'[q] = profile[q]
BY DEF Keep, TypeOK

\* A step of replaying keeps the types.
LEMMA TypeReplay == TypeOK /\ Replay => TypeOK'
<1> SUFFICES ASSUME TypeOK, Replay PROVE TypeOK'
  OBVIOUS
<1>0. IsTree(EmptyTree)
  BY DEF IsTree, EmptyTree
<1>1. CASE StartReplay
  BY <1>0, <1>1 DEF StartReplay, TypeOK
<1>2. CASE Replayed
  BY <1>2 DEF Replayed, TypeOK
<1>3. ASSUME NEW p \in todo, Place(p) PROVE TypeOK'
  BY <1>3, PlaceTree DEF Place, TypeOK
<1>4. ASSUME NEW p \in todo, Stray(p) PROVE TypeOK'
  BY <1>0, <1>4 DEF Stray, TypeOK
<1> QED
  BY <1>1, <1>2, <1>3, <1>4 DEF Replay

\* Where a walk stands.
LEMMA HereType ==
  ASSUME TypeOK, Meets
  PROVE  /\ walk \in Walk /\ walk.cur \in Seq(Name) /\ walk.rest \in Seq(Part)
         /\ Tail(walk.rest) \in Seq(Part) /\ Head(walk.rest) \in Name
         /\ Here \in Path /\ Here \in Seq(Name) /\ Above(Here) = Entered(walk.cur)
<1>1. walk \in Walk /\ walk.rest # <<>> /\ Head(walk.rest) \in Name
  BY DEF TypeOK, Meets, Walking
<1>2. walk.cur \in Seq(Name) /\ walk.rest \in Seq(Part)
  BY <1>1 DEF Walk
<1>3. Tail(walk.rest) \in Seq(Part)
  BY <1>1, <1>2
<1>4. Here \in Path /\ Above(Here) = Entered(walk.cur)
  BY <1>1, <1>2, AboveAppend DEF Here
<1> QED
  BY <1>1, <1>2, <1>3, <1>4 DEF Path

\* A walk that starts is a walk.
LEMMA StartType ==
  ASSUME NEW ref \in Ref, NEW depth \in 0..MaxDepth
  PROVE  Start(ref, depth) \in Walk
<1>1. 0 \in 0..MaxHops /\ <<>> \in Seq(Name) /\ ref.parts \in Seq(Part)
  BY BoundAssumption DEF Ref
<1> QED
  BY <1>1 DEF Start, Walk

\* A walk that goes on is a walk.
LEMMA GoesOn ==
  ASSUME TypeOK, Dots \/ EnterDir \/ FollowLink
  PROVE  walk' \in Walk
<1>1. /\ walk \in Walk /\ walk.rest # <<>> /\ walk.cur \in Seq(Name)
      /\ walk.rest \in Seq(Part) /\ Tail(walk.rest) \in Seq(Part) /\ walk.hops \in 0..MaxHops
  BY DEF Dots, EnterDir, FollowLink, Meets, Walking, TypeOK, Walk
<1>2. CASE Dots
  <2>1. walk.cur # <<>> => Front(walk.cur) \in Seq(Name)
    BY <1>1, EnteredFront
  <2> QED
    BY <1>1, <1>2, <2>1 DEF Dots, Walk
<1>3. CASE EnterDir
  <2>1. Here \in Seq(Name)
    BY <1>3, HereType DEF EnterDir
  <2> QED
    BY <1>1, <1>3, <2>1 DEF EnterDir, Walk
<1>4. CASE FollowLink
  <2> DEFINE cur == IF root[Here].to.abs THEN <<>> ELSE walk.cur
             rest == root[Here].to.parts \o Tail(walk.rest)
  <2>1. root[Here].to \in Ref
    BY <1>4, Kinds DEF FollowLink, TypeOK
  <2>2. cur \in Seq(Name) /\ rest \in Seq(Part) /\ walk.hops + 1 \in 0..MaxHops
    BY <1>1, <1>4, <2>1, BoundAssumption DEF FollowLink, Ref
  <2>3. walk' = [walk EXCEPT !.hops = @ + 1, !.rest = rest, !.cur = cur]
    BY <1>4 DEF FollowLink
  <2> HIDE DEF cur, rest
  <2> QED
    BY <1>1, <2>2, <2>3 DEF Walk
<1> QED
  BY <1>2, <1>3, <1>4

\* A step of recording keeps the types.
LEMMA TypeRecord == TypeOK /\ Record => TypeOK'
<1> SUFFICES ASSUME TypeOK, Record PROVE TypeOK'
  OBVIOUS
<1>1. ASSUME NEW ref \in Observed, Ask(ref) PROVE TypeOK'
  <2>1. ref \in Ref /\ 0 \in 0..MaxDepth
    BY ObservedAssumption, BoundAssumption
  <2>2. walk' \in Walk
    BY <2>1, <1>1, StartType DEF Ask
  <2> QED
    BY <1>1, <2>2 DEF Ask, TypeOK
<1>2. CASE Dots
  BY <1>2, GoesOn DEF Dots, TypeOK
<1>3. CASE Dropped
  BY <1>3 DEF Dropped, TypeOK
<1>4. CASE FollowLink
  <2>1. Meets /\ Kind(root, Here) = "link" /\ IsTree(root)
    BY <1>4 DEF FollowLink, TypeOK
  <2>2. root[Here] \in Entry /\ root[Here].to \in Ref
    BY <2>1, Kinds
  <2>3. Here \in Path
    BY <2>1, HereType
  <2>4. \A q \in DOMAIN profile' : q \in Path /\ profile'[q] \in Entry
    BY <2>2, <2>3, <1>4, KeepType DEF FollowLink
  <2>5. todo' \subseteq DOMAIN profile'
    BY <2>2, <2>3, <1>4, KeepType DEF FollowLink, TypeOK
  <2> QED
    BY <1>4, <2>4, <2>5, GoesOn DEF FollowLink, TypeOK
<1>5. CASE TooManyHops
  BY <1>5 DEF TooManyHops, TypeOK
<1>6. CASE EnterDir
  <2>1. Meets
    BY <1>6 DEF EnterDir
  <2>2. Here \in Path
    BY <2>1, HereType
  <2>3. Dir \in Entry
    BY DEF Entry
  <2>4. \A q \in DOMAIN profile' : q \in Path /\ profile'[q] \in Entry
    BY <2>2, <2>3, <1>6, KeepType DEF EnterDir
  <2>5. todo' \subseteq DOMAIN profile'
    BY <2>2, <2>3, <1>6, KeepType DEF EnterDir, TypeOK
  <2> QED
    BY <1>6, <2>4, <2>5, GoesOn DEF EnterDir, TypeOK
<1>7. CASE KeepFile
  <2>1. Meets /\ Kind(root, Here) = "file" /\ IsTree(root)
    BY <1>7 DEF KeepFile, TypeOK
  <2>2. root[Here] \in Entry /\ root[Here].content \in Content
    BY <2>1, Kinds
  <2>3. walk \in Walk /\ Here \in Path /\ Here \in Seq(Name) /\ walk.ref \in Ref
    BY <2>1, HereType DEF Walk
  <2>4. walk' \in Walk \cup {None}
    <3>1. CASE walk' = None
      BY <3>1
    <3>2. CASE walk' # None
      <4> DEFINE loader == Loader[root[Here].content]
      <4>1. /\ loader # None /\ walk.depth < MaxDepth
            /\ walk' = Start(loader, walk.depth + 1)
        BY <3>2, <1>7 DEF KeepFile, AfterFile
      <4>2. loader \in Ref /\ walk.depth + 1 \in 0..MaxDepth
        BY <4>1, <2>2, <2>3, LoaderAssumption, BoundAssumption DEF Walk
      <4> QED
        BY <4>1, <4>2, StartType
    <3> QED
      BY <3>1, <3>2
  <2>5. \A q \in DOMAIN profile' : q \in Path /\ profile'[q] \in Entry
    BY <2>2, <2>3, <1>7, KeepType DEF KeepFile
  <2>6. todo' \subseteq DOMAIN profile'
    BY <2>2, <2>3, <1>7, KeepType DEF KeepFile, TypeOK
  <2>7. \A l \in learned' : l \in [ref : Ref, at : Seq(Name)]
    BY <2>3, <1>7 DEF KeepFile, TypeOK
  <2> QED
    BY <1>7, <2>4, <2>5, <2>6, <2>7 DEF KeepFile, TypeOK
<1>8. CASE ReadFails
  BY <1>8 DEF ReadFails, TypeOK
<1>9. CASE Arrived
  <2>1. walk.ref \in Ref /\ walk.cur \in Seq(Name)
    BY <1>9 DEF Arrived, TypeOK, Walk
  <2> QED
    BY <1>9, <2>1 DEF Arrived, TypeOK
<1> QED
  BY <1>1, <1>2, <1>3, <1>4, <1>5, <1>6, <1>7, <1>8, <1>9 DEF Record

\* Nothing is left to replay or to walk once that part of a run is over.
Resting == (pc # "replay" => todo = {}) /\ (pc # "record" => walk = None)

TypeInv == TypeOK /\ Resting

\* A run goes from one part to the next when the former is done.
LEMMA RestingNext == Resting /\ [Next]_vars => Resting'
<1> SUFFICES ASSUME Resting, [Next]_vars PROVE Resting'
  OBVIOUS
<1>1. CASE Replay
  BY <1>1 DEF Replay, StartReplay, Replayed, Place, Stray, Resting
<1>2. CASE Record
  BY <1>2 DEF Record, Ask, Dots, Dropped, FollowLink, TooManyHops, EnterDir, KeepFile, ReadFails,
    Arrived, Meets, Walking, Resting
<1>3. CASE Unpack \/ Job \/ Finish \/ StartOver \/ Retag \/ UNCHANGED vars
  BY <1>3 DEF Unpack, Job, Finish, StartOver, Retag, vars, Resting
<1> QED
  BY <1>1, <1>2, <1>3 DEF Next

\* Every step keeps the types.
LEMMA TypeNext == TypeInv /\ [Next]_vars => TypeInv'
<1> SUFFICES ASSUME TypeOK, Resting, [Next]_vars PROVE TypeOK'
  BY RestingNext DEF TypeInv
<1>0. IsTree(EmptyTree) /\ DOMAIN EmptyTree = {}
  BY DEF IsTree, EmptyTree
<1>1. CASE Replay
  BY <1>1, TypeReplay
<1>2. CASE Record
  BY <1>2, TypeRecord
<1>3. CASE Unpack
  BY <1>3, ImageAssumption DEF Unpack, TypeOK
<1>4. CASE Job
  <2>1. IsTree(root')
    BY <1>4, ImageAssumption DEF Job, TypeOK
  <2>2. moved' \in BOOLEAN
    BY <1>4 DEF Job, TypeOK, AtOdds
  <2> QED
    BY <1>4, <2>1, <2>2 DEF Job, TypeOK
<1>5. CASE Finish
  BY <1>0, <1>5 DEF Finish, TypeOK
<1>6. CASE StartOver
  BY <1>0, <1>6 DEF StartOver, TypeOK, Resting
<1>7. CASE Retag
  BY <1>7 DEF Retag, TypeOK
<1>8. CASE UNCHANGED vars
  BY <1>8 DEF vars, TypeOK
<1> QED
  BY <1>1, <1>2, <1>3, <1>4, <1>5, <1>6, <1>7, <1>8 DEF Next

\* The types hold before the first run.
LEMMA TypeInit == Init => TypeInv
<1>1. IsTree(EmptyTree) /\ DOMAIN EmptyTree = {}
  BY DEF IsTree, EmptyTree
<1> QED
  BY <1>1 DEF Init, TypeInv, TypeOK, Resting

\* Roots stay trees, walks stay within their limits and profiles hold only what can be
\* replayed, whatever the images, links and observations.
THEOREM Typing == Spec => []TypeOK
<1>1. TypeInv => TypeOK
  BY DEF TypeInv
<1> QED
  BY <1>1, TypeInit, TypeNext, PTL DEF Spec

-----------------------------------------------------------------------------
(* Replaying a profile *)

\* The profile knows q as a directory.
Known(q) == q \in DOMAIN profile /\ profile[q] = Dir

\* What a profile names, it can reach.
Rooted == \A p \in DOMAIN profile : \A q \in Above(p) : Known(q)

\* A walk has kept every directory it entered.
OnTheWay == walk # None => \A q \in Entered(walk.cur) : Known(q)

\* A walk meets nothing that contradicts the profile.
Agreeing == pc = "record" => ~AtOdds(root)

\* A root under construction is the part of the profile that has been replayed.
Replaying ==
  pc = "replay" =>
    /\ DOMAIN root = DOMAIN profile \ todo
    /\ \A q \in DOMAIN root : root[q] = profile[q]

Steady == Rooted /\ OnTheWay /\ Agreeing /\ Replaying

IInv == TypeInv /\ (~moved => Steady)

\* A walk that starts has entered nothing.
LEMMA EnteredNone == Entered(<<>>) = {}
<1>1. 1..(Len(<<>>) - 1) = {}
  OBVIOUS
<1> QED
  BY <1>1 DEF Entered, Above

\* Keeping what is there agrees with all that was kept before.
LEMMA KeepSteady ==
  ASSUME TypeOK, Rooted, OnTheWay, ~AtOdds(root), Meets,
         Here \in DOMAIN root, root[Here] \in Entry, Keep(Here, root[Here]), UNCHANGED root
  PROVE  /\ Rooted' /\ ~AtOdds(root)' /\ profile'[Here] = root[Here]
         /\ Here \in DOMAIN profile'
         /\ \A q : Known(q) => q \in DOMAIN profile' /\ profile'[q] = Dir
<1>1. Here \in Path /\ Above(Here) = Entered(walk.cur) /\ walk # None
  BY HereType DEF Meets, Walking
<1>2. /\ DOMAIN profile' = DOMAIN profile \cup {Here}
      /\ profile'[Here] = root[Here]
      /\ \A q \in DOMAIN profile : q # Here => profile'[q] = profile[q]
  BY <1>1, KeepType
<1>3. \A q : Known(q) => q \in DOMAIN profile' /\ profile'[q] = Dir
  <2> SUFFICES ASSUME NEW q, Known(q) PROVE q \in DOMAIN profile' /\ profile'[q] = Dir
    OBVIOUS
  <2>1. q \in DOMAIN profile /\ profile[q] = Dir /\ Dir.kind = "dir"
    BY DEF Known, Dir
  <2>2. q = Here => root[Here] = Dir
    BY <2>1 DEF AtOdds
  <2> QED
    BY <2>1, <2>2, <1>2
<1>4. Rooted'
  <2> SUFFICES ASSUME NEW p \in DOMAIN profile', NEW q \in Above(p)
               PROVE  q \in DOMAIN profile' /\ profile'[q] = Dir
    BY DEF Rooted, Known
  <2>1. CASE p = Here
    BY <2>1, <1>1, <1>3 DEF OnTheWay
  <2>2. CASE p # Here
    BY <2>2, <1>2, <1>3 DEF Rooted
  <2> QED
    BY <2>1, <2>2
<1>5. ~AtOdds(root)'
  <2> SUFFICES ASSUME NEW p \in DOMAIN profile' \cap DOMAIN root, root[p] # profile'[p]
               PROVE  root[p].kind = "file" /\ profile'[p].kind = "file"
    BY DEF AtOdds
  <2>1. p # Here /\ p \in DOMAIN profile /\ profile'[p] = profile[p]
    BY <1>2
  <2> QED
    BY <2>1 DEF AtOdds
<1> QED
  BY <1>2, <1>3, <1>4, <1>5

\* A step of a walk keeps what it has entered reachable.
LEMMA SteadyRecord ==
  ASSUME IInv, Record, ~moved'
  PROVE  Steady'
<1>1. pc = "record" /\ pc' = "record" /\ UNCHANGED <<root, moved>>
  BY DEF Record, Ask, Dots, Dropped, FollowLink, TooManyHops, EnterDir, KeepFile, ReadFails,
    Arrived, Meets, Walking
<1>2. TypeOK /\ Rooted /\ OnTheWay /\ ~AtOdds(root) /\ IsTree(root)
  BY <1>1 DEF IInv, TypeInv, TypeOK, Steady, Agreeing
<1>3. Replaying'
  BY <1>1 DEF Replaying
<1>4. ASSUME UNCHANGED profile, walk' # None => \A q \in Entered(walk'.cur) : Known(q)
      PROVE  Steady'
  <2>1. Rooted' /\ Agreeing'
    BY <1>1, <1>2, <1>4 DEF Rooted, Known, Agreeing, AtOdds
  <2>2. OnTheWay'
    BY <1>4 DEF OnTheWay, Known
  <2> QED
    BY <2>1, <2>2, <1>3 DEF Steady
<1>5. ASSUME Meets, Here \in DOMAIN root, root[Here] \in Entry, Keep(Here, root[Here]),
             walk' # None => \A q \in Entered(walk'.cur) :
               Known(q) \/ (q = Here /\ root[Here] = Dir)
      PROVE  Steady'
  <2>1. /\ Rooted' /\ ~AtOdds(root)' /\ profile'[Here] = root[Here]
        /\ Here \in DOMAIN profile'
        /\ \A q : Known(q) => q \in DOMAIN profile' /\ profile'[q] = Dir
    BY <1>1, <1>2, <1>5, KeepSteady
  <2>2. OnTheWay'
    BY <1>5, <2>1 DEF OnTheWay, Known
  <2>3. Agreeing'
    BY <2>1 DEF Agreeing
  <2> QED
    BY <2>1, <2>2, <2>3, <1>3 DEF Steady
<1>6. ASSUME NEW ref \in Observed, Ask(ref) PROVE Steady'
  BY <1>4, <1>6, EnteredNone DEF Ask, Start
<1>7. CASE Dots
  <2>1. walk # None /\ walk \in Walk
    BY <1>2, <1>7 DEF Dots, Walking, TypeOK
  <2>2. walk.cur \in Seq(Name)
    BY <2>1 DEF Walk
  <2>3. walk'.cur = IF Head(walk.rest) = ".." /\ walk.cur # <<>> THEN Front(walk.cur) ELSE walk.cur
    BY <1>7, <2>1 DEF Dots, Walk
  <2>4. Entered(walk'.cur) \subseteq Entered(walk.cur)
    BY <2>2, <2>3, EnteredFront
  <2> QED
    BY <2>1, <2>4, <1>2, <1>4, <1>7 DEF Dots, OnTheWay
<1>8. CASE Dropped \/ TooManyHops \/ ReadFails \/ Arrived
  BY <1>4, <1>8 DEF Dropped, TooManyHops, ReadFails, Arrived
<1>9. CASE FollowLink
  <2>1. Meets /\ Here \in DOMAIN root /\ root[Here] \in Entry /\ walk # None /\ walk \in Walk
    BY <1>2, <1>9, Kinds, HereType DEF FollowLink, Meets, Walking
  <2>2. walk'.cur = <<>> \/ walk'.cur = walk.cur
    BY <1>9, <2>1 DEF FollowLink, Walk
  <2>3. \A q \in Entered(walk'.cur) : Known(q)
    BY <1>2, <2>1, <2>2, EnteredNone DEF OnTheWay
  <2> QED
    BY <1>5, <1>9, <2>1, <2>3 DEF FollowLink
<1>10. CASE EnterDir
  <2>1. /\ Meets /\ Here \in DOMAIN root /\ root[Here] = Dir /\ walk # None /\ walk \in Walk
        /\ Here \in Seq(Name) /\ Above(Here) = Entered(walk.cur) /\ Here \in Path
    BY <1>2, <1>10, Kinds, HereType DEF EnterDir, Meets, Walking
  <2>2. walk'.cur = Here /\ Dir \in Entry
    BY <1>10, <2>1 DEF EnterDir, Walk, Entry
  <2>3. Entered(Here) = Entered(walk.cur) \cup {Here}
    BY <2>1 DEF Entered, Path
  <2>4. \A q \in Entered(walk'.cur) : Known(q) \/ (q = Here /\ root[Here] = Dir)
    BY <1>2, <2>1, <2>2, <2>3 DEF OnTheWay
  <2> QED
    BY <1>5, <1>10, <2>1, <2>2, <2>4 DEF EnterDir
<1>11. CASE KeepFile
  <2>1. Meets /\ Here \in DOMAIN root /\ root[Here] \in Entry
    BY <1>2, <1>11, Kinds DEF KeepFile
  <2>2. walk' # None => walk'.cur = <<>>
    BY <1>11 DEF KeepFile, AfterFile, Start
  <2> QED
    BY <1>5, <1>11, <2>1, <2>2, EnteredNone DEF KeepFile
<1> QED
  BY <1>6, <1>7, <1>8, <1>9, <1>10, <1>11 DEF Record

\* While nothing has moved, an entry whose turn it is finds its directories and a free
\* place.
LEMMA Unhindered ==
  ASSUME IInv, ~moved, pc = "replay", NEW p \in todo, Ready(p)
  PROVE  ~Blocked(p) /\ p \notin DOMAIN root /\ \A q \in Above(p) : q \in DOMAIN root
<1>1. p \in DOMAIN profile /\ Rooted /\ Replaying
  BY DEF IInv, TypeInv, TypeOK, Steady
<1>2. p \notin DOMAIN root
  BY <1>1 DEF Replaying
<1>3. \A q \in Above(p) : q \in DOMAIN root /\ root[q] = Dir
  BY <1>1 DEF Ready, Replaying, Rooted, Known
<1>4. \A q \in Above(p) : Kind(root, q) = "dir"
  BY <1>3 DEF Kind, Dir
<1> QED
  BY <1>2, <1>3, <1>4 DEF Blocked

\* A step of replaying keeps the root a part of the profile.
LEMMA SteadyReplay ==
  ASSUME IInv, Replay, ~moved'
  PROVE  Steady'
<1>1. UNCHANGED <<profile, walk, moved>> /\ pc' # "record"
  BY DEF Replay, StartReplay, Replayed, Place, Stray
<1>2. Rooted' /\ OnTheWay' /\ Agreeing'
  BY <1>1 DEF IInv, Steady, Rooted, OnTheWay, Known, Agreeing
<1>3. StartReplay => Replaying'
  BY DEF StartReplay, Replaying, EmptyTree
<1>4. Replayed => Replaying'
  BY DEF Replayed, Replaying
<1>5. ASSUME NEW p \in todo, Place(p) PROVE Replaying'
  <2>1. pc = "replay" /\ Ready(p)
    BY <1>5 DEF Place
  <2>2. p \notin DOMAIN root /\ \A q \in Above(p) : q \in DOMAIN root
    BY <1>1, <2>1, Unhindered
  <2>3. /\ DOMAIN root' = DOMAIN root \cup {p}
        /\ \A q \in DOMAIN root' : root'[q] = IF q = p THEN profile[p] ELSE root[q]
    BY <1>5, <2>2 DEF Place
  <2>4. p \in DOMAIN profile /\ Replaying
    BY <1>1 DEF IInv, TypeInv, TypeOK, Steady
  <2> QED
    BY <1>5, <2>1, <2>2, <2>3, <2>4 DEF Place, Replaying
<1>6. ASSUME NEW p \in todo, Stray(p) PROVE Replaying'
  BY <1>1, <1>6, Unhindered DEF Stray
<1> QED
  BY <1>2, <1>3, <1>4, <1>5, <1>6 DEF Replay, Steady

\* Every step keeps the invariant.
LEMMA IInvNext == IInv /\ [Next]_vars => IInv'
<1> SUFFICES ASSUME IInv, [Next]_vars, ~moved' PROVE Steady'
  BY TypeNext DEF IInv
<1>1. CASE Replay
  BY <1>1, SteadyReplay
<1>2. CASE Record
  BY <1>2, SteadyRecord
<1>3. CASE Unpack \/ Finish \/ Retag
  BY <1>3 DEF Unpack, Finish, Retag, IInv, Steady, Rooted, OnTheWay, Known, Agreeing, Replaying
<1>4. CASE Job
  <2>1. ~moved /\ ~AtOdds(root') /\ UNCHANGED <<profile, walk>> /\ pc' = "record"
    BY <1>4 DEF Job
  <2>2. ~AtOdds(root)'
    BY <2>1 DEF AtOdds
  <2> QED
    BY <2>1, <2>2 DEF IInv, Steady, Rooted, OnTheWay, Known, Agreeing, Replaying
<1>5. CASE StartOver
  <2>1. DOMAIN profile' = {} /\ walk' = None /\ pc' = "idle"
    BY <1>5 DEF StartOver, EmptyTree, IInv, TypeInv, Resting
  <2> QED
    BY <2>1 DEF Steady, Rooted, OnTheWay, Agreeing, Replaying
<1>6. CASE UNCHANGED vars
  BY <1>6 DEF vars, IInv, Steady, Rooted, OnTheWay, Known, Agreeing, AtOdds, Replaying
<1> QED
  BY <1>1, <1>2, <1>3, <1>4, <1>5, <1>6 DEF Next

\* An empty profile is reachable.
LEMMA IInvInit == Init => IInv
<1> SUFFICES ASSUME Init PROVE Steady
  BY TypeInit DEF IInv
<1>1. DOMAIN profile = {} /\ walk = None /\ pc = "idle"
  BY DEF Init, EmptyTree
<1> QED
  BY <1>1 DEF Steady, Rooted, OnTheWay, Agreeing, Replaying

\* While directories and links stay what they were, every directory above an entry is
\* in the profile, and what a replay has built is exactly what it has replayed.
THEOREM ProfilesRooted == Spec => []IInv
BY IInvInit, IInvNext, PTL DEF Spec

\* Nothing stands in the way of a replay, and no directory has to be invented, for any
\* images, jobs and observations, until a directory or a link turns into something else.
THEOREM ReplaysUnhindered == Spec => []ReplayUnhindered
<1>1. IInv => ReplayUnhindered
  BY Unhindered DEF ReplayUnhindered
<1> QED
  BY <1>1, ProfilesRooted, PTL

-----------------------------------------------------------------------------
(* Resolving a reference *)

\* The steps of a resolution are After.  They lead to what is in every set that has the
\* start and is closed under them, and the end they lead to solves the recursion of
\* Resolve, whether it comes to an end or not: no induction is needed.

\* A set of places nobody leaves by a step in t.
Closed(t, S) ==
  \A x \in S : x.rest # <<>> /\ After(t, x) # None => After(t, x) \in S

\* Steps in t lead from x to y.
Leads(t, x, y) == \A S \in SUBSET Spot : x \in S /\ Closed(t, S) => y \in S

\* The ends steps in t lead to from x.
Ends(t, x) == {y \in Spot : y.rest = <<>> /\ Leads(t, x, y)}

\* What Resolve computes, by recursion.
Go(t) ==
  CHOOSE go : go = [x \in Spot |-> IF x.rest = <<>> THEN x.cur
                                   ELSE IF After(t, x) = None THEN None
                                   ELSE go[After(t, x)]]

\* The steps there are: past a ".", up, into what is next, and over a link.
Ahead(x) == Append(x.cur, Head(x.rest))
Past(x) == [x EXCEPT !.rest = Tail(@)]
Up(x) == [x EXCEPT !.cur = IF @ = <<>> THEN @ ELSE Front(@), !.rest = Tail(@)]
Into(x) == [x EXCEPT !.cur = Ahead(x), !.rest = Tail(@)]
Over(x, to) == [x EXCEPT !.cur = IF to.abs THEN <<>> ELSE @, !.rest = to.parts \o Tail(@),
                         !.hops = @ + 1]

\* Which of them is taken.
LEMMA AfterCases ==
  ASSUME NEW t, NEW x
  PROVE  /\ Head(x.rest) = "." => After(t, x) = Past(x)
         /\ Head(x.rest) = ".." => After(t, x) = Up(x)
         /\ Head(x.rest) \in Name =>
              /\ \/ Kind(t, Ahead(x)) = "dir"
                 \/ Kind(t, Ahead(x)) = "file" /\ Tail(x.rest) = <<>>
                 => After(t, x) = Into(x)
              /\ Kind(t, Ahead(x)) = "link" /\ x.hops < MaxHops =>
                   After(t, x) = Over(x, t[Ahead(x)].to)
              /\ \/ Kind(t, Ahead(x)) \in {"none", "special"}
                 \/ Kind(t, Ahead(x)) = "file" /\ Tail(x.rest) # <<>>
                 \/ Kind(t, Ahead(x)) = "link" /\ ~(x.hops < MaxHops)
                 => After(t, x) = None
<1> DEFINE meets == IF Head(x.rest) \in Name THEN Kind(t, Ahead(x)) ELSE Head(x.rest)
<1>1. After(t, x) = CASE meets = "." -> Past(x)
                      [] meets = ".." -> Up(x)
                      [] meets = "dir" \/ (meets = "file" /\ Tail(x.rest) = <<>>) -> Into(x)
                      [] meets = "link" /\ x.hops < MaxHops -> Over(x, t[Ahead(x)].to)
                      [] OTHER -> None
  BY DEF After, Ahead, Past, Up, Into, Over
<1>2. /\ Head(x.rest) \in {".", ".."} => meets = Head(x.rest)
      /\ Head(x.rest) \in Name => meets = Kind(t, Ahead(x))
  BY NameAssumption
<1> HIDE DEF meets
<1> QED
  BY <1>1, <1>2

\* They lead from a place to a place.
LEMMA StepTypes ==
  ASSUME NEW x \in Spot, x.rest # <<>>
  PROVE  /\ Past(x) \in Spot /\ Up(x) \in Spot
         /\ Head(x.rest) \in Name => Into(x) \in Spot
         /\ \A to \in Ref : x.hops < MaxHops => Over(x, to) \in Spot
<1>1. /\ x.cur \in Seq(Name) /\ x.rest \in Seq(Part) /\ x.hops \in 0..MaxHops
      /\ Tail(x.rest) \in Seq(Part)
  BY DEF Spot
<1>2. \A c \in Seq(Name), r \in Seq(Part), n \in 0..MaxHops :
        /\ [x EXCEPT !.rest = r] \in Spot
        /\ [x EXCEPT !.cur = c, !.rest = r] \in Spot
        /\ [x EXCEPT !.cur = c, !.rest = r, !.hops = n] \in Spot
  BY DEF Spot
<1>3. Past(x) \in Spot
  BY <1>1, <1>2 DEF Past
<1>4. Up(x) \in Spot
  <2> DEFINE up == IF x.cur = <<>> THEN x.cur ELSE Front(x.cur)
  <2>1. up \in Seq(Name)
    BY <1>1, EnteredFront
  <2>2. Up(x) = [x EXCEPT !.cur = up, !.rest = Tail(@)]
    BY DEF Up
  <2> HIDE DEF up
  <2> QED
    BY <1>1, <1>2, <2>1, <2>2
<1>5. ASSUME Head(x.rest) \in Name PROVE Into(x) \in Spot
  <2>1. Ahead(x) \in Seq(Name)
    BY <1>1, <1>5 DEF Ahead
  <2> QED
    BY <1>1, <1>2, <2>1 DEF Into
<1>6. ASSUME NEW to \in Ref, x.hops < MaxHops PROVE Over(x, to) \in Spot
  <2> DEFINE from == IF to.abs THEN <<>> ELSE x.cur
             rest == to.parts \o Tail(x.rest)
             hops == x.hops + 1
  <2>1. from \in Seq(Name) /\ rest \in Seq(Part) /\ hops \in 0..MaxHops
    BY <1>1, <1>6, BoundAssumption DEF Ref
  <2>2. Over(x, to) = [x EXCEPT !.cur = from, !.rest = rest, !.hops = hops]
    BY DEF Over
  <2> HIDE DEF from, rest, hops
  <2>3. [x EXCEPT !.cur = from, !.rest = rest, !.hops = hops] \in Spot
    BY <1>2, <2>1
  <2> QED
    BY <2>2, <2>3
<1> QED
  BY <1>3, <1>4, <1>5, <1>6

\* What a walk can meet.
LEMMA KindOf ==
  ASSUME NEW t, IsTree(t), NEW p
  PROVE  Kind(t, p) \in {"none", "special", "dir", "file", "link"}
BY DEF Kind, IsTree, Node, Entry, Dir, Special

LEMMA AfterType ==
  ASSUME NEW t, IsTree(t), NEW x \in Spot, x.rest # <<>>
  PROVE  After(t, x) \in Spot \cup {None}
<1>1. Head(x.rest) \in Part
  BY DEF Spot
<1>2. CASE Head(x.rest) \in {".", ".."}
  BY <1>2, AfterCases, StepTypes
<1>3. CASE Head(x.rest) \in Name
  <2>1. Kind(t, Ahead(x)) = "link" => t[Ahead(x)].to \in Ref
    BY Kinds
  <2>2. Kind(t, Ahead(x)) \in {"none", "special", "dir", "file", "link"}
    BY KindOf
  <2> QED
    BY <1>3, <2>1, <2>2, AfterCases, StepTypes
<1> QED
  BY <1>1, <1>2, <1>3 DEF Part

\* Where a step of it leads to, and no further.
LEMMA EndsAfter ==
  ASSUME NEW t, IsTree(t), NEW x \in Spot
  PROVE  /\ x.rest = <<>> => Ends(t, x) = {x}
         /\ x.rest # <<>> /\ After(t, x) = None => Ends(t, x) = {}
         /\ x.rest # <<>> /\ After(t, x) # None => Ends(t, x) = Ends(t, After(t, x))
<1>1. \A y \in Spot : (x.rest = <<>> \/ After(t, x) = None) /\ Leads(t, x, y) => y = x
  <2>1. x.rest = <<>> \/ After(t, x) = None => Closed(t, {x})
    BY DEF Closed
  <2> QED
    BY <2>1 DEF Leads
<1>2. Leads(t, x, x)
  BY DEF Leads
<1>3. ASSUME x.rest # <<>>, After(t, x) # None PROVE Ends(t, x) = Ends(t, After(t, x))
  <2>1. After(t, x) \in Spot
    BY <1>3, AfterType
  <2>2. ASSUME NEW y \in Spot, y.rest = <<>>, Leads(t, x, y) PROVE Leads(t, After(t, x), y)
    <3> SUFFICES ASSUME NEW S \in SUBSET Spot, After(t, x) \in S, Closed(t, S) PROVE y \in S
      BY DEF Leads
    <3>1. Closed(t, S \cup {x})
      BY DEF Closed
    <3>2. y \in S \cup {x}
      BY <3>1, <2>2 DEF Leads
    <3> QED
      BY <3>2, <2>2, <1>3
  <2>3. ASSUME NEW y \in Spot, Leads(t, After(t, x), y) PROVE Leads(t, x, y)
    BY <1>3, <2>3 DEF Leads, Closed
  <2> QED
    BY <2>2, <2>3 DEF Ends
<1> QED
  BY <1>1, <1>2, <1>3 DEF Ends

\* The recursion has a solution: it is the end steps lead to, if there is one.
LEMMA GoDefined ==
  ASSUME NEW t, IsTree(t)
  PROVE  Go(t) = [x \in Spot |-> IF x.rest = <<>> THEN x.cur
                                 ELSE IF After(t, x) = None THEN None
                                 ELSE Go(t)[After(t, x)]]
<1> DEFINE Body(go) == [x \in Spot |-> IF x.rest = <<>> THEN x.cur
                                       ELSE IF After(t, x) = None THEN None
                                       ELSE go[After(t, x)]]
           End(S) == IF S = {} THEN None ELSE (CHOOSE y \in S : TRUE).cur
           f == [x \in Spot |-> End(Ends(t, x))]
<1>1. ASSUME NEW x \in Spot
      PROVE  f[x] = IF x.rest = <<>> THEN x.cur
                    ELSE IF After(t, x) = None THEN None
                    ELSE f[After(t, x)]
  <2>1. CASE x.rest = <<>>
    <3>1. Ends(t, x) = {x}
      BY <2>1, EndsAfter
    <3>2. End({x}) = x.cur
      OBVIOUS
    <3> QED
      BY <3>1, <3>2, <2>1
  <2>2. CASE x.rest # <<>> /\ After(t, x) = None
    <3>1. Ends(t, x) = {}
      BY <2>2, EndsAfter
    <3> QED
      BY <3>1, <2>2
  <2>3. CASE x.rest # <<>> /\ After(t, x) # None
    <3>1. Ends(t, x) = Ends(t, After(t, x)) /\ After(t, x) \in Spot
      BY <2>3, EndsAfter, AfterType
    <3> HIDE DEF End
    <3> QED
      BY <3>1, <2>3
  <2> QED
    BY <2>1, <2>2, <2>3
<1> HIDE DEF End
<1>2. f = Body(f)
  <2> DEFINE g == Body(f)
  <2>1. \A x \in Spot : f[x] = g[x]
    BY <1>1
  <2>2. f = [x \in Spot |-> f[x]] /\ g = [x \in Spot |-> g[x]]
    OBVIOUS
  <2> QED
    BY <2>1, <2>2
<1>3. Go(t) = CHOOSE go : go = Body(go)
  BY DEF Go
<1> HIDE DEF f, Body
<1>4. (CHOOSE go : go = Body(go)) = Body(CHOOSE go : go = Body(go))
  BY <1>2
<1>5. Go(t) = Body(Go(t))
  BY <1>3, <1>4
<1> QED
  BY <1>5 DEF Body

LEMMA ResolveGo == \A t, ref : Resolve(t, ref) = Go(t)[SpotOf(ref)]
BY DEF Resolve, Go

\* u is t, grown, and files of t may hold something else in it.
Grown(t, u) ==
  \A p \in DOMAIN t :
    p \in DOMAIN u /\ (u[p] = t[p] \/ (u[p].kind = "file" /\ t[p].kind = "file"))

\* What leads somewhere leads there in a tree that has grown.
LEMMA AfterGrown ==
  ASSUME NEW t, NEW u, IsTree(t), Grown(t, u), NEW x \in Spot, x.rest # <<>>,
         After(t, x) # None
  PROVE  After(u, x) = After(t, x)
<1>1. Head(x.rest) \in Part
  BY DEF Spot
<1>2. CASE Head(x.rest) \in {".", ".."}
  BY <1>2, AfterCases
<1>3. CASE Head(x.rest) \in Name
  <2>1. Kind(t, Ahead(x)) \in {"none", "special", "dir", "file", "link"}
    BY KindOf
  <2>2. /\ Kind(t, Ahead(x)) \notin {"none", "special"}
        /\ Kind(t, Ahead(x)) = "file" => Tail(x.rest) = <<>>
        /\ Kind(t, Ahead(x)) = "link" => x.hops < MaxHops
    BY <1>3, AfterCases
  <2>3. Ahead(x) \in DOMAIN t /\ t[Ahead(x)].kind = Kind(t, Ahead(x))
    BY <2>2, Kinds
  <2>4. Ahead(x) \in DOMAIN u /\ Kind(u, Ahead(x)) = Kind(t, Ahead(x))
    BY <2>3 DEF Grown, Kind
  <2>5. Kind(t, Ahead(x)) = "link" => u[Ahead(x)] = t[Ahead(x)]
    BY <2>3 DEF Grown
  <2> QED
    BY <1>3, <2>1, <2>2, <2>4, <2>5, AfterCases
<1> QED
  BY <1>1, <1>2, <1>3 DEF Part

LEMMA LeadsGrown ==
  ASSUME NEW t, NEW u, IsTree(t), Grown(t, u), NEW x, NEW y, Leads(t, x, y)
  PROVE  Leads(u, x, y)
<1> SUFFICES ASSUME NEW S \in SUBSET Spot, x \in S, Closed(u, S) PROVE y \in S
  BY DEF Leads
<1>1. Closed(t, S)
  BY AfterGrown DEF Closed
<1> QED
  BY <1>1 DEF Leads

\* One step more.
LEMMA LeadsOn ==
  ASSUME NEW t, NEW x, NEW y \in Spot, Leads(t, x, y), y.rest # <<>>, After(t, y) # None
  PROVE  Leads(t, x, After(t, y))
BY DEF Leads, Closed

\* Where steps end is what Resolve computes.
LEMMA LeadsResolve ==
  ASSUME NEW t, IsTree(t), NEW x \in Spot, NEW y \in Spot, Leads(t, x, y), y.rest = <<>>
  PROVE  Go(t)[x] = y.cur
<1> DEFINE S == {z \in Spot : Go(t)[z] = Go(t)[x]}
<1>1. \A z \in Spot : Go(t)[z] = IF z.rest = <<>> THEN z.cur
                                 ELSE IF After(t, z) = None THEN None
                                 ELSE Go(t)[After(t, z)]
  BY GoDefined
<1>2. \A z \in S : z.rest # <<>> /\ After(t, z) # None => After(t, z) \in S
  <2> TAKE z \in S
  <2> HAVE z.rest # <<>> /\ After(t, z) # None
  <2>1. After(t, z) \in Spot
    BY AfterType
  <2>2. Go(t)[z] = Go(t)[After(t, z)]
    BY <1>1
  <2> QED
    BY <2>1, <2>2
<1>3. S \in SUBSET Spot /\ x \in S /\ Closed(t, S)
  BY <1>2 DEF Closed
<1>4. y \in S
  BY <1>3 DEF Leads
<1> QED
  BY <1>1, <1>4

\* Where a walk is.
WalkSpot(w) == [cur |-> w.cur, rest |-> w.rest, hops |-> w.hops]

\* Where it is when it has gone on to what it meets.
HereSpot == [cur |-> Here, rest |-> Tail(walk.rest), hops |-> walk.hops]

LEMMA SpotType ==
  /\ \A w \in Walk : WalkSpot(w) \in Spot
  /\ \A ref \in Ref : SpotOf(ref) \in Spot
<1>1. \A w \in Walk : WalkSpot(w) \in Spot
  BY DEF Walk, WalkSpot, Spot
<1>2. 0 \in 0..MaxHops /\ <<>> \in Seq(Name)
  BY BoundAssumption
<1> QED
  BY <1>1, <1>2 DEF Ref, SpotOf, Spot

\* Recording takes the steps of a resolution, in the root, and in every tree that is like
\* it where the walk is.
LEMMA WalkAfter ==
  ASSUME TypeOK, walk # None, walk.rest # <<>>, NEW t,
         Head(walk.rest) \in Name => Kind(t, Here) = Kind(root, Here) /\ t[Here] = root[Here]
  PROVE  /\ Dots \/ EnterDir \/ FollowLink =>
              /\ walk'.ref = walk.ref /\ walk'.depth = walk.depth
              /\ After(t, WalkSpot(walk)) = WalkSpot(walk')
         /\ KeepFile => After(t, WalkSpot(walk)) = HereSpot
         /\ Dropped \/ TooManyHops => After(t, WalkSpot(walk)) = None
<1> DEFINE x == WalkSpot(walk)
<1>1. walk \in Walk /\ walk.hops \in 0..MaxHops
  BY DEF TypeOK, Walk
<1>2. x.cur = walk.cur /\ x.rest = walk.rest /\ x.hops = walk.hops
  BY DEF WalkSpot
<1>3. Ahead(x) = Here
  BY <1>2 DEF Ahead, Here
<1>4. ASSUME Dots
      PROVE  walk'.ref = walk.ref /\ walk'.depth = walk.depth /\ After(t, x) = WalkSpot(walk')
  <2> DEFINE up == IF walk.cur = <<>> THEN walk.cur ELSE Front(walk.cur)
             to == IF Head(walk.rest) = ".." /\ walk.cur # <<>> THEN Front(walk.cur) ELSE walk.cur
  <2>1. Head(x.rest) \in {".", ".."}
    BY <1>2, <1>4 DEF Dots
  <2>2. walk' = [walk EXCEPT !.rest = Tail(@), !.cur = to]
    BY <1>4 DEF Dots
  <2>6. Head(x.rest) = "." => to = walk.cur
    BY <1>2
  <2>7. Head(x.rest) = ".." => to = up
    BY <1>2
  <2>3. /\ Past(x) = [x EXCEPT !.rest = Tail(@)]
        /\ Up(x) = [x EXCEPT !.cur = up, !.rest = Tail(@)]
    BY <1>2 DEF Past, Up
  <2> HIDE DEF up, to
  <2>4. CASE Head(x.rest) = "."
    <3>1. WalkSpot(walk') = Past(x) /\ walk'.ref = walk.ref /\ walk'.depth = walk.depth
      BY <1>1, <2>2, <2>3, <2>4, <2>6 DEF Walk, WalkSpot
    <3> QED
      BY <2>4, <3>1, AfterCases
  <2>5. CASE Head(x.rest) = ".."
    <3>1. WalkSpot(walk') = Up(x) /\ walk'.ref = walk.ref /\ walk'.depth = walk.depth
      BY <1>1, <2>2, <2>3, <2>5, <2>7 DEF Walk, WalkSpot
    <3> QED
      BY <2>5, <3>1, AfterCases
  <2> QED
    BY <2>1, <2>4, <2>5
<1>5. ASSUME EnterDir
      PROVE  walk'.ref = walk.ref /\ walk'.depth = walk.depth /\ After(t, x) = WalkSpot(walk')
  <2>1. Head(x.rest) \in Name /\ Kind(t, Ahead(x)) = "dir"
    BY <1>2, <1>3, <1>5 DEF EnterDir, Meets
  <2>2. walk' = [walk EXCEPT !.cur = Here, !.rest = Tail(@)]
    BY <1>5 DEF EnterDir
  <2>3. Into(x) = [x EXCEPT !.cur = Here, !.rest = Tail(walk.rest)]
    BY <1>2, <1>3 DEF Into
  <2>4. WalkSpot(walk') = Into(x) /\ walk'.ref = walk.ref /\ walk'.depth = walk.depth
    BY <1>1, <2>2, <2>3 DEF Walk, WalkSpot
  <2> QED
    BY <2>1, <2>4, AfterCases
<1>6. ASSUME FollowLink
      PROVE  walk'.ref = walk.ref /\ walk'.depth = walk.depth /\ After(t, x) = WalkSpot(walk')
  <2> DEFINE to == root[Here].to
             from == IF to.abs THEN <<>> ELSE walk.cur
             rest == to.parts \o Tail(walk.rest)
  <2>1. /\ Head(x.rest) \in Name /\ Kind(t, Ahead(x)) = "link" /\ t[Ahead(x)].to = to
        /\ x.hops < MaxHops
    BY <1>2, <1>3, <1>6 DEF FollowLink, Meets
  <2>2. walk' = [walk EXCEPT !.hops = @ + 1, !.rest = rest, !.cur = from]
    BY <1>6 DEF FollowLink
  <2>3. Over(x, to) = [x EXCEPT !.cur = from, !.rest = rest, !.hops = @ + 1]
    BY <1>2 DEF Over
  <2> HIDE DEF to, from, rest
  <2>4. WalkSpot(walk') = Over(x, to) /\ walk'.ref = walk.ref /\ walk'.depth = walk.depth
    BY <1>1, <2>2, <2>3 DEF Walk, WalkSpot
  <2> QED
    BY <2>1, <2>4, AfterCases
<1>7. ASSUME KeepFile
      PROVE  After(t, x) = HereSpot
  <2>1. Head(x.rest) \in Name /\ Kind(t, Ahead(x)) = "file" /\ Tail(x.rest) = <<>>
    BY <1>2, <1>3, <1>7 DEF KeepFile, Meets, AtEnd
  <2>2. Into(x) = [x EXCEPT !.cur = Here, !.rest = Tail(walk.rest)]
    BY <1>2, <1>3 DEF Into
  <2>3. Into(x) = HereSpot
    BY <2>2 DEF WalkSpot, HereSpot
  <2> QED
    BY <2>1, <2>3, AfterCases
<1>8. ASSUME Dropped \/ TooManyHops
      PROVE  After(t, x) = None
  <2>1. Head(x.rest) \in Name /\ Kind(t, Ahead(x)) = Kind(root, Here)
    BY <1>2, <1>3, <1>8 DEF Dropped, TooManyHops, Meets
  <2>2. \/ Kind(t, Ahead(x)) \in {"none", "special"}
        \/ Kind(t, Ahead(x)) = "file" /\ Tail(x.rest) # <<>>
        \/ Kind(t, Ahead(x)) = "link" /\ ~(x.hops < MaxHops)
    BY <1>1, <1>2, <1>8, <2>1, BoundAssumption DEF Dropped, TooManyHops, AtEnd
  <2> QED
    BY <2>1, <2>2, AfterCases
<1> QED
  BY <1>4, <1>5, <1>6, <1>7, <1>8

-----------------------------------------------------------------------------
(* What was recorded leads to the same place when it is replayed *)

\* Directories above everything make a tree.
LEMMA MakesTree ==
  ASSUME NEW t,
         \A p \in DOMAIN t : /\ p \in Path /\ t[p] \in Entry
                             /\ \A q \in Above(p) : q \in DOMAIN t /\ t[q] = Dir
  PROVE  IsTree(t)
BY DEF IsTree, Node, Kind, Dir

\* The root of a warm run is the profile.
Rebuilt ==
  pc = "warm" => DOMAIN root = DOMAIN profile /\ \A q \in DOMAIN root : root[q] = profile[q]

\* In the profile, a walk that was completed leads to where it got, and one that is under
\* way to where it is.
Trail ==
  /\ \A l \in learned : \E y \in Ends(profile, SpotOf(l.ref)) : y.cur = l.at
  /\ walk # None => Leads(profile, SpotOf(walk.ref), WalkSpot(walk))

Remembered == IInv /\ (~moved => Rebuilt /\ Trail)

\* A profile is a tree, and recording makes it grow.
LEMMA RecordGrows ==
  ASSUME IInv, Record, ~moved'
  PROVE  /\ ~moved /\ IsTree(profile) /\ IsTree(profile') /\ IsTree(root) /\ UNCHANGED root
         /\ Grown(profile, profile')
         /\ EnterDir \/ FollowLink \/ KeepFile =>
              /\ Kind(profile', Here) = Kind(root, Here) /\ profile'[Here] = root[Here]
              /\ Here \in DOMAIN root /\ DOMAIN profile' = DOMAIN profile \cup {Here}
              /\ \A q \in DOMAIN profile : q # Here => profile'[q] = profile[q]
         /\ EnterDir \/ FollowLink \/ KeepFile \/ UNCHANGED profile
<1>1. pc = "record" /\ UNCHANGED <<root, moved>>
  BY DEF Record, Ask, Dots, Dropped, FollowLink, TooManyHops, EnterDir, KeepFile, ReadFails,
    Arrived, Meets, Walking
<1>2. TypeOK /\ Rooted /\ OnTheWay /\ ~AtOdds(root) /\ IsTree(root)
  BY <1>1 DEF IInv, TypeInv, TypeOK, Steady, Agreeing
<1>3. IsTree(profile)
  BY <1>2, MakesTree DEF TypeOK, Rooted, Known
<1>4. IInv'
  BY IInvNext DEF Next
<1>5. IsTree(profile')
  BY <1>4, MakesTree DEF IInv, TypeInv, TypeOK, Steady, Rooted, Known
<1>6. ASSUME EnterDir \/ FollowLink \/ KeepFile
      PROVE  /\ Grown(profile, profile')
             /\ Kind(profile', Here) = Kind(root, Here) /\ profile'[Here] = root[Here]
             /\ Here \in DOMAIN root /\ DOMAIN profile' = DOMAIN profile \cup {Here}
             /\ \A q \in DOMAIN profile : q # Here => profile'[q] = profile[q]
  <2>1. Meets /\ Kind(root, Here) \in {"dir", "link", "file"}
    BY <1>6 DEF EnterDir, FollowLink, KeepFile
  <2>2. Here \in DOMAIN root /\ root[Here].kind = Kind(root, Here) /\ root[Here] \in Entry
    BY <1>2, <2>1, Kinds DEF Entry
  <2>3. Keep(Here, root[Here])
    <3>1. EnterDir => root[Here] = Dir
      BY <1>2, Kinds DEF EnterDir
    <3> QED
      BY <1>6, <3>1 DEF EnterDir, FollowLink, KeepFile
  <2>4. /\ DOMAIN profile' = DOMAIN profile \cup {Here} /\ profile'[Here] = root[Here]
        /\ \A q \in DOMAIN profile : q # Here => profile'[q] = profile[q]
    BY <1>2, <2>1, <2>2, <2>3, HereType, KeepType
  <2>5. Here \in DOMAIN profile => profile[Here] = root[Here]
                                   \/ (profile[Here].kind = "file" /\ root[Here].kind = "file")
    BY <1>2, <2>2 DEF AtOdds
  <2> QED
    BY <2>2, <2>4, <2>5 DEF Grown, Kind
<1>7. UNCHANGED profile => Grown(profile, profile')
  BY DEF Grown
<1>8. EnterDir \/ FollowLink \/ KeepFile \/ UNCHANGED profile
  BY DEF Record, Ask, Dots, Dropped, TooManyHops, ReadFails, Arrived
<1> QED
  BY <1>1, <1>2, <1>3, <1>5, <1>6, <1>7, <1>8

\* Recording keeps the trail.
LEMMA TrailRecord ==
  ASSUME Remembered, Record, ~moved'
  PROVE  Trail'
<1>0. IInv /\ Trail /\ TypeOK
  BY RecordGrows DEF Remembered, IInv, TypeInv
<1>1. /\ IsTree(profile) /\ IsTree(profile') /\ Grown(profile, profile')
      /\ EnterDir \/ FollowLink \/ KeepFile =>
           Kind(profile', Here) = Kind(root, Here) /\ profile'[Here] = root[Here]
  BY <1>0, RecordGrows
<1>2. \A l \in learned : \E y \in Ends(profile', SpotOf(l.ref)) : y.cur = l.at
  BY <1>0, <1>1, LeadsGrown DEF Trail, Ends
<1>3. walk # None =>
        /\ walk \in Walk /\ WalkSpot(walk) \in Spot /\ WalkSpot(walk).rest = walk.rest
        /\ WalkSpot(walk).cur = walk.cur
        /\ Leads(profile', SpotOf(walk.ref), WalkSpot(walk))
  BY <1>0, <1>1, LeadsGrown, SpotType DEF TypeOK, Trail, WalkSpot
<1>4. ASSUME UNCHANGED learned, walk' = None PROVE Trail'
  BY <1>2, <1>4 DEF Trail
<1>5. ASSUME NEW ref \in Observed, Ask(ref) PROVE Trail'
  <2>1. WalkSpot(walk') = SpotOf(walk'.ref)
    BY <1>5 DEF Ask, Start, WalkSpot, SpotOf
  <2>2. Leads(profile', SpotOf(walk'.ref), WalkSpot(walk'))
    BY <2>1 DEF Leads
  <2> QED
    BY <1>2, <1>5, <2>2 DEF Ask, Trail
<1>6. CASE Dots \/ EnterDir \/ FollowLink
  <2>1. walk # None /\ walk.rest # <<>> /\ UNCHANGED learned
    BY <1>6 DEF Dots, EnterDir, FollowLink, Meets, Walking
  <2>2. Head(walk.rest) \in Name =>
          Kind(profile', Here) = Kind(root, Here) /\ profile'[Here] = root[Here]
    BY <1>1, <1>6, NameAssumption DEF Dots
  <2>3. walk'.ref = walk.ref /\ After(profile', WalkSpot(walk)) = WalkSpot(walk')
    BY <1>0, <1>6, <2>1, <2>2, WalkAfter
  <2>4. IInv'
    BY <1>0, IInvNext DEF Next
  <2>5. walk' # None => WalkSpot(walk') \in Spot
    BY <2>4, SpotType DEF IInv, TypeInv, TypeOK
  <2>6. walk' # None => Leads(profile', SpotOf(walk.ref), WalkSpot(walk'))
    BY <1>3, <2>1, <2>3, <2>5, LeadsOn, NoneAssumption
  <2> QED
    BY <1>2, <2>1, <2>3, <2>6 DEF Trail
<1>7. CASE Dropped \/ TooManyHops \/ ReadFails
  BY <1>4, <1>7 DEF Dropped, TooManyHops, ReadFails
<1>8. CASE KeepFile
  <2>1. walk # None /\ walk.rest # <<>> /\ AtEnd
    BY <1>8 DEF KeepFile, Meets, Walking
  <2>2. After(profile', WalkSpot(walk)) = HereSpot
    BY <1>0, <1>1, <1>8, <2>1, WalkAfter
  <2>3. HereSpot \in Spot /\ HereSpot.rest = <<>> /\ HereSpot.cur = Here
    <3>1. HereSpot.rest = <<>> /\ HereSpot.cur = Here
      BY <2>1 DEF HereSpot, AtEnd
    <3>2. Here \in Seq(Name) /\ Tail(walk.rest) \in Seq(Part) /\ walk.hops \in 0..MaxHops
      BY <1>0, <1>3, <1>8, <2>1, HereType DEF KeepFile, Walk
    <3> QED
      BY <3>1, <3>2 DEF HereSpot, Spot
  <2>4. Leads(profile', SpotOf(walk.ref), HereSpot)
    BY <1>3, <2>1, <2>2, <2>3, LeadsOn, NoneAssumption
  <2>5. HereSpot \in Ends(profile', SpotOf(walk.ref))
    BY <2>3, <2>4 DEF Ends
  <2>6. \A l \in learned' : \E y \in Ends(profile', SpotOf(l.ref)) : y.cur = l.at
    BY <1>2, <1>8, <2>3, <2>5 DEF KeepFile
  <2>7. walk' # None => WalkSpot(walk') = SpotOf(walk'.ref)
    BY <1>8 DEF KeepFile, AfterFile, Start, WalkSpot, SpotOf
  <2>8. walk' # None => Leads(profile', SpotOf(walk'.ref), WalkSpot(walk'))
    BY <2>7 DEF Leads
  <2> QED
    BY <2>6, <2>8 DEF Trail
<1>9. CASE Arrived
  <2>1. walk # None /\ walk.rest = <<>>
    BY <1>9 DEF Arrived
  <2>2. WalkSpot(walk) \in Ends(profile', SpotOf(walk.ref)) /\ WalkSpot(walk).cur = walk.cur
    BY <1>3, <2>1 DEF Ends
  <2> QED
    BY <1>2, <1>9, <2>2 DEF Arrived, Trail
<1> QED
  BY <1>5, <1>6, <1>7, <1>8, <1>9 DEF Record

\* Every step keeps the invariant.
LEMMA RememberedNext == Remembered /\ [Next]_vars => Remembered'
<1> SUFFICES ASSUME Remembered, [Next]_vars, ~moved' PROVE Rebuilt' /\ Trail'
  BY IInvNext DEF Remembered
<1>1. CASE Record
  BY <1>1, TrailRecord DEF Record, Ask, Dots, Dropped, FollowLink, TooManyHops, EnterDir,
    KeepFile, ReadFails, Arrived, Meets, Walking, Rebuilt
<1>2. CASE Replay
  <2>1. UNCHANGED <<profile, walk, learned, moved>>
    BY <1>2 DEF Replay, StartReplay, Replayed, Place, Stray
  <2>2. Trail'
    BY <2>1 DEF Remembered, Trail
  <2>3. Replayed => Rebuilt'
    BY <2>1 DEF Replayed, Remembered, IInv, Steady, Replaying, Rebuilt
  <2>4. ~Replayed => pc' # "warm"
    BY <1>2 DEF Replay, StartReplay, Place, Stray
  <2> QED
    BY <2>2, <2>3, <2>4 DEF Rebuilt
<1>3. CASE Unpack \/ Job \/ Finish \/ Retag
  <2>1. UNCHANGED <<profile, walk, learned>> /\ pc' # "warm"
    BY <1>3 DEF Unpack, Job, Finish, Retag
  <2>2. moved => moved'
    BY <1>3 DEF Unpack, Job, Finish, Retag
  <2> QED
    BY <2>1, <2>2 DEF Remembered, Trail, Rebuilt
<1>4. CASE StartOver
  <2>1. pc' # "warm" /\ learned' = {} /\ walk' = None
    BY <1>4 DEF StartOver, Remembered, IInv, TypeInv, Resting
  <2> QED
    BY <2>1 DEF Trail, Rebuilt
<1>5. CASE UNCHANGED vars
  BY <1>5 DEF vars, Remembered, Rebuilt, Trail
<1> QED
  BY <1>1, <1>2, <1>3, <1>4, <1>5 DEF Next

\* A path that was recorded to its end resolves, in the root of a warm run, to the place
\* it was recorded at: for any trees, links, loops and references, however many runs
\* added to the profile in between.
THEOREM RecordingsResolve == Spec => []RecordedResolves
<1>1. Init => Remembered
  BY IInvInit DEF Init, Remembered, Rebuilt, Trail
<1>2. Remembered => RecordedResolves
  <2> SUFFICES ASSUME Remembered, pc = "warm", ~moved, NEW l \in learned
               PROVE  Resolve(root, l.ref) = l.at
    BY DEF RecordedResolves
  <2>1. IsTree(root) /\ l.ref \in Ref /\ Rebuilt /\ Trail
    BY DEF Remembered, IInv, TypeInv, TypeOK
  <2>2. PICK y \in Ends(profile, SpotOf(l.ref)) : y.cur = l.at
    BY <2>1 DEF Trail
  <2>3. Grown(profile, root)
    BY <2>1 DEF Rebuilt, Grown
  <2>4. IsTree(profile)
    BY MakesTree DEF Remembered, IInv, TypeInv, TypeOK, Steady, Rooted, Known
  <2>5. Leads(root, SpotOf(l.ref), y)
    BY <2>2, <2>3, <2>4, LeadsGrown DEF Ends
  <2>6. Go(root)[SpotOf(l.ref)] = y.cur
    BY <2>1, <2>2, <2>5, LeadsResolve, SpotType DEF Ends
  <2> QED
    BY <2>2, <2>6, ResolveGo
<1> QED
  BY <1>1, <1>2, RememberedNext, PTL DEF Spec

-----------------------------------------------------------------------------
(* Loaders *)

Rank(t) == CHOOSE rank \in [DOMAIN t -> 0..MaxDepth] : Ranked(t, rank)

\* The root is all of a tree, not what a profile knows of one.
Whole == root \in Image \cup Left

\* A walk is on its way to a loader that is there.
Chasing(loader) == Whole /\ walk # None /\ walk.depth > 0 /\ walk.ref = loader

\* The profile leads to the loaders its files name, or is about to.
LoadersKnown ==
  \A p \in DOMAIN profile :
    Chased(profile[p]) =>
      \/ Ends(profile, SpotOf(Loader[profile[p].content])) # {}
      \/ Chasing(Loader[profile[p].content])

\* A walk to a loader gets there, and what it finds needs no more loaders than may follow.
ChaseEnds ==
  Whole /\ walk # None /\ walk.depth > 0 =>
    LET q == Go(root)[WalkSpot(walk)]
    IN  q # None /\ (q \in DOMAIN root => Rank(root)[q] <= MaxDepth - walk.depth)

\* What is recorded in a root that was replayed is known.
Source ==
  /\ pc = "cold" => Whole
  /\ pc = "record" => Whole \/ \A p \in DOMAIN root : p \in DOMAIN profile /\ profile[p] = root[p]

Equipped == Remembered /\ (~moved /\ ~unread => LoadersKnown /\ ChaseEnds /\ Source)

LEMMA RankType ==
  ASSUME CompleteTrees, Whole
  PROVE  Rank(root) \in [DOMAIN root -> 0..MaxDepth] /\ Ranked(root, Rank(root))
BY DEF CompleteTrees, Whole, Complete, Rank

\* Where a walk to a loader gets is where it gets from a step further.
LEMMA ChaseOn ==
  ASSUME TypeOK, walk # None, walk.rest # <<>>
  PROVE  /\ After(root, WalkSpot(walk)) = None => Go(root)[WalkSpot(walk)] = None
         /\ After(root, WalkSpot(walk)) # None =>
              Go(root)[WalkSpot(walk)] = Go(root)[After(root, WalkSpot(walk))]
<1>1. IsTree(root) /\ WalkSpot(walk) \in Spot /\ WalkSpot(walk).rest # <<>>
  BY SpotType DEF TypeOK, WalkSpot
<1> DEFINE x == WalkSpot(walk)
<1>2. Go(root)[x] = IF x.rest = <<>> THEN x.cur
                    ELSE IF After(root, x) = None THEN None ELSE Go(root)[After(root, x)]
  BY <1>1, GoDefined
<1> QED
  BY <1>1, <1>2

\* The file a walk keeps counts for no more than the loaders that may follow.
LEMMA KeptRank ==
  ASSUME CompleteTrees, TypeOK, ChaseEnds, Whole, KeepFile, Here \in DOMAIN root
  PROVE  Rank(root)[Here] <= MaxDepth - walk.depth /\ walk.depth \in 0..MaxDepth
<1>1. Meets /\ Kind(root, Here) = "file" /\ AtEnd /\ walk # None /\ walk.rest # <<>>
  BY DEF KeepFile, Meets, Walking
<1>2. walk.depth \in 0..MaxDepth
  BY <1>1 DEF TypeOK, Walk
<1>3. Rank(root)[Here] \in 0..MaxDepth
  BY RankType
<1>4. CASE walk.depth = 0
  BY <1>2, <1>3, <1>4, BoundAssumption
<1>5. CASE walk.depth > 0
  <2>1. After(root, WalkSpot(walk)) = HereSpot
    BY <1>1, WalkAfter
  <2>2. HereSpot \in Spot /\ HereSpot.rest = <<>> /\ HereSpot.cur = Here
    <3>1. HereSpot.rest = <<>> /\ HereSpot.cur = Here
      BY <1>1 DEF HereSpot, AtEnd
    <3>2. Here \in Seq(Name) /\ Tail(walk.rest) \in Seq(Part) /\ walk.hops \in 0..MaxHops
      BY <1>1, HereType DEF Walk
    <3> QED
      BY <3>1, <3>2 DEF HereSpot, Spot
  <2>3. Go(root)[HereSpot] = Here
    BY <2>2, GoDefined DEF TypeOK
  <2>4. Go(root)[WalkSpot(walk)] = Here
    BY <1>1, <2>1, <2>2, <2>3, ChaseOn, NoneAssumption
  <2> QED
    BY <1>1, <1>2, <1>5, <2>4 DEF ChaseEnds
<1> QED
  BY <1>2, <1>4, <1>5

\* Recording leads to the loaders of what it keeps.
LEMMA LoadersRecord ==
  ASSUME CompleteTrees, Equipped, Record, ~moved', ~unread'
  PROVE  LoadersKnown' /\ ChaseEnds' /\ Source'
<1>1. pc = "record" /\ pc' = "record" /\ UNCHANGED root /\ (unread => unread') /\ ~ReadFails
  BY DEF Record, Ask, Dots, Dropped, FollowLink, TooManyHops, EnterDir, KeepFile, ReadFails,
    Arrived, Meets, Walking
<1>2. /\ ~moved /\ IsTree(profile) /\ IsTree(profile') /\ IsTree(root)
      /\ Grown(profile, profile')
      /\ EnterDir \/ FollowLink \/ KeepFile =>
           /\ Kind(profile', Here) = Kind(root, Here) /\ profile'[Here] = root[Here]
           /\ Here \in DOMAIN root /\ DOMAIN profile' = DOMAIN profile \cup {Here}
           /\ \A q \in DOMAIN profile : q # Here => profile'[q] = profile[q]
      /\ EnterDir \/ FollowLink \/ KeepFile \/ UNCHANGED profile
  BY RecordGrows DEF Equipped, Remembered
<1>3. TypeOK /\ TypeOK' /\ Trail' /\ LoadersKnown /\ ChaseEnds /\ Source
  BY <1>1, <1>2, RememberedNext DEF Next, Equipped, Remembered, IInv, TypeInv
<1>4. \A ref : Ends(profile, SpotOf(ref)) # {} => Ends(profile', SpotOf(ref)) # {}
  BY <1>2, LeadsGrown DEF Ends
<1>5. Whole' <=> Whole
  BY <1>1 DEF Whole
<1>6. CASE ~Whole
  <2>1. \A p \in DOMAIN root : p \in DOMAIN profile /\ profile[p] = root[p]
    BY <1>1, <1>3, <1>6 DEF Source
  <2>2. DOMAIN profile' = DOMAIN profile /\ \A p \in DOMAIN profile : profile'[p] = profile[p]
    BY <1>2, <2>1
  <2>3. LoadersKnown'
    BY <1>3, <1>4, <1>6, <2>2 DEF LoadersKnown, Chasing
  <2>4. Source'
    BY <1>1, <2>1, <2>2 DEF Source
  <2> QED
    BY <1>5, <1>6, <2>3, <2>4 DEF ChaseEnds
<1>7. CASE Whole
  <2>1. Source'
    BY <1>1, <1>5, <1>7 DEF Source
  <2> SUFFICES LoadersKnown' /\ ChaseEnds'
    BY <2>1
  <2>2. \/ walk = None \/ ~(walk.depth > 0)
        \/ Ends(profile', SpotOf(walk.ref)) # {}
        => (walk' = None /\ UNCHANGED profile => LoadersKnown' /\ ChaseEnds')
    BY <1>3, <1>4 DEF LoadersKnown, ChaseEnds, Chasing
  <2>3. ASSUME NEW ref \in Observed, Ask(ref) PROVE LoadersKnown' /\ ChaseEnds'
    <3>1. walk = None /\ walk'.depth = 0 /\ UNCHANGED profile
      BY <2>3 DEF Ask, Start
    <3> QED
      BY <1>3, <1>4, <3>1 DEF LoadersKnown, ChaseEnds, Chasing
  <2>4. CASE Dots \/ EnterDir \/ FollowLink
    <3>1. walk # None /\ walk.rest # <<>> /\ walk \in Walk
      BY <1>3, <2>4 DEF Dots, EnterDir, FollowLink, Meets, Walking, TypeOK
    <3>2. /\ walk'.ref = walk.ref /\ walk'.depth = walk.depth
          /\ After(root, WalkSpot(walk)) = WalkSpot(walk')
      BY <1>3, <2>4, <3>1, WalkAfter
    <3>3. \A p \in DOMAIN profile' : Chased(profile'[p]) =>
            p \in DOMAIN profile /\ profile'[p] = profile[p]
      <4>1. EnterDir \/ FollowLink => ~Chased(profile'[Here])
        BY <1>2, Kinds DEF EnterDir, FollowLink, Chased
      <4>2. Dots => UNCHANGED profile
        BY DEF Dots
      <4> QED
        BY <1>2, <2>4, <4>1, <4>2
    <3>4. walk' \in Walk /\ walk' # None /\ WalkSpot(walk') # None
      BY <1>3, <2>4, GoesOn, SpotType, NoneAssumption
    <3>5. LoadersKnown'
      BY <1>3, <1>4, <1>5, <3>1, <3>2, <3>3, <3>4 DEF LoadersKnown, Chasing
    <3>6. Go(root)[WalkSpot(walk)] = Go(root)[WalkSpot(walk')]
      BY <1>3, <3>1, <3>2, <3>4, ChaseOn
    <3>7. ChaseEnds'
      BY <1>1, <1>3, <1>5, <3>1, <3>2, <3>6 DEF ChaseEnds
    <3> QED
      BY <3>5, <3>7
  <2>5. CASE Dropped \/ TooManyHops
    <3>1. walk # None /\ walk.rest # <<>> /\ walk' = None /\ UNCHANGED profile
      BY <2>5 DEF Dropped, TooManyHops, Meets, Walking
    <3>2. After(root, WalkSpot(walk)) = None
      BY <1>3, <2>5, <3>1, WalkAfter
    <3>3. ~(walk.depth > 0)
      BY <1>3, <1>7, <3>1, <3>2, ChaseOn DEF ChaseEnds
    <3> QED
      BY <2>2, <3>1, <3>3
  <2>6. CASE KeepFile
    <3> DEFINE loader == Loader[root[Here].content]
    <3>1. Ends(profile', SpotOf(walk.ref)) # {}
      <4>1. [ref |-> walk.ref, at |-> Here] \in learned'
        BY <2>6 DEF KeepFile
      <4> QED
        BY <1>3, <4>1 DEF Trail
    <3>2. Rank(root)[Here] <= MaxDepth - walk.depth /\ walk.depth \in 0..MaxDepth
      BY <1>2, <1>3, <1>7, <2>6, KeptRank
    <3>3. /\ Rank(root) \in [DOMAIN root -> 0..MaxDepth] /\ Ranked(root, Rank(root))
          /\ Here \in DOMAIN root
      BY <1>2, <1>7, <2>6, RankType
    <3>4. walk' = AfterFile(root[Here]) /\ Kind(root, Here) = "file" /\ root[Here].kind = "file"
      BY <1>2, <2>6, Kinds DEF KeepFile
    <3>5. Chased(root[Here]) =>
            /\ walk.depth < MaxDepth
            /\ walk' = Start(loader, walk.depth + 1)
      <4>1. Chased(root[Here]) => Rank(root)[Here] > 0
        BY <3>3 DEF Ranked
      <4>2. Chased(root[Here]) => walk.depth < MaxDepth
        BY <3>2, <3>3, <4>1, BoundAssumption
      <4> QED
        BY <3>4, <4>2 DEF Chased, AfterFile
    <3>6. walk' # None => Chased(root[Here])
      BY <3>4 DEF AfterFile, Chased
    <3>7. Chased(root[Here]) =>
            /\ loader \in Ref /\ Go(root)[SpotOf(loader)] # None
            /\ Go(root)[SpotOf(loader)] \in DOMAIN root =>
                 Rank(root)[Go(root)[SpotOf(loader)]] < Rank(root)[Here]
      <4>1. Chased(root[Here]) => loader \in Ref
        BY <1>2, <3>4, Kinds, LoaderAssumption DEF Chased
      <4> QED
        BY <3>3, <4>1, ResolveGo DEF Ranked
    <3>8. Chased(root[Here]) =>
            /\ walk' # None /\ walk'.ref = loader /\ walk'.depth = walk.depth + 1
            /\ WalkSpot(walk') = SpotOf(loader)
      <4>1. loader \in Ref => Start(loader, walk.depth + 1).ref = loader
        BY DEF Start
      <4>2. ASSUME Chased(root[Here]) PROVE walk' # None
        <5>1. walk.depth + 1 \in 0..MaxDepth
          BY <3>2, <3>5, <4>2, BoundAssumption
        <5> QED
          BY <3>5, <3>7, <4>2, <5>1, StartType, NoneAssumption
      <4> QED
        BY <3>5, <4>2 DEF Start, WalkSpot, SpotOf
    <3>9. LoadersKnown'
      <4> SUFFICES ASSUME NEW p \in DOMAIN profile', Chased(profile'[p])
                   PROVE  \/ Ends(profile', SpotOf(Loader[profile'[p].content])) # {}
                          \/ /\ Whole' /\ walk' # None /\ walk'.depth > 0
                             /\ walk'.ref = Loader[profile'[p].content]
        BY DEF LoadersKnown, Chasing
      <4>1. CASE p = Here
        <5>1. profile'[p] = root[Here]
          BY <1>2, <2>6, <4>1
        <5>2. walk' # None /\ walk'.ref = loader /\ walk'.depth > 0
          BY <3>2, <3>8, <5>1
        <5> QED
          BY <1>5, <1>7, <5>1, <5>2
      <4>2. CASE p # Here
        <5>1. p \in DOMAIN profile /\ profile'[p] = profile[p]
          BY <1>2, <2>6, <4>2
        <5>2. \/ Ends(profile, SpotOf(Loader[profile[p].content])) # {}
              \/ Loader[profile[p].content] = walk.ref
          BY <1>3, <5>1 DEF LoadersKnown, Chasing
        <5> QED
          BY <1>4, <3>1, <5>1, <5>2
      <4> QED
        BY <4>1, <4>2
    <3>10. ChaseEnds'
      <4> DEFINE q == Go(root)[SpotOf(loader)]
      <4>1. CASE ~Chased(root[Here])
        BY <3>6, <4>1 DEF ChaseEnds
      <4>2. CASE Chased(root[Here])
        <5>1. q # None /\ (q \in DOMAIN root => Rank(root)[q] < Rank(root)[Here])
          BY <3>7, <4>2
        <5>2. q \in DOMAIN root => Rank(root)[q] \in 0..MaxDepth
          BY <3>3
        <5>3. Rank(root)[Here] \in 0..MaxDepth
          BY <3>3
        <5>4. q \in DOMAIN root => Rank(root)[q] <= MaxDepth - (walk.depth + 1)
          BY <3>2, <5>1, <5>2, <5>3, BoundAssumption
        <5>5. Go(root')[WalkSpot(walk')] = q /\ Rank(root') = Rank(root) /\ DOMAIN root' = DOMAIN root
          BY <1>1, <3>8, <4>2
        <5>6. walk'.depth = walk.depth + 1
          BY <3>8, <4>2
        <5> HIDE DEF q
        <5> QED
          BY <5>1, <5>4, <5>5, <5>6 DEF ChaseEnds
      <4> QED
        BY <4>1, <4>2
    <3> QED
      BY <3>9, <3>10
  <2>7. CASE Arrived
    <3>1. [ref |-> walk.ref, at |-> walk.cur] \in learned' /\ walk' = None /\ UNCHANGED profile
      BY <2>7 DEF Arrived
    <3>2. Ends(profile', SpotOf(walk.ref)) # {}
      BY <1>3, <3>1 DEF Trail
    <3> QED
      BY <2>2, <3>1, <3>2
  <2> QED
    BY <1>1, <2>1, <2>3, <2>4, <2>5, <2>6, <2>7 DEF Record
<1> QED
  BY <1>6, <1>7

\* Every step keeps the loaders within reach.
LEMMA EquippedNext ==
  ASSUME CompleteTrees
  PROVE  Equipped /\ [Next]_vars => Equipped'
<1> SUFFICES ASSUME Equipped, [Next]_vars, ~moved', ~unread'
             PROVE  LoadersKnown' /\ ChaseEnds' /\ Source'
  BY RememberedNext DEF Equipped
<1>1. CASE Record
  BY <1>1, LoadersRecord
<1>2. CASE StartOver
  <2>1. /\ walk' = None /\ DOMAIN profile' = {} /\ pc' = "idle"
    BY <1>2 DEF StartOver, Equipped, Remembered, IInv, TypeInv, Resting, EmptyTree
  <2> QED
    BY <2>1 DEF LoadersKnown, ChaseEnds, Source
<1>3. CASE Replay \/ Unpack \/ Job \/ Finish \/ Retag \/ UNCHANGED vars
  <2>1. UNCHANGED <<profile, walk, unread>> /\ (moved => moved')
    <3>1. Replay \/ UNCHANGED vars => UNCHANGED <<profile, walk, unread, moved>>
      BY DEF Replay, StartReplay, Replayed, Place, Stray, vars
    <3>2. Unpack \/ Job \/ Finish \/ Retag => UNCHANGED <<profile, walk, unread>>
      BY DEF Unpack, Job, Finish, Retag
    <3>3. Unpack \/ Job \/ Finish \/ Retag => (moved => moved')
      BY DEF Unpack, Job, Finish, Retag
    <3> QED
      BY <1>3, <3>1, <3>2, <3>3
  <2>2. LoadersKnown /\ ChaseEnds /\ Source /\ Rebuilt
    BY <2>1 DEF Equipped, Remembered
  <2>3. UNCHANGED vars => LoadersKnown' /\ ChaseEnds' /\ Source'
    BY <2>2 DEF vars, LoadersKnown, Chasing, ChaseEnds, Source, Whole
  <2>4. ASSUME Replay \/ Unpack \/ Job \/ Finish \/ Retag
        PROVE  walk = None
    BY <2>4 DEF Replay, StartReplay, Replayed, Place, Stray, Unpack, Job, Finish, Retag,
      Equipped, Remembered, IInv, TypeInv, Resting
  <2>5. walk = None => LoadersKnown' /\ ChaseEnds'
    BY <2>1, <2>2 DEF LoadersKnown, Chasing, ChaseEnds
  <2>6. Unpack => Source'
    BY DEF Unpack, Source, Whole, Equipped, Remembered, IInv, TypeInv, TypeOK
  <2>7. ASSUME Job PROVE Source'
    <3>1. CASE root' \in Left
      BY <2>7, <3>1 DEF Job, Source, Whole
    <3>2. CASE UNCHANGED root
      BY <2>1, <2>2, <2>7, <3>2 DEF Job, Source, Whole, Rebuilt
    <3> QED
      BY <2>7, <3>1, <3>2 DEF Job
  <2>8. Replay \/ Finish \/ Retag => Source'
    BY DEF Replay, StartReplay, Replayed, Place, Stray, Finish, Retag, Source
  <2> QED
    BY <1>3, <2>3, <2>4, <2>5, <2>6, <2>7, <2>8
<1> QED
  BY <1>1, <1>2, <1>3 DEF Next

\* If the trees of the images and of the jobs have the loaders their files name, so has
\* the root of a warm run, for any files and any chain of loaders that fits the limit.
THEOREM LoadersFollow ==
  ASSUME CompleteTrees
  PROVE  Spec => []LoadersThere
<1>1. Init => Equipped
  BY IInvInit DEF Init, EmptyTree, Equipped, Remembered, Rebuilt, Trail, LoadersKnown, ChaseEnds,
    Source
<1>2. Equipped /\ [Next]_vars => Equipped'
  BY EquippedNext
<1>3. Equipped => LoadersThere
  <2> SUFFICES ASSUME Equipped, pc = "warm", ~moved, ~unread,
                      NEW p \in DOMAIN root, Chased(root[p])
               PROVE  Resolve(root, Loader[root[p].content]) # None
    BY DEF LoadersThere
  <2> DEFINE loader == Loader[root[p].content]
  <2>1. IsTree(root) /\ Rebuilt /\ LoadersKnown /\ walk = None
    BY DEF Equipped, Remembered, IInv, TypeInv, TypeOK, Resting
  <2>2. p \in DOMAIN profile /\ profile[p] = root[p]
    BY <2>1 DEF Rebuilt
  <2>3. Ends(profile, SpotOf(loader)) # {}
    BY <2>1, <2>2 DEF LoadersKnown, Chasing
  <2>4. PICK y \in Ends(profile, SpotOf(loader)) : TRUE
    BY <2>3
  <2>5. Grown(profile, root) /\ IsTree(profile)
    BY <2>1, MakesTree DEF Rebuilt, Grown, Equipped, Remembered, IInv, TypeInv, TypeOK, Steady,
      Rooted, Known
  <2>6. loader \in Ref
    <3>1. Kind(root, p) = "file"
      BY DEF Chased, Kind
    <3> QED
      BY <2>1, <3>1, Kinds, LoaderAssumption DEF Chased
  <2>7. Leads(root, SpotOf(loader), y)
    BY <2>1, <2>4, <2>5, LeadsGrown DEF Ends
  <2>8. Go(root)[SpotOf(loader)] = y.cur
    BY <2>1, <2>4, <2>6, <2>7, LeadsResolve, SpotType DEF Ends
  <2>9. y.cur # None
    BY <2>4, NoneAssumption DEF Ends, Spot
  <2> QED
    BY <2>8, <2>9, ResolveGo
<1> QED
  BY <1>1, <1>2, <1>3, PTL DEF Spec
=============================================================================
