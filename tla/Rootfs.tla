------------------------------- MODULE Rootfs -------------------------------
(***************************************************************************)
(* What a run learns of its root, and what the next one makes of it,         *)
(* src/rootfs.rs: record_within walks an observed path through the root of   *)
(* the job and keeps every directory, link and file it meets in the profile; *)
(* build_from_profile replays the profile, one entry after another, into an  *)
(* empty directory.                                                         *)
(*                                                                          *)
(* A tree is a function on the paths that exist in it, a path a sequence of  *)
(* names.  Modes and the cache are FileCache's; which runs happen, when a    *)
(* profile is saved and what happens at an error are Pipeline's.             *)
(***************************************************************************)
EXTENDS Integers, SequencesExt

CONSTANTS
  Name,       \* names of files and directories, "." and ".." not among them
  Pseudo,     \* PSEUDO_ROOTS: names in the root directory
  Content,    \* file contents
  Loader,     \* Content -> the loader a binary names, None for other files
  Image,      \* trees the tag can name
  Left,       \* trees a job can leave behind instead of the one it got
  Observed,   \* what jobs ask for
  MaxHops,    \* MAX_SYMLINK_HOPS
  MaxDepth,   \* MAX_INTERP_DEPTH
  Faults,     \* SUBSET {"read"}: reading or caching a file may fail
  None

Part == Name \cup {".", ".."}
Ref == [abs : BOOLEAN, parts : Seq(Part)]
Path == Seq(Name) \ {<<>>}

Dir == [kind |-> "dir"]
Special == [kind |-> "special"]
Entry == {Dir} \cup [kind : {"file"}, content : Content] \cup [kind : {"link"}, to : Ref]
Node == Entry \cup {Special}

\* A place on the way through a tree: where one is, what is left, links followed.
Spot == [cur : Seq(Name), rest : Seq(Part), hops : 0..MaxHops]

\* A walk of record_within: the path asked for, where it is, and loaders gone on to.
Walk == [ref : Ref, cur : Seq(Name), rest : Seq(Part), hops : 0..MaxHops, depth : 0..MaxDepth]

\* The directories on the way to p.
Above(p) == {SubSeq(p, 1, i) : i \in 1..(Len(p) - 1)}

Kind(t, p) == IF p \in DOMAIN t THEN t[p].kind ELSE "none"

IsTree(t) ==
  \A p \in DOMAIN t : p \in Path /\ t[p] \in Node /\ \A q \in Above(p) : Kind(t, q) = "dir"

EmptyTree == [p \in {} |-> Dir]

ASSUME NameAssumption == {".", ".."} \cap Name = {}
ASSUME ImageAssumption == Image # {} /\ \A t \in Image \cup Left : IsTree(t)
ASSUME LoaderAssumption == Loader \in [Content -> Ref \cup {None}]
ASSUME ObservedAssumption == Observed \subseteq Ref /\ None \notin Ref
ASSUME NoneAssumption == None \notin Spot \cup Walk \cup Seq(Name)
ASSUME BoundAssumption == MaxHops \in Nat /\ MaxDepth \in Nat

VARIABLES
  pc,         \* "idle", "replay", "cold" or "warm" (the job is next), "record"
  image,      \* the tree the tag names now
  profile,    \* path -> entry
  root,       \* the tree under the job
  todo,       \* paths still to be replayed
  walk,       \* record_within: the walk through the root, or None
  learned,    \* history: walks that were completed, and where they led
  unread,     \* history: a read or a put has failed
  moved       \* history: a job left a tree that is at odds with an entry of the profile

vars == <<pc, image, profile, root, todo, walk, learned, unread, moved>>

TypeOK ==
  /\ pc \in {"idle", "replay", "cold", "warm", "record"}
  /\ image \in Image
  /\ \A p \in DOMAIN profile : p \in Path /\ profile[p] \in Entry
  /\ IsTree(root)
  /\ todo \subseteq DOMAIN profile
  /\ walk \in Walk \cup {None}
  /\ \A l \in learned : l \in [ref : Ref, at : Seq(Name)]
  /\ unread \in BOOLEAN /\ moved \in BOOLEAN

Init ==
  /\ pc = "idle" /\ image \in Image
  /\ profile = EmptyTree /\ root = EmptyTree /\ todo = {}
  /\ walk = None /\ learned = {} /\ unread = FALSE /\ moved = FALSE

-----------------------------------------------------------------------------
(* build_from_profile *)

\* A warm run: the profile is replayed into an empty directory.
StartReplay ==
  /\ pc = "idle" /\ DOMAIN profile # {}
  /\ pc' = "replay" /\ root' = EmptyTree /\ todo' = DOMAIN profile
  /\ UNCHANGED <<image, profile, walk, learned, unread, moved>>

\* Mutant of Ready: a map without an order.
ReadyAny(p) == p \in todo

\* A path comes after the paths above it; the order is otherwise that of their names.
Ready(p) == p \in todo /\ Above(p) \cap todo = {}

\* Something on the way to p is no directory, or a directory that no entry asked for
\* is where p should be.
Blocked(p) ==
  \/ \E q \in Above(p) : Kind(root, q) \notin {"none", "dir"}
  \/ p \in DOMAIN root /\ profile[p] # Dir

\* create_dir_all makes what is missing above p, then p itself is made.
Place(p) ==
  /\ pc = "replay" /\ Ready(p) /\ ~Blocked(p)
  /\ root' = [q \in DOMAIN root \cup Above(p) \cup {p} |->
                IF q = p THEN profile[p] ELSE IF q \in DOMAIN root THEN root[q] ELSE Dir]
  /\ todo' = todo \ {p}
  /\ UNCHANGED <<pc, image, profile, walk, learned, unread, moved>>

\* The call fails and the run with it; or, below a link, p is made wherever the link
\* leads, which is not followed here.
Stray(p) ==
  /\ pc = "replay" /\ Ready(p) /\ Blocked(p)
  /\ \/ pc' = "idle" /\ root' = EmptyTree /\ todo' = {}
     \/ /\ \E q \in Above(p) : Kind(root, q) = "link"
        /\ todo' = todo \ {p}
        /\ UNCHANGED <<pc, root>>
  /\ UNCHANGED <<image, profile, walk, learned, unread, moved>>

Replayed ==
  /\ pc = "replay" /\ todo = {}
  /\ pc' = "warm"
  /\ UNCHANGED <<image, profile, root, todo, walk, learned, unread, moved>>

-----------------------------------------------------------------------------
(* record_path and record_within *)

Keep(p, e) == profile' = [q \in DOMAIN profile \cup {p} |-> IF q = p THEN e ELSE profile[q]]

IsPseudo(ref) == ref.parts # <<>> /\ Head(ref.parts) \in Pseudo

Start(ref, depth) ==
  [ref |-> ref, cur |-> <<>>, rest |-> ref.parts, hops |-> 0, depth |-> depth]

\* What the walk has in front of it.
Walking == pc = "record" /\ walk # None /\ walk.rest # <<>>
Here == Append(walk.cur, Head(walk.rest))
AtEnd == Tail(walk.rest) = <<>>
Meets == Walking /\ Head(walk.rest) \in Name

\* An observed path: one that is relative, or names a pseudo root, is dropped.
Ask(ref) ==
  /\ pc = "record" /\ walk = None
  /\ ref.abs /\ ~IsPseudo(ref)
  /\ walk' = Start(ref, 0)
  /\ UNCHANGED <<pc, image, profile, root, todo, learned, unread, moved>>

\* "." and ".."
Dots ==
  /\ Walking /\ Head(walk.rest) \in {".", ".."}
  /\ walk' = [walk EXCEPT
       !.rest = Tail(@),
       !.cur = IF Head(walk.rest) = ".." /\ @ # <<>> THEN Front(@) ELSE @]
  /\ UNCHANGED <<pc, image, profile, root, todo, learned, unread, moved>>

\* Nothing there, nothing a profile could hold, or a file on the way to something.
Dropped ==
  /\ Meets
  /\ \/ Kind(root, Here) \in {"none", "special"}
     \/ Kind(root, Here) = "file" /\ ~AtEnd
  /\ walk' = None
  /\ UNCHANGED <<pc, image, profile, root, todo, learned, unread, moved>>

\* Mutants of FollowLink: no limit; the link itself is not kept.
FollowLinkForEver ==
  /\ Meets /\ Kind(root, Here) = "link"
  /\ Keep(Here, root[Here])
  /\ LET to == root[Here].to IN
       walk' = [walk EXCEPT !.hops = @ + 1, !.rest = to.parts \o Tail(@),
                            !.cur = IF to.abs THEN <<>> ELSE @]
  /\ UNCHANGED <<pc, image, root, todo, learned, unread, moved>>

FollowLinkUnkept ==
  /\ Meets /\ Kind(root, Here) = "link" /\ walk.hops < MaxHops
  /\ LET to == root[Here].to IN
       walk' = [walk EXCEPT !.hops = @ + 1, !.rest = to.parts \o Tail(@),
                            !.cur = IF to.abs THEN <<>> ELSE @]
  /\ UNCHANGED <<pc, image, profile, root, todo, learned, unread, moved>>

\* A link is kept, and its target put in front of what is left.
FollowLink ==
  /\ Meets /\ Kind(root, Here) = "link" /\ walk.hops < MaxHops
  /\ Keep(Here, root[Here])
  /\ LET to == root[Here].to IN
       walk' = [walk EXCEPT !.hops = @ + 1, !.rest = to.parts \o Tail(@),
                            !.cur = IF to.abs THEN <<>> ELSE @]
  /\ UNCHANGED <<pc, image, root, todo, learned, unread, moved>>

\* One link too many: an error, and what was kept stays.
TooManyHops ==
  /\ Meets /\ Kind(root, Here) = "link" /\ walk.hops = MaxHops
  /\ walk' = None
  /\ UNCHANGED <<pc, image, profile, root, todo, learned, unread, moved>>

EnterDir ==
  /\ Meets /\ Kind(root, Here) = "dir"
  /\ Keep(Here, Dir)
  /\ walk' = [walk EXCEPT !.cur = Here, !.rest = Tail(@)]
  /\ UNCHANGED <<pc, image, root, todo, learned, unread, moved>>

\* Mutant of AfterFile: the loader is left to the tracer.
AfterFileUnloaded(file) == None

\* What is left to do after a file: the walk to the loader it names.
AfterFile(file) ==
  LET loader == Loader[file.content] IN
  IF loader # None /\ loader.abs /\ walk.depth < MaxDepth /\ ~IsPseudo(loader)
  THEN Start(loader, walk.depth + 1)
  ELSE None

\* The file at the end is read, cached and kept.
KeepFile ==
  /\ Meets /\ Kind(root, Here) = "file" /\ AtEnd
  /\ Keep(Here, root[Here])
  /\ learned' = learned \cup {[ref |-> walk.ref, at |-> Here]}
  /\ walk' = AfterFile(root[Here])
  /\ UNCHANGED <<pc, image, root, todo, unread, moved>>

\* Reading or caching it fails: an error, and the directories above it stay.
ReadFails ==
  /\ "read" \in Faults
  /\ Meets /\ Kind(root, Here) = "file" /\ AtEnd
  /\ walk' = None /\ unread' = TRUE
  /\ UNCHANGED <<pc, image, profile, root, todo, learned, moved>>

\* The path ends in a directory.
Arrived ==
  /\ pc = "record" /\ walk # None /\ walk.rest = <<>>
  /\ learned' = learned \cup {[ref |-> walk.ref, at |-> walk.cur]}
  /\ walk' = None
  /\ UNCHANGED <<pc, image, profile, root, todo, unread, moved>>

-----------------------------------------------------------------------------
(* The rest of a run *)

\* A cold run gets the whole image.
Unpack ==
  /\ pc = "idle"
  /\ pc' = "cold" /\ root' = image
  /\ UNCHANGED <<image, profile, todo, walk, learned, unread, moved>>

\* Only the contents of files may change under an entry.
AtOdds(t) ==
  \E p \in DOMAIN profile \cap DOMAIN t :
    t[p] # profile[p] /\ ~(t[p].kind = "file" /\ profile[p].kind = "file")

\* The job runs, and may leave another tree behind.
Job ==
  /\ pc \in {"cold", "warm"}
  /\ pc' = "record" /\ root' \in {root} \cup Left
  /\ moved' = (moved \/ AtOdds(root'))
  /\ UNCHANGED <<image, profile, todo, walk, learned, unread>>

\* All observations are folded in; the root goes away.
Finish ==
  /\ pc = "record" /\ walk = None
  /\ pc' = "idle" /\ root' = EmptyTree
  /\ UNCHANGED <<image, profile, todo, walk, learned, unread, moved>>

\* A fallback, or a run on another image, starts a new profile.
StartOver ==
  /\ pc = "idle"
  /\ profile' = EmptyTree /\ learned' = {} /\ unread' = FALSE /\ moved' = FALSE
  /\ UNCHANGED <<pc, image, root, todo, walk>>

\* The tag moves.
Retag ==
  /\ pc = "idle"
  /\ image' \in Image
  /\ UNCHANGED <<pc, profile, root, todo, walk, learned, unread, moved>>

-----------------------------------------------------------------------------
Record ==
  \/ \E ref \in Observed : Ask(ref)
  \/ Dots \/ Dropped \/ FollowLink \/ TooManyHops \/ EnterDir \/ KeepFile \/ ReadFails
  \/ Arrived

Replay ==
  \/ StartReplay \/ Replayed
  \/ \E p \in todo : Place(p) \/ Stray(p)

Next == Replay \/ Record \/ Unpack \/ Job \/ Finish \/ StartOver \/ Retag

Spec == Init /\ [][Next]_vars

-----------------------------------------------------------------------------
(* Properties *)

SpotOf(ref) == [cur |-> <<>>, rest |-> ref.parts, hops |-> 0]

\* Where a kernel is one step later, the root being t's; None if there is no step.
After(t, x) ==
  LET here == Append(x.cur, Head(x.rest))
      meets == IF Head(x.rest) \in Name THEN Kind(t, here) ELSE Head(x.rest)
  IN
  CASE meets = "." -> [x EXCEPT !.rest = Tail(@)]
    [] meets = ".." -> [x EXCEPT !.cur = IF @ = <<>> THEN @ ELSE Front(@), !.rest = Tail(@)]
    [] meets = "dir" \/ (meets = "file" /\ Tail(x.rest) = <<>>) ->
         [x EXCEPT !.cur = here, !.rest = Tail(@)]
    [] meets = "link" /\ x.hops < MaxHops ->
         [x EXCEPT !.cur = IF t[here].to.abs THEN <<>> ELSE @,
                   !.rest = t[here].to.parts \o Tail(@), !.hops = @ + 1]
    [] OTHER -> None

\* Where it gets to that resolves a reference; None when it does not get anywhere.
Resolve(t, ref) ==
  LET go[x \in Spot] == IF x.rest = <<>> THEN x.cur
                        ELSE IF After(t, x) = None THEN None
                        ELSE go[After(t, x)]
  IN  go[SpotOf(ref)]

\* A file that names a loader recording goes on to.
Chased(e) ==
  e.kind = "file" /\ Loader[e.content] # None
    /\ Loader[e.content].abs /\ ~IsPseudo(Loader[e.content])

\* Every loader named in t is there, and counts for less than the file that names it.
Ranked(t, rank) ==
  \A p \in DOMAIN t :
    Chased(t[p]) =>
      LET q == Resolve(t, Loader[t[p].content])
      IN  q # None /\ rank[p] > 0 /\ (q \in DOMAIN t => rank[q] < rank[p])

\* There are at most MaxDepth loaders in a row, and none is missing.
Complete(t) == \E rank \in [DOMAIN t -> 0..MaxDepth] : Ranked(t, rank)

\* Images, and what jobs leave instead, have the loaders their files name.
CompleteTrees == \A t \in Image \cup Left : Complete(t)

\* A path that was recorded to its end leads to the same place in the root of a warm
\* run: through "..", through every link, in whatever order the entries came and
\* whichever later run replaced the contents (rootfs.rs:324-329, profile.rs:23-28).
\* Nothing is said once a directory or a link was exchanged for something else.
RecordedResolves ==
  pc = "warm" /\ ~moved => \A l \in learned : Resolve(root, l.ref) = l.at

\* A binary placed in a warm root finds the loader it names, though the tracer never
\* sees the kernel open it (rootfs.rs:475-483), if the loaders are there in the images and
\* unless a file could not be read.
LoadersThere ==
  pc = "warm" /\ ~moved /\ ~unread =>
    \A p \in DOMAIN root :
      Chased(root[p]) => Resolve(root, Loader[root[p].content]) # None

\* As long as the trees agree on what is a directory or a link, nothing stands in the
\* way of a replay (rootfs.rs:283-284), and no directory is made for want of an entry.
ReplayUnhindered ==
  pc = "replay" /\ ~moved =>
    \A p \in todo : Ready(p) => ~Blocked(p) /\ Above(p) \subseteq DOMAIN root
=============================================================================
