------------------------------ MODULE Pipeline ------------------------------
(***************************************************************************)
(* `mepul run`, src/run.rs: the runs of one pipeline, one after another or   *)
(* at the same time, over the state that survives a run: the profile of the *)
(* pipeline (src/profile.rs) and the set of contents in the file cache.      *)
(*                                                                          *)
(* A root filesystem, an image and the entries of a profile are all trees,  *)
(* Path -> content or None.  Directories, symlinks and modes are left out,   *)
(* as is the tracer: a run observes what its job touched.  Cache calls and   *)
(* Profile::save are atomic here.                                            *)
(***************************************************************************)
EXTENDS Integers

CONSTANTS
  Run,        \* slots for concurrent invocations of `mepul run`
  Path,       \* paths of regular files
  Content,    \* file contents; a content stands for its digest
  Tag,        \* image references
  Upstream,   \* Tag -> tree the registry serves at first
  Branch,     \* the path sets a job may set out to touch
  Behaviour,  \* what jobs may do: SUBSET {"fail", "degrade", "write"}
  Options,    \* command lines: SUBSET [tag : Tag, cold : BOOLEAN, trace : BOOLEAN]
  MaxRuns,    \* bound on the run counter, which then stays put
  None

Tree == [Path -> Content \cup {None}]
EmptyTree == [q \in Path |-> None]
Profile == [image : Tag, runs : 0..MaxRuns, entries : Tree]

ASSUME NoneAssumption ==
  None \notin Content /\ None \notin Tag /\ None \notin Profile
ASSUME UpstreamAssumption == Upstream \in [Tag -> Tree]
ASSUME BranchAssumption == Branch \subseteq SUBSET Path
ASSUME OptionsAssumption == Options \subseteq [tag : Tag, cold : BOOLEAN, trace : BOOLEAN]
ASSUME MaxRunsAssumption == MaxRuns \in Nat

VARIABLES
  image,      \* Tag -> tree the registry serves now
  disk,       \* the profile file: None or a Profile
  cache,      \* contents the file cache holds
  evicted,    \* history: contents that were cached and are gone
  run         \* Run -> local state

vars == <<image, disk, cache, evicted, run>>

\* Local state of a run: where it is, its command line, its mode, the profile it
\* works on, its root (and, history, the image it pulled), the observed paths still
\* to be recorded, the exit code of its job, and whether it fell back.
Pc == {"idle", "prepare", "job", "record", "done", "failed"}
Idle == [pc |-> "idle", opt |-> None, mode |-> None, prof |-> None,
          root |-> EmptyTree, pulled |-> EmptyTree, todo |-> {}, exit |-> 0, fell |-> FALSE]

Local == [pc : Pc, opt : Options \cup {None}, mode : {"cold", "warm", None},
          prof : Profile \cup {None}, root : Tree, pulled : Tree,
          todo : SUBSET Path, exit : {0, 1}, fell : BOOLEAN]

Typed ==
  /\ image \in [Tag -> Tree]
  /\ disk \in Profile \cup {None}
  /\ cache \subseteq Content
  /\ evicted \subseteq Content
  /\ run \in [Run -> Local]

\* A run that is under way works on a profile for the image it was asked for.
TypeOK ==
  /\ Typed
  /\ \A r \in Run : run[r].pc \in {"prepare", "job", "record"} =>
       /\ run[r].opt \in Options /\ run[r].prof \in Profile
       /\ run[r].prof.image = run[r].opt.tag

Init ==
  /\ image = Upstream
  /\ disk = None
  /\ cache = {}
  /\ evicted = {}
  /\ run = [r \in Run |-> Idle]

-----------------------------------------------------------------------------
\* r's local state becomes l.
Become(r, l) == run' = [run EXCEPT ![r] = l]

Named(tree) == {q \in Path : tree[q] # None}
Digests(tree) == {tree[q] : q \in Named(tree)}

\* Profile::new.
NewProfile(tag) == [image |-> tag, runs |-> 0, entries |-> EmptyTree]

\* choose_mode: warm when the profile is for this image, not empty, and all it
\* names is cached.
ChooseMode(opt) ==
  IF /\ ~opt.cold /\ disk # None
     /\ disk.image = opt.tag /\ Named(disk.entries) # {}
     /\ Digests(disk.entries) \subseteq cache
  THEN "warm" ELSE "cold"

\* Mutants of Working: the profile is taken as it is; entries of another image are
\* kept; --cold starts anew.
WorkingAsIs(opt) == IF disk # None THEN disk ELSE NewProfile(opt.tag)
WorkingAnyImage(opt) ==
  IF disk # None THEN [disk EXCEPT !.image = opt.tag] ELSE NewProfile(opt.tag)
WorkingColdAnew(opt) ==
  IF disk # None /\ disk.image = opt.tag /\ ~opt.cold THEN disk ELSE NewProfile(opt.tag)

\* The profile a run works on.
Working(opt) ==
  IF disk # None /\ disk.image = opt.tag THEN disk ELSE NewProfile(opt.tag)

\* run: load the profile and choose the mode.  (Only an eviction can come between
\* the two reads, and it might as well have come before them.)
Begin(r, opt) ==
  /\ run[r].pc \in {"idle", "done", "failed"}
  /\ Become(r, [Idle EXCEPT !.pc = "prepare", !.opt = opt,
                !.mode = ChooseMode(opt), !.prof = Working(opt)])
  /\ UNCHANGED <<image, disk, cache, evicted>>

\* execute, cold: pull and unpack what the tag names now.
Pull(r) ==
  /\ run[r].pc = "prepare" /\ run[r].mode = "cold"
  /\ Become(r, [run[r] EXCEPT !.pc = "job",
                !.root = image[run[r].opt.tag],
                !.pulled = image[run[r].opt.tag]])
  /\ UNCHANGED <<image, disk, cache, evicted>>

\* execute, warm: build_from_profile places every entry from the cache ...
Place(r) ==
  /\ run[r].pc = "prepare" /\ run[r].mode = "warm"
  /\ Digests(run[r].prof.entries) \subseteq cache
  /\ Become(r, [run[r] EXCEPT !.pc = "job", !.root = run[r].prof.entries])
  /\ UNCHANGED <<image, disk, cache, evicted>>

\* ... or bails at the first content that is gone: `?` ends the run.
PlaceFails(r) ==
  /\ run[r].pc = "prepare" /\ run[r].mode = "warm"
  /\ ~(Digests(run[r].prof.entries) \subseteq cache)
  /\ Become(r, [run[r] EXCEPT !.pc = "failed"])
  /\ UNCHANGED <<image, disk, cache, evicted>>

\* What a job can do with a root: touch a branch of paths, all of them or up to
\* the point where it fails; fail for a missing file, or, degrading, go on
\* without; fail for reasons of its own; leave other contents behind.
Outcome(root) ==
  {o \in [touched : SUBSET Path, tree : Tree, exit : {0, 1}] :
     \E b \in Branch :
       LET complete == b \subseteq Named(root) IN
       /\ o.touched \subseteq b
       /\ o.exit = 0 => o.touched = b
       /\ o.exit = 0 => complete \/ "degrade" \in Behaviour
       /\ o.exit = 1 => ~complete \/ "fail" \in Behaviour
       /\ o.tree # root => "write" \in Behaviour}

\* Mutant of Job: the tracer is started in any case.
JobTraced(r) ==
  /\ run[r].pc = "job"
  /\ \E o \in Outcome(run[r].root) :
       Become(r, [run[r] EXCEPT !.pc = "record",
                !.root = o.tree, !.exit = o.exit, !.todo = o.touched])
  /\ UNCHANGED <<image, disk, cache, evicted>>

\* execute: the job runs behind the tracer, or without one.
Job(r) ==
  /\ run[r].pc = "job"
  /\ \E o \in Outcome(run[r].root) :
       Become(r, [run[r] EXCEPT !.pc = "record",
                !.root = o.tree, !.exit = o.exit,
                !.todo = IF run[r].opt.trace THEN o.touched ELSE {}])
  /\ UNCHANGED <<image, disk, cache, evicted>>

\* Mutant of Record: cached, but not named in the profile.
RecordOnlyCaches(r, q) ==
  /\ run[r].pc = "record" /\ q \in run[r].todo
  /\ Become(r, [run[r] EXCEPT !.todo = @ \ {q}])
  /\ cache' = cache \cup ({run[r].root[q]} \ {None})
  /\ UNCHANGED <<image, disk, evicted>>

\* record_path: read the file while the root is still mounted, cache it, name it
\* in the profile.  A path that is not there any more is not recorded.
Record(r, q) ==
  /\ run[r].pc = "record" /\ q \in run[r].todo
  /\ IF run[r].root[q] = None
     THEN /\ Become(r, [run[r] EXCEPT !.todo = @ \ {q}])
          /\ UNCHANGED <<cache, evicted>>
     ELSE /\ Become(r, [run[r] EXCEPT !.todo = @ \ {q},
                                      !.prof.entries[q] = run[r].root[q]])
          /\ cache' = cache \cup {run[r].root[q]}
          /\ evicted' = evicted \ {run[r].root[q]}
  /\ UNCHANGED <<image, disk>>

\* Mutant of RecordFails: the path is named though its content was not stored.
RecordFailsNames(r, q) ==
  /\ run[r].pc = "record" /\ q \in run[r].todo
  /\ Become(r, [run[r] EXCEPT !.todo = @ \ {q}, !.prof.entries[q] = run[r].root[q]])
  /\ UNCHANGED <<image, disk, cache, evicted>>

\* The read or the put fails: a warning, and the next path.
RecordFails(r, q) ==
  /\ run[r].pc = "record" /\ q \in run[r].todo
  /\ Become(r, [run[r] EXCEPT !.todo = @ \ {q}])
  /\ UNCHANGED <<image, disk, cache, evicted>>

\* Mutant of FallBack: the profile that failed is kept.
FallBackKeeps(r) ==
  /\ run[r].pc = "record" /\ run[r].todo = {}
  /\ run[r].mode = "warm" /\ run[r].exit # 0
  /\ Become(r, [run[r] EXCEPT !.pc = "prepare", !.mode = "cold", !.fell = TRUE])
  /\ UNCHANGED <<image, disk, cache, evicted>>

\* run: a warm run whose job failed starts over, cold and with a new profile that
\* keeps the run count.
FallBack(r) ==
  /\ run[r].pc = "record" /\ run[r].todo = {}
  /\ run[r].mode = "warm" /\ run[r].exit # 0
  /\ Become(r, [run[r] EXCEPT !.pc = "prepare", !.mode = "cold", !.fell = TRUE,
                !.prof = [NewProfile(run[r].opt.tag) EXCEPT !.runs = run[r].prof.runs]])
  /\ UNCHANGED <<image, disk, cache, evicted>>

\* One run more; at the bound the counter stays put.
Increment(n) == IF n < MaxRuns THEN n + 1 ELSE n

\* Mutant of Save: a warm failure is reported as it is.
SaveAnyway(r) ==
  /\ run[r].pc = "record" /\ run[r].todo = {}
  /\ disk' = [run[r].prof EXCEPT !.runs = Increment(@)]
  /\ Become(r, [run[r] EXCEPT !.pc = "done"])
  /\ UNCHANGED <<image, cache, evicted>>

\* run: count this run, save the profile and report.
Save(r) ==
  /\ run[r].pc = "record" /\ run[r].todo = {}
  /\ ~(run[r].mode = "warm" /\ run[r].exit # 0)
  /\ disk' = [run[r].prof EXCEPT !.runs = Increment(@)]
  /\ Become(r, [run[r] EXCEPT !.pc = "done"])
  /\ UNCHANGED <<image, cache, evicted>>

-----------------------------------------------------------------------------
(* The environment *)

\* An Err anywhere else (registry, mount, tracer, disk) or a kill: the profile on
\* disk stays as it was.
Abort(r) ==
  /\ run[r].pc \in {"prepare", "job", "record"}
  /\ Become(r, [Idle EXCEPT !.pc = "failed"])
  /\ UNCHANGED <<image, disk, cache, evicted>>

Evict(c) ==
  /\ c \in cache
  /\ cache' = cache \ {c}
  /\ evicted' = evicted \cup {c}
  /\ UNCHANGED <<image, disk, run>>

\* The tag moves to another image.
Retag(t, tree) ==
  /\ image' = [image EXCEPT ![t] = tree]
  /\ UNCHANGED <<disk, cache, evicted, run>>

-----------------------------------------------------------------------------
Step(r) ==
  \/ \E opt \in Options : Begin(r, opt)
  \/ Pull(r) \/ Place(r) \/ PlaceFails(r) \/ Job(r)
  \/ \E q \in Path : Record(r, q) \/ RecordFails(r, q)
  \/ FallBack(r) \/ Save(r)

\* The registry keeps serving the same images.
FixedNext ==
  \/ \E r \in Run : Step(r) \/ Abort(r)
  \/ \E c \in Content : Evict(c)

Next == FixedNext \/ \E t \in Tag, tree \in Tree : Retag(t, tree)

Spec == Init /\ [][Next]_vars
FixedSpec == Init /\ [][FixedNext]_vars

\* Nothing goes wrong around the runs, and CI keeps invoking the pipeline.
GoodStep(r) ==
  \/ \E opt \in Options : Begin(r, opt)
  \/ Pull(r) \/ Place(r) \/ PlaceFails(r) \/ Job(r)
  \/ \E q \in Path : Record(r, q)
  \/ FallBack(r) \/ Save(r)

StableSpec ==
  /\ Init
  /\ [][\E r \in Run : GoodStep(r)]_vars
  /\ \A r \in Run : WF_vars(GoodStep(r))

-----------------------------------------------------------------------------
(* Properties *)

\* Saving is what the step from disk to disk' does.
SavedBy(r) == run[r].pc = "record" /\ run'[r].pc = "done"

\* A content is cached before a profile that outlives the run names it: what a
\* saved profile names is in the cache, or was evicted from it.
Backed == disk # None => Digests(disk.entries) \subseteq cache \cup evicted

\* A failing exit code that is reported comes from a job that had the whole image
\* of this run's tag, never from one that lacked a file (jobs that do not write).
FailuresAreReal ==
  \A r \in Run : run[r].pc = "done" /\ run[r].exit # 0 =>
    run[r].root = run[r].pulled /\ run[r].pulled = Upstream[run[r].opt.tag]

\* While tags stay put and jobs do not write, a profile only names files of the
\* image it is for, though runs on other images replace it all the time.
EntriesFromImage ==
  disk # None =>
    \A q \in Named(disk.entries) : disk.entries[q] = Upstream[disk.image][q]

\* "Both paths are observed, so the profile keeps improving" (src/run.rs): saving
\* a run that did not fall back keeps every path the profile of the image had.  That
\* takes runs that do not overlap: load and save have no lock between them, and of two
\* overlapping runs the one that saves last wins.
Improving ==
  [][\A r \in Run : SavedBy(r) /\ ~run[r].fell /\ disk # None /\ disk.image = disk'.image
       => Named(disk.entries) \subseteq Named(disk'.entries)]_vars

\* "Start the profile over - the one that failed described a rootfs that does not work"
\* (src/run.rs): what a run that fell back saves is the root of its one cold job, and nothing
\* of the profile that failed, though the tag may have moved between the two and the
\* job may have written over what it read.
StartsOver ==
  [][\A r \in Run : SavedBy(r) /\ run[r].fell =>
       \A q \in Named(disk'.entries) : disk'.entries[q] = run[r].root[q]]_vars

\* The run count is history (src/run.rs): for one image it never goes back, not
\* even when a run falls back.
CountKept ==
  [][disk # None /\ disk.image = disk'.image => disk'.runs >= disk.runs]_vars

\* A pipeline whose job always wants the same files ends up running warm for
\* ever, whatever number of runs overlap while it is learning.
Converges == <>[](\A r \in Run : run[r].pc = "job" => run[r].mode = "warm")

\* "--no-trace: Skip observation. The profile stops improving." (README.md): a run
\* without the tracer leaves the entries of its image as they were, whatever its mode;
\* only a fallback, which then has nothing to put in their place, empties them.
UntracedKeeps ==
  [][\A r \in Run : SavedBy(r) /\ ~run[r].opt.trace /\ disk # None /\ disk.image = disk'.image
       => disk'.entries = IF run[r].fell THEN [q \in Path |-> None] ELSE disk.entries]_vars
=============================================================================
