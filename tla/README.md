# mepul, modelled and checked

TLA+ models of `mepul`, a runner that assembles the root filesystem of a CI job out of
the files earlier runs of the same pipeline opened. The modules are translated from
the source (`src/src/*.rs`, `src/bpf/observe.bpf.c`); TLC checks them on small
instances, TLAPS proves the main properties for every value of their constants.
`PROJECT.json` says which lines each definition models, which hazard each property is
for, and which change of the code each property would notice.

## 1. The system

A `mepul run` does this (`run.rs`): load the pipeline's **profile**; go *warm* when it
is for this image and the **file cache** holds all it names, *cold* otherwise; make a
root (warm: replay the profile out of the cache; cold: pull the image from the
**registry**, unpack its layers); mount it **disposably**; start the job in it, held
at a **gate** until the **tracer** and its **kernel observer** are live; when the job
is over, record what it opened in the cache and in the profile; fall back to a cold
run when a warm one failed; save the profile. `mepul pull` instead streams the image to the
Docker engine as one archive.

| Component | State it keeps | Operations | Interacts with | Hard behaviours | Correct when |
|---|---|---|---|---|---|
| File cache `filecache.rs` | names `<hash>`, `<hash>.tmp`, `<hash>.m<mode>` and the inodes behind them | `put`, `materialize`, `ensure_view`, `contains` | every run on the host, the roots it hard-links into | processes sharing a temporary, kills between system calls, eviction, shared inodes | an entry is whole and has its mode; a placed file keeps bytes and mode |
| Run orchestration `run.rs` | mode, working profile, exit code, fell back | `run`, `choose_mode`, `execute` | all other parts | overlapping runs, stale look at the cache, fallback, aborted runs | failures reported are the job's own, the profile improves, a profile that failed is forgotten |
| Access profile `profile.rs` | one JSON file per pipeline, `<pipeline>.tmp` | `load`, `insert`, `required_digests`, `save` | run, rootfs | lost updates, a shared temporary, names that collide, a file that does not parse | what it names is backed by the cache and of one image; the file is whole |
| Rootfs, record and replay `rootfs.rs` | a tree, the profile, the walk through the tree | `record_path`, `build_from_profile` | tracer (paths in), cache | links, `..`, loops, loaders nobody observes, a tree that changes between runs | what was recorded resolves to the same place when replayed |
| Rootfs, layers `rootfs.rs` | a tree on disk | `extract_layers`, whiteouts | blob store | the order of entries within a layer, directories and files that meet, skipped entries | the tree is what the layers declare |
| Rootfs, mounts `rootfs.rs`, `run.rs` | mounts, workspace directory | `Disposable::mount`, `Drop`, `Workspace` | run, kernel | each step can fail, names are used again | nothing is left behind, a root is its own run's |
| Kernel observer `bpf/observe.bpf.c` | maps `tracked`, `inside` | fork, exit, chroot and seven reporting programs | kernel tasks, the ring | ids reused, maps full, failing chroot, execve in a thread | exactly the job's calls inside its root are reported |
| Tracer and gate `trace.rs` | probes, ring, channel, flag, FIFO | `Tracer::start`, `stop`, `drain`, `GatedJob` | job, observer, run | attach before the gate opens, flag and last events, a job that dies at the gate | nothing is unseen, nothing is lost, the call returns |
| Blob store `store.rs` | `<hash>` and `<hash>.tmp` of layers, a set of tasks | `resolve_blobs` | registry, `extract_layers`, archive writer | tasks and runs that share a temporary, a failed task that aborts the others in a write | what is unpacked is the blob |
| Registry client `registry.rs` | the state of a request | manifest and blob requests, the token | network | tags that move between two requests, tokens that expire, one retry | one image, all of it, from one answer |
| OCI archive `oci_archive.rs`, Docker engine `docker_engine.rs` | what of the archive has been sent, lines not yet complete | one request, one tar stream, one answer | Docker, blob store | bounded sockets both ways, answers that come early, in pieces or are cut off, blobs that vanish | done means loaded |
| Command line `main.rs` | none | `pull`, `run`, `profile` (reads and prints) | all | | |
| Image references, types, build script | none | parsing, printing, compiling | | | unit-tested parsing |

## 2. The modules

| Module | Role |
|---|---|
| `ContentStore` | abstract: contents that are there or not there, files placed from them |
| `FileCache` | the cache, one action per file system call; implements `ContentStore` |
| `Pipeline` | `run`, `choose_mode`, `execute` over the profile and the cache as a set |
| `Rootfs` | what a run learns of its root, and how the next one rebuilds it |
| `Disposal` | workspaces, mounts and their undoing, one execution after another |
| `TempFile` | write a temporary, rename it into place: the calls two stores share |
| `Stores` | profiles and blobs as files, and the runs and tasks that write them; extends `TempFile` |
| `Layers` | layers and whiteouts, entry by entry |
| `Registry` | the requests of one pull |
| `DockerLoad` | one exchange with the Docker engine |
| `PullCommand` | `mepul pull`: composes `Registry` and `DockerLoad` (`INSTANCE`) |
| `Observer` | the maps of the BPF programs against the tasks the kernel really has |
| `Tracer` | main thread, reader thread and gated job over ring and channel |
| `MC…` | constants and symmetry of the instances TLC checks |
| `…Proofs` | theorems about the module they extend; `ImageProofs` about `Layers` and `PullCommand` |

The cut between them is the code's own: `Pipeline` and `Rootfs` use the cache as
`ContentStore` describes it (atomic, whole), which `FileCache` is shown to implement;
`Pipeline` uses trees without directories and links, whose replay is `Rootfs`; `Tracer`
takes the job as one source of events, and which tasks are that source is `Observer`.
`Pipeline` saves and loads in one step; that what is loaded is what was saved is
`Stores`, which also says that `Layers` unpacks whole blobs. What the resolution of
blobs means for a pull is in `Registry`, what it does to the disk in `Stores`.

### FileCache

Names map to inodes, inodes to the chunks of the right content they hold and to a mode,
so a torn file is a missing chunk and a hard link is two names of one inode. A process
is where it stands between two system calls: `put` is `PutCheck` (the existence test),
`PutOpenExisting`/`PutOpenNew` (`O_CREAT|O_TRUNC` on the shared temporary), `PutWrite`
per chunk, `PutChmod`, `PutRename`, and `PutTmpGone` when another process has taken the
temporary; `materialize` and `ensure_view` are `MatCheck` to `LinkFails`. `Fail` ends a
process anywhere (an error or a kill), `EvictEntry` and `EvictView` remove files from
outside. Left out: `create_dir_all`, and `digests`/`size_of`, which change nothing.

Three specifications: `Spec` (everything), `CalmSpec` (no fault, any interleaving),
`SerialSpec` (faults and evictions, no two processes storing one content at once). The
split is the point: `PublishedComplete` needs writers that take turns, because
`<hash>.tmp` is one name in every process (`filecache.rs:170`).

### Pipeline

`Begin` is `run` up to the mode, `Pull`/`Place`/`PlaceFails` prepare the root, `Job`
runs and observes (a job touches the paths of a branch, stops or degrades at a missing
file, fails by itself, leaves other contents behind), `Record`/`RecordFails` fold one
path in, `FallBack` starts the profile over and goes cold, `Save` counts and saves.
`Abort` ends a run anywhere, `Evict` and `Retag` are the world. The counter stays put
at `MaxRuns`: `run.rs:115` adds one without a bound, which no run of TLC could follow, and
none of the properties the runs check is about the number. `TypeOK` adds to the types that a run under way
works on a profile for the image it was asked for. What the properties say about the code that its comments do not:

- `Improving` and `CountKept` (proved, not in a run) hold for runs that do not overlap; load and save have no
  lock between them, so of two overlapping runs the later save wins.
- An eviction between `choose_mode` and the replay ends the run with an error and is
  not redone cold (`PlaceFails`): only an exit code is (`run.rs:96`).
- `StartsOver`: what a run that fell back saves is the root of its one cold job, and
  nothing of the profile that failed, though the tag may move between the two jobs and
  a job may write over what it has read. It holds for overlapping runs, too.
- `--cold` on another image discards the profile, and runs are counted without the
  tracer too.
- `--no-trace` leaves the profile alone (`UntracedKeeps`) except when a warm run's job fails:
  the fallback then observes nothing and an empty profile is saved. The documentation
  only says that the profile stops improving.

### Rootfs

A tree is a function on paths to directories, files, links and special files. The walk
of `record_within` is a record: what it resolves, where it is, what is left, links
followed, depth. One action per branch of its loop: `Dots`, `Dropped` (nothing there,
not regular, a file in the middle), `FollowLink` (keeps the link, splices the target),
`TooManyHops`, `EnterDir`, `KeepFile` (keeps the file, goes on to its loader), `ReadFails`
and `Arrived`. A replay is `StartReplay`, then `Place` per entry, parents first (any
order that has this property, of which that of the `BTreeMap` is one), and `Stray` when
something stands in the way: the call fails, or the entry is made wherever a link leads,
which is not followed further as nothing is claimed of such a root. `Unpack`, `Job` and
`Finish` are the rest of a run, `StartOver` a fallback or another image, `Retag` the
registry. Failing runs and the saving of profiles are `Pipeline`'s, modes `FileCache`'s.
A content stands for the bytes of a file including the loader an ELF header names.

`After` is one step of a kernel that resolves a reference in a tree, from one `Spot`
to the next; `Resolve` repeats it and says where the reference leads. The properties
are about it, never about the walk of the recording. `Complete` says of a tree that every
loader its files name is there and that no chain of them is longer than `MaxDepth`, the
bound at which the recording stops following: `CompleteTrees` says it of the images and of
what jobs leave. A dynamically linked image that runs at all has it; it is a hypothesis of
one theorem and holds in the instance (`MCRootfs` assumes it, so TLC evaluates it).

`moved` remembers that a job was given, or left, a tree at odds with an entry: a
directory or link where the profile has something else. Until then a replay is
unhindered and what was recorded resolves to where it was; afterwards the profile can
mix two trees, which takes no fault: a tag that moves between two cold runs is enough.

### Disposal

Executions are numbered as they begin and take turns on a directory: a fallback and the
run before it have one pid, and pids come back. `Create` takes a directory over if it is
there; `Fill`/`PrepareFails` stand for the preparation; `Mount`, `MountFails` and
`PopulateDev` are `Disposable::mount`, `Job` the rest of `execute`; `UmountProc`,
`UmountOverlay`, `UmountTmpfs`, `Remove` and `RemoveFails` are `Drop` with its returns. The
kernel's side is `At` (a path leads to the latest mount on it, `proc` lies in the
overlay) and `UmountAt` (detaching takes along what lies inside). `Kill` may come anywhere.
`spoilt` remembers which executions were kept from cleaning up: killed, failed before
there was a `Disposable`, an unmount or the removal failed. A mount that fails, an error
of the job and a `proc` that stays are not among them: those clean up, and the
properties say so. What follows a spoilt execution in its directory is exempt from
`FreshRoot`, because `create_dir_all` does not notice (`run.rs:351`).

### Stores

`TempFile` has inodes named by the writer that created them, and `Open` (`O_CREAT|O_TRUNC`,
takes over a temporary that is there), `Write` (at the writer's own offset, so an inode
emptied meanwhile gets a gap) and `Rename` (by name). `Stores` adds who calls them: a
run saves one profile (`FileOf` goes through `sanitize`), and has a task per layer.
`Begin`, `Show` (`mepul profile`) and `Refuse` are `Profile::load`; `Cached`, `NotCached`, `Fetched` and `FetchFails`
are `resolve_blob` up to its save; `SaveOpen`, `SaveChunk`, `SaveRename` and `SaveFails`
are `save_to_cache` and `Profile::save`; `Join`, `AbortTask` and `Leave` are the `JoinSet`
(dropped with the first error: waiting tasks are aborted, a `tokio::fs::write` that has
begun ends in its thread); `Unpack` and `UnpackFails` open the blobs in order. `Kill` and
`Evict` are the world. `raced` remembers files two writers had in hand at once, `cut`
files on which a write ended early; the properties name them as their exceptions:

- `PublishedWhole` is about every file not in `raced`. With two writers a torn profile
  is reachable, and it is worse than a lost one: `load` treats it as an error, so
  every later run of the pipeline ends there (`Refuse`) until somebody removes it.
- `JoinedWhole` is about files in `raced`, too: the tasks of one run may race for a digest
  the image names twice, and a reader would see a torn blob; joining them is what makes
  it whole. A race and a write that is cut off leave a short blob for good, which no
  run verifies again (`store.rs:71`).

### Layers

An image is read entry by entry, chosen freely up to `MaxEntries`: `UnpackDir`,
`UnpackFile`, `Skip`, `Whiteout`, `Opaque`, then `NextLayer`, `Unpacked` or `LayerFails`. The
reference is `Declared`, which looks at layers as sets of entries: a path is what the last
layer that gives it makes it, unless a later one takes it away. `AsDeclared` compares the
two in every state, and names where they differ: `Late` (a whiteout behind an entry of
its own layer deletes it, because deletion happens on the tree) and `Conflict` (a directory
and a file that meet without a whiteout between them: `unpack_in` fails, a warning
is printed, and the root keeps what was there, whatever the later layer says).

### Registry, DockerLoad, PullCommand

A request is `Send`, and after a `Challenge` by the registry `FetchToken` and one retry; a
second 401 is `Refused`. `TagAnswer`, `ManifestAnswer` and `NoPlatform` are `pull` and
`resolve_manifest`, `BlobAnswer` and `BlobCached` `resolve_blob`, which asks of a cached blob only whether the file exists. The registry may move its
tag at any time, expire a token it has given, and fail.

`DockerLoad` has a queue of `ReqCap` chunks to the engine and one of `RespCap` lines back.
The client: `Connect`, `SendEntry` per entry of `write_oci_archive` (a cached blob goes out as
it is, and `torn` remembers those that were not whole), `EntryFails` (a cached
blob that cannot be opened any more) and `Abandon` (the `tar::Builder` ends its stream
when dropped), `Finish` (ends the body), `BrokenPipe`; then `ReadHead` to `AnswerCut`. A
line is good or an error; an error comes as two pieces, and the second may be missing,
as a last line without a newline. The engine is not mepul's: it reads (`Take`), may
report before it has everything, loads at the end of the archive or of the body, refuses,
closes, dies. It compares what it gets with the digests: of an archive with a torn blob it says that
it is no image (`Good`), so a torn blob fails the pull and is never loaded. `PullCommand` runs one and then the other; its own definitions carry
the prefix `Pull`, because the proofs extend it together with `Layers`, whose faults
are `LayerFaults`. `hurt` and `broken` record what the world did; `FailsForAReason` says that
nothing else makes a pull fail, except a blob in `torn`. That one can be mepul's own doing:
`Stores` reaches a short blob through the temporary its writers share, `resolve_blob` does not look
inside, `append_blob` copies what is there, and the file stays. So every later pull of that
image fails until somebody removes it.

Fairness: the registry answers and mepul goes on (`Pull`, `Load`, `Talk`: nothing else
runs in a pull), and the engine reads, writes, and loads once it has the whole body;
nothing is assumed of early progress, refusals, crashes, tags and tokens. mepul has no timeout
anywhere in a pull, so an engine or a registry that never answers keeps it for ever,
and the assumption that they do is needed for `Returns`. It excepts `Stuck`, which is reachable:
the archive is written to its end before the first byte of the answer is read, so
an engine that reports progress into a full socket and a client that writes into a full
socket wait for each other. How early an engine reports is its own affair (`MaxEarly`).

### Observer

`task` and `root` are the kernel's truth, `tracked` and `inside` the maps with `Cap`
entries and unchecked insertions. `Fork` runs `on_fork`, `Exit` `on_exit`, `Chroot`
`on_chroot` (on entry of the call: it fires for a call that fails, too), `Touch` any of
the reporting programs. `HostStart` brings processes that are not the job's, with
ids that were used before; `ExecThread` is an execve of a thread that is not the leader,
which moves the task to another id. `spoilt` remembers what has gone wrong, and each
property says which of it breaks it: a failed chroot or a thread's execve can report
the host, an overflow or a thread's execve can miss the job, an overflow can report a
task whose children are not followed.

### Tracer

Main thread: `Spawn`, `Seed`, `Attach` per probe, `StartReader`, `OpenGate` (a FIFO opens for
a writer once a reader waits), `WriteGate` or, if the job has died in between, `GateBroken`
(EPIPE), `Wait`, `Stop` (raises the flag), `Join`, `Collect`. Reader: `Take`, `Empty`, `Check`.
Job: `Park` at the gate, `Chroot`, `Touch`. `StartFails`, `Kill` (the job dies before it
has read the gate) and the lives of descendants (`End`, `OrphanEnds`) are the environment. `Rest`
is the stutter of a finished run.

`Touch` has no bound: the job and its descendants call as often as they like. `ring` is the ring in
its order; of the job's calls the model only keeps which paths it is owed (`owed`: those of
calls that found room), and of the channel and the result which paths are in them, so that the
states stay finite without a limit on events. The order of the result is wording and left out. A call
that finds the ring full is seen by the program and dropped (`observe.bpf.c:85-87`): it is
neither in `unseen` nor in `owed`, and nothing is claimed of it; `drain`'s comment says that the
ring is large enough. `TypeOK` includes that only paths that decode pass through the channel.

Fairness: `WF(MainStep)` and `WF(ReaderStep)`, since the kernel schedules both
threads; `WF(Park)`, since the shell it starts has nothing to do but open the gate;
`WF(End)`, since a run waits for a job that ends and `mepul` has no timeout for one that
does not. Nothing is assumed of `Kill`, `StartFails`, `OrphanEnds` or of how often job and
descendants call. `Returns` then says that mepul gets its answer, with two exceptions, both
reachable. `Stuck`: the job died before the gate was opened; opening the FIFO for writing blocks as
long as there is no reader, and there will be none. `Fed`: descendants outlive the job
(the namespace of `run.rs:318` is for mounts only, nothing ends them) and put into
the ring for ever; `drain` leaves only after a pass that found nothing, so it may never
leave, and `stop` joins it.

`Pipeline`'s `StableSpec` (weak fairness per run, no evictions, aborts or failures) says
CI keeps invoking the pipeline and runs end; it is used for `Converges` only.

## 3. The runs

| Run | Question | Instance |
|---|---|---|
| `cache_serial` | Is what is published and placed whole, through faults and evictions, with writers that take turns? Is every system call one atomic operation of the store? | 2 processes, 1 content, 2 chunks, 2 modes, 5 inodes |
| `cache_calm` | What remains true when writers race and nothing fails? | the same |
| `run_pair` | Backed profiles, honest failures, no mixing of images | 2 overlapping runs, 2 paths, 2 contents, 2 tags |
| `run_serial` | Does the profile improve, does `--no-trace` leave it alone, does a fallback forget the one that failed? | 1 run at a time, moving tags, jobs that write, with and without the tracer |
| `run_stable` | Does a job that does not change end up warm? | 2 runs, weak fairness |
| `rootfs_replay` | Does what was recorded resolve to the same place, loaders included? | 7 names, 2 images that disagree, 7 references, 2 hops, 1 loader |
| `disposal_turns` | Does a job have a root of its own, and does nothing of it stay? | 3 executions, 2 workspaces, every call failing, kills |
| `observer_job` | Who is reported? | 4 ids, maps of 3, failing chroot, execve in a thread |
| `stores_pair` | Are profiles and blobs whole, with runs and tasks that share temporaries? | 2 runs and a reader, 2 pipeline names with one file, profiles of 2 and 1 chunks, 1 blob of 2 chunks that one image has twice, everything failing |
| `layers_union` | Is the root what the layers declare? | 3 layers, 5 entries, a file in a directory in a directory |
| `pull_command` | Does "done" mean loaded? Is a failure somebody's fault? Does a pull end? | 2 lists (one without the platform), 2 manifests, 2 blobs, sockets of 1 and 2, 2 early lines, blobs that vanish or are torn |
| `tracer_job` | Is anything unseen or lost? Does mepul get its answer? | 3 probes, 3 paths (one does not decode), ring of 2, any number of calls, failing attach, a kill |

Why the bounds are enough for the cases that matter: two chunks make a file that is
half written; two processes are what a shared temporary takes; five inodes are one
for each name and one for a private copy of each process; four ids let one be handed
out again while job and host live, and three entries let a map overflow while the other does not; a
ring of two fills, drains and overflows, as often as the job likes; two hops follow one link behind
another and run into a loop; two images that exchange a link for a directory
are the smallest pair at odds; three executions are one that leaves mounts, one that meets
them and one after both. A second profile that is shorter than the first shows what `O_TRUNC`
is for; two chunks and three writers of one blob let one overtake another; one chunk and two
lines fill a socket both ways; three layers are one that gives a path, one that takes it away and
one that brings it back, and five entries leave two to be in the way. `MaxRuns`, `MaxExecutions`, `MaxLayers`, `MaxEntries`,
`MaxEarly`, `MaxHops` (40 in the code) and
`MaxDepth` (4 in the code) are named in the modules. Deadlock is checked in every run.

Symmetry is used where the constants are interchangeable and no liveness is checked
with it: processes and inodes of `FileCache` (its refinement property is
a safety property), the runs of `run_pair`, the workspaces of `Disposal`, the ids of
`Observer` other than the first.

### What the models show that the code does not say

No run fails; these are reachable states the properties name as their exceptions.

- File cache: `<hash>.tmp` is shared. A process that opens it with `O_TRUNC` just
  before another renames it empties the entry that is being published. While all
  writers live the entry heals (`StillBeingWritten`); a writer that is killed leaves it
  short, and nobody rewrites an entry that exists. The blob store and the profiles
  have the same race; a torn profile stops its pipeline.
- Tracer: the reader leaves when the flag is up and its last pass found nothing; that
  pass may have ended before the job's last events, in spite of `trace.rs:144-145`.
  `KeptIfLooked` is what holds. Descendants that outlive the job and never stop opening
  files keep `mepul run` from returning (`trace.rs:168-184`); `Returns` excepts them.
- Replay: entries of two versions of a tag are merged, and an entry's directory may have
  become a link, in spite of `profile.rs:9-11`. The warm run then fails before its job
  starts, with an error rather than an exit code, so it is not redone cold, and `--cold`
  merges into the same profile: only a job failing in a warm run, another image,
  or removing the file starts it over.
- Layers: a layer that replaces a directory by a file without a whiteout is not followed.
- Pull: a blob torn by the shared temporary passes for cached and fails every later pull
  of its image; client and engine can block each other for ever; an answer that is not
  chunked looks complete when the engine dies; an early refusal is reported as a broken
  pipe, and what the engine said about it stays unread.

## 4. The proofs

All theorems hold for every value of the constants that satisfies the modules' named
assumptions (`None` is no value of its type, sizes are natural numbers, constants have
their types). None assumes that a set is finite. `LoadersFollow` has one hypothesis more,
`CompleteTrees`, and `RealAlways` with
what follows from it is about `FixedSpec` and jobs that do not write.

- `FileCacheProofs`. `SerialInvariant` proves the inductive `IInv`: inodes that are being
  written and inodes a reader can reach are disjoint (`Separate`), no inode has two
  temporaries or two copiers, every writer has as many chunks down as it thinks, views
  and entries are whole. `PublishedComplete` alone is not inductive: a rename publishes
  whatever the temporary holds. It gives `EntriesComplete`, `PlacedFilesFaithful` and, with
  "what is cached was put before", `Refinement`: each system call maps to one step of
  `ContentStore` or none. `CalmInvariant` does the same for races without faults: every
  missing chunk is ahead of some writer.
- `PipelineProofs`. `BackedAlways`: what a run works on is cached or was evicted.
  `RealAlways` (tags that stay, jobs that do not write): a run's root agrees with its
  image, and a failure is only reported after a cold run. `Continues`: the only run
  continues the file on disk. From these `ProfilesBacked`,
  `ProfilesOfTheirImage`, `ReportedFailuresReal`, `CountNeverBack`, `ProfileImproves`.
  `Untouched`: an untraced run has nothing to record and works on the entries of the file
  or, fallen back, on none, hence `UntracedLeavesProfile`. `Anew`: the profile of a run
  that fell back names nothing until its second job is over, and then only what that job's
  root held, hence `FallBackForgets`; `StartsOver` speaks of the step that saves,
  which says nothing of the many steps (`Pull`, `Job`, `Record`, `RecordFails`) between the
  fallback and it.
- `ObserverProofs`. `MapsExact`: the maps are sound until a fault breaks them, complete
  until another does, and a job process that sees the host has one thread. From it
  `OnlyTheJobReported`, `WholeJobReported`, `ReportedAreFollowed`, for any faults.
- `TracerProofs`. `Gated`: whoever is behind the gate is seeded and every probe is
  attached, hence `NoBlindSpot`; `Delivered`: what decodes of what the job is owed is in the ring, the
  channel or the result, hence `LookedKeepsAll`.
- `RootfsProofs`. `ProfilesRooted`: until something moved, every directory above an entry
  is an entry, a walk has kept each directory it entered, what a walk meets does not
  contradict the profile, and a root under construction is the replayed part of
  it. The walk is the reason for the strengthening: an entry is inserted long after
  the directories above it. From it `ReplaysUnhindered`.
  `Resolve` is a recursive function of spots, and nothing in the prover unfolds it for every
  argument. `Leads` takes its place: y follows from x when it is in every set of spots that
  contains x and is closed under `After`. `GoDefined` shows that the function which picks an
  end of that trail solves the recursive equation of `Resolve`, so `Resolve` satisfies its equation,
  and then the spots that resolve as x does are closed under `After`: wherever x leads,
  it resolves to the same end (`LeadsResolve`).
  So "resolves to the same place in two trees" becomes a statement about two closed sets,
  which a bigger tree can only prolong (`LeadsGrown`). `Remembered` adds that the root of a warm
  run is what the profile says (`Rebuilt`), and that the profile leads from each recorded
  reference to where it was found, and from the reference of the walk in progress to where
  that walk stands (`Trail`): `RecordingsResolve`.
  `Equipped` adds what loaders need: the profile alone leads from the
  loader of each of its files to an end, unless the walk in progress is on its way to that
  loader (`LoadersKnown`); such a walk gets there, and what it finds has a chain of loaders no
  longer than may still follow (`ChaseEnds`); the tree that is walked is an image's or a
  job's, or the profile has all of it (`Source`). The rank of `Complete` sinks along the
  chain, so the recording never stops at its own depth bound: `LoadersFollow`.
- `DisposalProofs`. `MountsClaimed`: one live execution per directory and it is the latest,
  flags are set in mount order, and it has mounted exactly what it claims. Unmounting by
  path needs all three: `AtOwn` shows that the mount a path leads to is the caller's. From
  it `RootsFresh`, `NothingLeftBehind`, `RemovalBare`, `OnlyOwnUnmounted`.
- `StoresProofs`. `StoresInvariant`: a writer that has not opened its file owns no inode
  (`Fresh`), inodes stay with their file and what is published is nobody's temporary (`Owned`),
  the only writer of an unraced file has the temporary open, holding what it has written
  (`Alone`), and every chunk a blob lacks is ahead of somebody who has its inode open,
  unless a write was cut off (`Ahead`). `PublishedWhole` alone is not inductive, as the rename
  publishes what the writes before it left; `JoinedWhole` needs `Ahead`, because the
  file may be torn while the tasks run. From it `WholeAlone` and `WholeOnceJoined`, for any
  runs, pipelines, images and sizes.
- `ImageProofs`, layers. `Origin`: a file in the tree has an entry in its layer that is not taken away
  and no later layer has that file; a directory has an entry at or below it. `Lost`: what is
  not in the tree though a layer gave it was taken away or is excused. `AsDeclared`
  says nothing of the layer a file came from and of entries that were skipped, so it is not
  inductive; with `Origin` and `Lost` it follows in every state: `RootsAsDeclared`.
- `ImageProofs`, pull. `OkMeansLoaded` compares what the client reads with what the engine did
  many steps before, and `EndedWhole` says nothing of a stream that has not ended, so neither
  is inductive. `PullInv` describes the exchange between them, one conjunct for each party: `Asked` (which
  manifest and blobs are in hand and what had to happen for a request to fail), `Sent` (what was
  written so far is a beginning of the archive, or all of it and the end of the body, or a
  beginning and an end of archive because a blob was lost; what is on its way followed
  by what was taken is exactly what was written), `Served` (what the engine has loaded, and
  why it is gone), `Answered` (what is left to read has its lines in order and nothing
  after its end, and an engine that did not load has an error on its way, whole or in
  pieces, or will be cut off). TLC finds it true in all states of `pull_command`. From it
  `PullLoads`, `WholeArchives`, `FailuresHaveReasons`, for any images, archives and sockets.
- `PullTyping` and each `Typing` prove the module's type invariant.

So every safety invariant and every action property a run checks is a theorem, and the refinement
too. Only model-checked: liveness (both `Returns`, `Converges`), which the prover cannot do.

## 5. What is not modelled, and the plan

Left to do:

1. `Stores` as an implementation of the atomic load and save of `Pipeline`, for runs that
   take turns on a file.
2. Links in `Layers`: entries that are unpacked, and whiteouts that are applied, through a link.

Not planned: image references and JSON types (parsing, covered by unit tests), the parsing of
the command line, the build script. A manifest is taken to be what its digest says, though
`registry.rs` does not compare the two: the registry is trusted in the model. Within modelled
parts: the verbose report and all printing, `create_dir_all` of the cache's own
directories, file ownership, extended attributes, and the parsing of ELF headers.
