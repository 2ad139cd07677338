------------------------------- MODULE Stores -------------------------------
(***************************************************************************)
(* The two stores beside the file cache: profiles (src/profile.rs) and       *)
(* downloaded blobs (src/store.rs), as the runs on a host use them (run and  *)
(* execute in src/run.rs).                                                   *)
(*                                                                          *)
(* A run loads its pipeline's profile; a cold one resolves the blobs of its  *)
(* image, one task per blob, joins the tasks and unpacks; then it saves the  *)
(* profile.  Nothing locks either store.  What a profile says and which mode *)
(* follows from it is Pipeline's, what a layer does to a root is Layers's.   *)
(***************************************************************************)
EXTENDS TempFile

CONSTANTS
  Proc,       \* invocations of mepul, each a run ...
  Shows,      \* ... except these: `mepul profile`, which only reads
  Pipeline,   \* names of pipelines
  PipelineOf, \* Proc -> Pipeline
  sanitize,   \* Pipeline -> File: several names can have one file
  Blob,       \* digests; the content of a blob is what its digest says
  Pulls,      \* Proc -> sequence of blobs: the layers of its image, one or more if it runs
  Size,       \* a run's profile, or a blob -> number of its chunks
  Faults      \* SUBSET {"download", "write", "kill", "evict"}

\* The tasks of a run are numbered by blob, its save is number 0.
Tasks(p) == {<<p, i>> : i \in DOMAIN Pulls[p]}
Saver(p) == <<p, 0>>

ASSUME StoresAssumption ==
  /\ Shows \subseteq Proc
  /\ None \notin Blob
  /\ PipelineOf \in [Proc -> Pipeline]
  /\ sanitize \in [Pipeline -> File \ Blob]
  /\ Blob \subseteq File
  /\ Pulls \in [Proc -> Seq(Blob)]
  /\ Writer = UNION {{Saver(p)} \cup Tasks(p) : p \in Proc}
  /\ Size \in [Proc \cup Blob -> Nat \ {0}]
  /\ Proc \cap Blob = {}

\* profile_path, cache_blob_path
FileOf(w) == IF w[2] = 0 THEN sanitize[PipelineOf[w[1]]] ELSE Pulls[w[1]][w[2]]

\* What it writes: the profile of this run, or the blob.
Data(w) == IF w[2] = 0 THEN w[1] ELSE Pulls[w[1]][w[2]]
Whole(d) == [k \in 1 .. Size[d] |-> <<d, k>>]

VARIABLES
  pc,     \* Proc -> where the run is
  at,     \* Writer -> where a task, or the save, is
  pos,    \* Writer -> chunks it has written
  saved,  \* history: File -> what was being saved by the last rename, or None
  raced,  \* history: files two writers had in hand at once
  cut     \* history: files on which a write ended before its end

vars == <<files, pc, at, pos, saved, raced, cut>>

Writing(w) == at[w] \in {"write", "rename"}

TypeOK ==
  /\ published \in [File -> Writer \cup {None}] /\ tmp \in [File -> Writer \cup {None}]
  /\ bytes \in [Writer -> Seq({None} \cup ((Proc \cup Blob) \X (Nat \ {0})))]
  /\ fd \in [Writer -> Writer \cup {None}]
  /\ pc \in [Proc -> {"new", "resolve", "failing", "unpack", "job", "save", "over"}]
  /\ at \in [Writer -> {"idle", "exists", "fetch", "open", "write", "rename",
                        "cached", "downloaded", "unpacked", "over"}]
  /\ pos \in [Writer -> Nat] /\ \A w \in Writer : pos[w] <= Size[Data(w)]
  /\ saved \in [File -> Proc \cup Blob \cup {None}]
  /\ raced \subseteq File /\ cut \subseteq File
  /\ \A w \in Writer : Writing(w) => fd[w] # None

Init ==
  /\ InitFiles
  /\ pc = [p \in Proc |-> "new"]
  /\ at = [w \in Writer |-> "idle"]
  /\ pos = [w \in Writer |-> 0]
  /\ saved = [f \in File |-> None]
  /\ raced = {} /\ cut = {}

Goto(p, l) == pc' = [pc EXCEPT ![p] = l]
Move(w, l) == at' = [at EXCEPT ![w] = l]
UnchangedHistory == UNCHANGED <<saved, raced, cut>>

\* The content behind a name.
Holds(f) == bytes[published[f]]

\* A JSON file that is not the whole of some profile is none.
Parses(f) == published[f] # None /\ \E q \in Proc : Holds(f) = Whole(q)

-----------------------------------------------------------------------------
(* The run around the stores *)

\* Profile::load: no file is no profile.  A cold run spawns its tasks; so does, only later,
\* a warm one that falls back.
Begin(p) ==
  LET f == FileOf(Saver(p)) IN
  /\ pc[p] = "new" /\ p \notin Shows
  /\ \/ /\ published[f] = None \/ Parses(f)
        /\ Goto(p, "resolve")
        /\ at' = [w \in Writer |-> IF w \in Tasks(p) THEN "exists" ELSE at[w]]
     \/ /\ Parses(f)
        /\ Goto(p, "job")
        /\ UNCHANGED at
  /\ UNCHANGED <<files, pos>> /\ UnchangedHistory

\* show_profile prints what it has loaded, if there is a profile.
Show(p) ==
  LET f == FileOf(Saver(p)) IN
  /\ pc[p] = "new" /\ p \in Shows
  /\ published[f] = None \/ Parses(f)
  /\ Goto(p, "over")
  /\ UNCHANGED <<files, at, pos>> /\ UnchangedHistory

\* A profile that does not parse is an error, for this command and every later one.
Refuse(p) ==
  LET f == FileOf(Saver(p)) IN
  /\ pc[p] = "new"
  /\ published[f] # None /\ ~Parses(f)
  /\ Goto(p, "over")
  /\ UNCHANGED <<files, at, pos>> /\ UnchangedHistory

\* Mutant: as soon as there is a source for every digest.
JoinEarly(p) ==
  /\ pc[p] = "resolve"
  /\ \A w \in Tasks(p) : \E v \in Tasks(p) :
       FileOf(v) = FileOf(w) /\ at[v] \in {"cached", "downloaded"}
  /\ Goto(p, "unpack")
  /\ UNCHANGED <<files, at, pos>> /\ UnchangedHistory

\* resolve_blobs returns when every task has.
Join(p) ==
  /\ pc[p] = "resolve"
  /\ \A w \in Tasks(p) : at[w] \in {"cached", "downloaded"}
  /\ Goto(p, "unpack")
  /\ UNCHANGED <<files, at, pos>> /\ UnchangedHistory

\* extract_layer, one after the other: a cached blob is opened only now, a downloaded
\* one is in memory.
Unpack(w) ==
  LET p == w[1] IN
  /\ pc[p] = "unpack"
  /\ \A v \in Tasks(p) : v[2] < w[2] => at[v] = "unpacked"
  /\ \/ at[w] = "downloaded"
     \/ at[w] = "cached" /\ published[FileOf(w)] # None /\ Holds(FileOf(w)) = Whole(Data(w))
  /\ Move(w, "unpacked")
  /\ IF \A v \in Tasks(p) : v[2] <= w[2] THEN Goto(p, "job") ELSE UNCHANGED pc
  /\ UNCHANGED <<files, pos>> /\ UnchangedHistory

\* It is gone, or no gzip stream any more: the run fails.
UnpackFails(w) ==
  /\ pc[w[1]] = "unpack"
  /\ \A v \in Tasks(w[1]) : v[2] < w[2] => at[v] = "unpacked"
  /\ at[w] = "cached"
  /\ published[FileOf(w)] # None => Holds(FileOf(w)) # Whole(Data(w))
  /\ Goto(w[1], "over")
  /\ UNCHANGED <<files, at, pos>> /\ UnchangedHistory

\* The job is over, the profile is saved.
StartSave(p) ==
  /\ pc[p] = "job"
  /\ Goto(p, "save")
  /\ Move(Saver(p), "open")
  /\ UNCHANGED <<files, pos>> /\ UnchangedHistory

-----------------------------------------------------------------------------
(* resolve_blob: there, or downloaded and verified *)

\* Whatever is behind the name will do, and is looked at when it is unpacked.
Cached(w) ==
  /\ at[w] = "exists" /\ published[FileOf(w)] # None
  /\ Move(w, "cached")
  /\ UNCHANGED <<files, pc, pos>> /\ UnchangedHistory

NotCached(w) ==
  /\ at[w] = "exists" /\ published[FileOf(w)] = None
  /\ Move(w, "fetch")
  /\ UNCHANGED <<files, pc, pos>> /\ UnchangedHistory

\* The bytes have the size and the digest of the descriptor.
Fetched(w) ==
  /\ at[w] = "fetch"
  /\ Move(w, "open")
  /\ UNCHANGED <<files, pc, pos>> /\ UnchangedHistory

\* No answer, or the wrong bytes.
FetchFails(w) ==
  /\ "download" \in Faults
  /\ at[w] = "fetch"
  /\ Move(w, "over")
  /\ Goto(w[1], "failing")
  /\ UNCHANGED <<files, pos>> /\ UnchangedHistory

\* A failed task drops the JoinSet: the others are aborted where they wait.  A write that
\* has begun runs on in its thread (see SaveChunk); the rename after it may be spared.
AbortTask(w) ==
  /\ pc[w[1]] = "failing"
  /\ w \in Tasks(w[1]) /\ at[w] \in {"exists", "fetch", "open", "rename"}
  /\ Move(w, "over")
  /\ UNCHANGED <<files, pc, pos>> /\ UnchangedHistory

\* The runtime waits for threads that write.
Leave(p) ==
  /\ pc[p] = "failing"
  /\ \A w \in Tasks(p) : ~Writing(w)
  /\ Goto(p, "over")
  /\ at' = [w \in Writer |-> IF w \in Tasks(p) THEN "over" ELSE at[w]]
  /\ UNCHANGED <<files, pos>> /\ UnchangedHistory

-----------------------------------------------------------------------------
(* save_to_cache and Profile::save *)

After(w) == IF w[2] = 0 THEN "over" ELSE "downloaded"
EndOf(w) ==
  /\ Move(w, After(w))
  /\ IF w[2] = 0 THEN Goto(w[1], "over") ELSE UNCHANGED pc

InHand(w) == {v \in Writer \ {w} : FileOf(v) = FileOf(w) /\ Writing(v)}

\* Mutant: without O_TRUNC.
SaveOpenOver(w) ==
  LET f == FileOf(w)
      i == IF tmp[f] = None THEN w ELSE tmp[f]
  IN
  /\ at[w] = "open"
  /\ tmp' = [tmp EXCEPT ![f] = i]
  /\ fd' = [fd EXCEPT ![w] = i]
  /\ Move(w, "write")
  /\ raced' = IF InHand(w) # {} THEN raced \cup {f} ELSE raced
  /\ UNCHANGED <<published, bytes, pc, pos, saved, cut>>

SaveOpen(w) ==
  /\ at[w] = "open"
  /\ Open(w, FileOf(w))
  /\ Move(w, "write")
  /\ raced' = IF InHand(w) # {} THEN raced \cup {FileOf(w)} ELSE raced
  /\ UNCHANGED <<pc, pos, saved, cut>>

\* Mutant: one chunk too many.
SaveChunkMore(w) ==
  /\ at[w] = "write"
  /\ Write(w, pos[w] + 1, <<Data(w), pos[w] + 1>>)
  /\ pos' = [pos EXCEPT ![w] = @ + 1]
  /\ IF pos[w] = Size[Data(w)] THEN Move(w, "rename") ELSE UNCHANGED at
  /\ UNCHANGED pc /\ UnchangedHistory

SaveChunk(w) ==
  /\ at[w] = "write"
  /\ Write(w, pos[w] + 1, <<Data(w), pos[w] + 1>>)
  /\ pos' = [pos EXCEPT ![w] = @ + 1]
  /\ IF pos[w] + 1 = Size[Data(w)] THEN Move(w, "rename") ELSE UNCHANGED at
  /\ UNCHANGED pc /\ UnchangedHistory

SaveRename(w) ==
  /\ at[w] = "rename"
  /\ Rename(FileOf(w))
  /\ saved' = [saved EXCEPT ![FileOf(w)] = Data(w)]
  /\ EndOf(w)
  /\ UNCHANGED <<pos, raced, cut>>

\* A call fails, or another writer has taken the temporary: a warning for a blob, which
\* is in memory, the end of the run for a profile.
SaveFails(w) ==
  /\ \/ "write" \in Faults /\ at[w] \in {"open", "write", "rename"}
     \/ at[w] = "rename" /\ tmp[FileOf(w)] = None
  /\ EndOf(w)
  /\ cut' = IF at[w] = "write" THEN cut \cup {FileOf(w)} ELSE cut
  /\ UNCHANGED <<files, pos, saved, raced>>

-----------------------------------------------------------------------------
(* The world *)

Kill(p) ==
  LET own == {Saver(p)} \cup Tasks(p) IN
  /\ "kill" \in Faults
  /\ pc[p] \notin {"new", "over"}
  /\ Goto(p, "over")
  /\ at' = [w \in Writer |-> IF w \in own THEN "over" ELSE at[w]]
  /\ cut' = cut \cup {FileOf(w) : w \in {v \in own : at[v] = "write"}}
  /\ UNCHANGED <<files, pos, saved, raced>>

\* Somebody clears files.
Evict(f) ==
  /\ "evict" \in Faults
  /\ published[f] # None
  /\ published' = [published EXCEPT ![f] = None]
  /\ UNCHANGED <<tmp, bytes, fd, pc, at, pos, saved, raced, cut>>

Run(p) == Begin(p) \/ Show(p) \/ Refuse(p) \/ Join(p) \/ StartSave(p) \/ Leave(p) \/ Kill(p)

Step(w) ==
  \/ Cached(w) \/ NotCached(w) \/ Fetched(w) \/ FetchFails(w) \/ AbortTask(w)
  \/ SaveOpen(w) \/ SaveChunk(w) \/ SaveRename(w) \/ SaveFails(w)
  \/ Unpack(w) \/ UnpackFails(w)

Rest == (\A p \in Proc : pc[p] = "over") /\ UNCHANGED vars

Next ==
  \/ \E p \in Proc : Run(p)
  \/ \E w \in Writer : Step(w)
  \/ \E f \in File : Evict(f)
  \/ Rest

Spec == Init /\ [][Next]_vars

-----------------------------------------------------------------------------
(* Properties *)

\* A file two writers never had in hand at once is whole and is what the last finished
\* save saved, though runs are killed in the middle of a write, calls fail, tasks are
\* aborted, and a later and shorter profile takes over the temporary of a longer one.
\* In particular its pipeline's runs are not refused.
PublishedWhole ==
  \A f \in File \ raced : published[f] # None => Holds(f) = Whole(saved[f])

\* An image may name a digest twice, and its tasks then write one temporary: one can
\* publish what another has just emptied.  By the time the tasks are joined the blob is
\* whole again, so a run unpacks whole blobs, unless another run is still writing one of
\* them or a writer of it did not get to its end.
JoinedWhole ==
  \A p \in Proc : pc[p] = "unpack" =>
    \A w \in Tasks(p) :
      \/ published[FileOf(w)] = None \/ Holds(FileOf(w)) = Whole(Data(w))
      \/ FileOf(w) \in cut \cap raced
      \/ \E v \in Writer : v[1] # p /\ FileOf(v) = FileOf(w) /\ Writing(v)
=============================================================================
