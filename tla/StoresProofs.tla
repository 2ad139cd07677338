---------------------------- MODULE StoresProofs ----------------------------
(***************************************************************************)
(* Theorems about Stores for any runs, pipelines, images and faults.        *)
(***************************************************************************)
EXTENDS Stores, TLAPS

Waiting == {"exists", "fetch", "open"}

\* Where the writers of a run can be.
WhereOf(p) ==
  /\ pc[p] = "new" => \A w \in Tasks(p) : at[w] = "idle"
  /\ pc[p] \notin {"save", "over"} => at[Saver(p)] = "idle"
  /\ at[Saver(p)] \in {"idle", "open", "write", "rename", "over"}
  /\ pc[p] # "save" => at[Saver(p)] \in {"idle", "over"}
  /\ pc[p] \notin {"resolve", "failing"} =>
       \A w \in Tasks(p) : at[w] \notin Waiting \cup {"write", "rename"}
  /\ pc[p] = "unpack" => \A w \in Tasks(p) : at[w] \in {"cached", "downloaded", "unpacked"}
Where == \A p \in Proc : WhereOf(p)

\* A writer that has not opened its file owns no inode.
Unopened(w) == at[w] \in {"idle"} \cup Waiting
Fresh ==
  \A w \in Writer : Unopened(w) =>
    /\ pos[w] = 0
    /\ \A f \in File : published[f] # w /\ tmp[f] # w
    /\ \A v \in Writer : fd[v] # w

\* Inodes stay with their file, and what is published is nobody's temporary.
Owned ==
  /\ \A f \in File :
       /\ published[f] # None => FileOf(published[f]) = f /\ published[f] # tmp[f]
       /\ tmp[f] # None => FileOf(tmp[f]) = f
  /\ \A w \in Writer : fd[w] # None => FileOf(fd[w]) = FileOf(w)

Progress ==
  \A w \in Writer :
    /\ at[w] = "write" => pos[w] < Size[Data(w)]
    /\ at[w] = "rename" => pos[w] = Size[Data(w)]

\* While a file has never had two writers, its writer has the temporary open, which holds
\* what it has written.
Prefix(w) == [k \in 1 .. pos[w] |-> <<Data(w), k>>]
Alone ==
  \A w \in Writer : Writing(w) /\ FileOf(w) \notin raced =>
    /\ \A v \in Writer : Writing(v) /\ FileOf(v) = FileOf(w) => v = w
    /\ fd[w] = tmp[FileOf(w)]
    /\ bytes[fd[w]] = Prefix(w)

\* A blob's inode is never longer than the blob.
Chunks ==
  \A i \in Writer : FileOf(i) \in Blob => Len(bytes[i]) <= Size[FileOf(i)]

\* What a blob lacks is ahead of somebody who writes it, unless a write was cut off.
Has(i, k) == k <= Len(bytes[i]) /\ bytes[i][k] = <<FileOf(i), k>>
Coming(i, k) == \E v \in Writer : Writing(v) /\ fd[v] = i /\ pos[v] < k
Filling(i) == \A k \in 1 .. Size[FileOf(i)] : Has(i, k) \/ Coming(i, k)
Ahead ==
  \A f \in Blob \ cut :
    /\ published[f] # None => Filling(published[f])
    /\ tmp[f] # None => Filling(tmp[f])

SavedBlob == \A f \in Blob : published[f] # None => saved[f] = f

IInv ==
  /\ TypeOK /\ Where /\ Fresh /\ Owned /\ Progress
  /\ Alone /\ Chunks /\ Ahead /\ SavedBlob /\ PublishedWhole

-----------------------------------------------------------------------------
(* Writers and their files *)

LEMMA Writers ==
  /\ \A p \in Proc : Saver(p) \in Writer /\ Saver(p)[1] = p /\ Saver(p)[2] = 0
  /\ \A p \in Proc : Tasks(p) \subseteq Writer /\ \A w \in Tasks(p) : w[1] = p /\ w[2] # 0
  /\ \A w \in Writer : w[1] \in Proc /\ (w = Saver(w[1]) \/ w \in Tasks(w[1]))
  /\ \A w \in Writer : w # None
<1>1. \A p \in Proc : Pulls[p] \in Seq(Blob)  BY StoresAssumption
<1>2. \A p \in Proc : Saver(p)[1] = p /\ Saver(p)[2] = 0  BY DEF Saver
<1>3. \A p \in Proc : \A w \in Tasks(p) : w[1] = p /\ w[2] # 0
  BY <1>1 DEF Tasks
<1>4. \A w \in Writer : \E p \in Proc : w = Saver(p) \/ w \in Tasks(p)
  BY StoresAssumption
<1>5. \A p \in Proc : Saver(p) \in Writer /\ Tasks(p) \subseteq Writer
  BY StoresAssumption
<1> QED  BY <1>2, <1>3, <1>4, <1>5, TempFileAssumption

LEMMA FileFacts ==
  ASSUME NEW w \in Writer
  PROVE  /\ FileOf(w) \in File
         /\ Data(w) \in Proc \cup Blob /\ Size[Data(w)] \in Nat \ {0}
         /\ FileOf(w) \in Blob <=> w[2] # 0
         /\ FileOf(w) \in Blob => Data(w) = FileOf(w)
<1>1. CASE w = Saver(w[1]) /\ w[2] = 0
  <2>1. PipelineOf[w[1]] \in Pipeline  BY Writers, StoresAssumption
  <2>2. FileOf(w) \in File \ Blob  BY <1>1, <2>1, StoresAssumption DEF FileOf
  <2> QED  BY <1>1, <2>2, Writers, StoresAssumption DEF Data
<1>2. CASE w \in Tasks(w[1]) /\ w[2] # 0
  <2>1. w[2] \in DOMAIN Pulls[w[1]]  BY <1>2 DEF Tasks
  <2>2. Pulls[w[1]] \in Seq(Blob)  BY Writers, StoresAssumption
  <2>3. Pulls[w[1]][w[2]] \in Blob  BY <2>1, <2>2
  <2> QED  BY <1>2, <2>3, StoresAssumption DEF FileOf, Data
<1> QED  BY <1>1, <1>2, Writers

LEMMA BlobSize == \A b \in Blob : b \in File /\ Size[b] \in Nat \ {0}
BY StoresAssumption

LEMMA IInvInit == Init => IInv
<1> SUFFICES ASSUME Init  PROVE IInv
  OBVIOUS
<1> USE DEF Init, InitFiles
<1>1. \A w \in Writer : at[w] = "idle" /\ pos[w] = 0 /\ fd[w] = None /\ bytes[w] = <<>>
                        /\ w # None
  BY Writers
<1>2. \A f \in File : published[f] = None /\ tmp[f] = None  OBVIOUS
<1>3. TypeOK
  <2>1. <<>> \in Seq({None} \cup ((Proc \cup Blob) \X (Nat \ {0})))  OBVIOUS
  <2>2. ASSUME NEW w \in Writer  PROVE pos[w] <= Size[Data(w)]
    BY <1>1, FileFacts
  <2>3. \A w \in Writer : ~Writing(w)  BY <1>1 DEF Writing
  <2> QED  BY <2>1, <2>2, <2>3 DEF TypeOK
<1>4. Where  BY <1>1, Writers DEF Where, WhereOf, Waiting
<1>5. Fresh /\ Owned /\ Progress  BY <1>1, <1>2 DEF Fresh, Owned, Progress, Unopened, Waiting
<1>6. Alone  BY <1>1 DEF Alone, Writing
<1>7. Chunks
  <2> SUFFICES ASSUME NEW i \in Writer, FileOf(i) \in Blob
               PROVE  Len(bytes[i]) <= Size[FileOf(i)]
    BY DEF Chunks
  <2>1. Len(bytes[i]) = 0  BY <1>1
  <2> QED  BY <2>1, BlobSize
<1>8. Ahead /\ SavedBlob /\ PublishedWhole
  BY <1>2, BlobSize DEF Ahead, SavedBlob, PublishedWhole
<1> QED  BY <1>3, <1>4, <1>5, <1>6, <1>7, <1>8 DEF IInv

-----------------------------------------------------------------------------
(* Steps that leave the files alone *)

Pc == {"new", "resolve", "failing", "unpack", "job", "save", "over"}
At == {"idle", "exists", "fetch", "open", "write", "rename", "cached", "downloaded",
       "unpacked", "over"}

\* What is needed of a step that moves runs and writers and may stop some that write.
LEMMA QuietInv ==
  ASSUME IInv, UNCHANGED <<published, tmp, bytes, fd, pos, saved, raced>>,
         pc' \in [Proc -> Pc], at' \in [Writer -> At],
         cut \subseteq cut', cut' \subseteq File,
         \A w \in Writer : at'[w] \in {"write", "rename"} => at'[w] = at[w],
         \A w \in Writer : at[w] = "write" /\ at'[w] # "write" => FileOf(w) \in cut',
         \A w \in Writer : Unopened(w)' => Unopened(w),
         Where'
  PROVE  IInv'
<1>1. \A w \in Writer : Writing(w)' => Writing(w) /\ at'[w] = at[w]  BY DEF Writing
<1>2. TypeOK'  BY <1>1 DEF IInv, TypeOK, Pc, At
<1>3. Fresh'  BY DEF IInv, Fresh, Unopened
<1>4. Owned'  BY DEF IInv, Owned
<1>5. Progress'
  <2> SUFFICES ASSUME NEW w \in Writer
               PROVE  /\ at'[w] = "write" => pos[w] < Size[Data(w)]
                      /\ at'[w] = "rename" => pos[w] = Size[Data(w)]
    BY DEF Progress
  <2> QED  BY DEF IInv, Progress
<1>6. Alone'
  <2> SUFFICES ASSUME NEW w \in Writer, Writing(w)', FileOf(w) \notin raced
               PROVE  /\ \A v \in Writer : Writing(v)' /\ FileOf(v) = FileOf(w) => v = w
                      /\ fd[w] = tmp[FileOf(w)]
                      /\ bytes[fd[w]] = Prefix(w)
    BY DEF Alone, Prefix
  <2> QED  BY <1>1 DEF IInv, Alone
<1>7. Chunks'  BY DEF IInv, Chunks
<1>8. ASSUME NEW f \in Blob \ cut', NEW i \in Writer, FileOf(i) = f, Filling(i)
      PROVE  Filling(i)'
  <2> SUFFICES ASSUME NEW k \in 1 .. Size[f], Coming(i, k)
               PROVE  Coming(i, k)'
    BY <1>8 DEF Filling, Has
  <2>1. PICK v \in Writer : Writing(v) /\ fd[v] = i /\ pos[v] < k  BY DEF Coming
  <2>2. FileOf(v) = f /\ Data(v) = f
    BY <1>8, <2>1, FileFacts, Writers DEF IInv, Owned
  <2>3. at[v] # "rename"
    BY <2>1, <2>2, FileFacts DEF IInv, Progress
  <2>4. at'[v] = "write"  BY <1>8, <2>1, <2>2, <2>3 DEF Writing
  <2> QED  BY <2>1, <2>4 DEF Coming, Writing
<1>9. Ahead'
  <2> SUFFICES ASSUME NEW f \in Blob \ cut'
               PROVE  /\ published[f] # None => Filling(published[f])'
                      /\ tmp[f] # None => Filling(tmp[f])'
    BY DEF Ahead, Filling, Has, Coming
  <2>1. f \in File /\ f \in Blob \ cut  BY BlobSize
  <2>2. published[f] # None => published[f] \in Writer /\ FileOf(published[f]) = f
    BY <2>1 DEF IInv, TypeOK, Owned
  <2>3. tmp[f] # None => tmp[f] \in Writer /\ FileOf(tmp[f]) = f
    BY <2>1 DEF IInv, TypeOK, Owned
  <2> QED  BY <1>8, <2>1, <2>2, <2>3 DEF IInv, Ahead
<1>10. SavedBlob' /\ PublishedWhole'
  BY DEF IInv, SavedBlob, PublishedWhole, Holds
<1> QED  BY <1>2, <1>3, <1>4, <1>5, <1>6, <1>7, <1>9, <1>10 DEF IInv

\* A step of one run leaves the others where they are.
LEMMA WhereOthers ==
  ASSUME Where, NEW p \in Proc, WhereOf(p)',
         \A q \in Proc \ {p} : pc'[q] = pc[q],
         \A w \in Writer : w[1] # p => at'[w] = at[w]
  PROVE  Where'
<1> SUFFICES ASSUME NEW q \in Proc, q # p  PROVE WhereOf(q)'
  BY DEF Where
<1>1. /\ pc'[q] = pc[q] /\ at'[Saver(q)] = at[Saver(q)]
      /\ \A w \in Tasks(q) : at'[w] = at[w]
  BY Writers
<1>2. WhereOf(q)  BY DEF Where
<1> QED  BY <1>1, <1>2 DEF WhereOf, Tasks, Saver

\* One writer of a run moves on, and the run perhaps with it.
LEMMA MoveInv ==
  ASSUME IInv, NEW w \in Writer, NEW l \in At, Move(w, l),
         UNCHANGED <<published, tmp, bytes, fd, pos, saved, raced>>,
         l \notin {"write", "rename"}, at[w] # "write" \/ FileOf(w) \in cut',
         cut \subseteq cut', cut' \subseteq File,
         l \in {"idle"} \cup Waiting => Unopened(w),
         NEW r \in Pc, pc' = [pc EXCEPT ![w[1]] = r],
         WhereOf(w[1])'
  PROVE  IInv'
<1>1. TypeOK /\ Where /\ w[1] \in Proc  BY Writers DEF IInv
<1>2. at' \in [Writer -> At] /\ at' = [at EXCEPT ![w] = l]
  BY <1>1 DEF TypeOK, Move, At
<1>3. pc' \in [Proc -> Pc] /\ \A q \in Proc \ {w[1]} : pc'[q] = pc[q]
  BY <1>1 DEF TypeOK, Pc
<1>4. Where'
  BY <1>1, <1>2, <1>3, WhereOthers DEF TypeOK
<1>5. \A v \in Writer : at'[v] \in {"write", "rename"} => at'[v] = at[v]
  BY <1>1, <1>2 DEF TypeOK
<1>6. \A v \in Writer : at[v] = "write" /\ at'[v] # "write" => FileOf(v) \in cut'
  BY <1>1, <1>2 DEF TypeOK
<1>7. \A v \in Writer : Unopened(v)' => Unopened(v)
  BY <1>1, <1>2 DEF TypeOK, Unopened
<1> QED  BY <1>2, <1>3, <1>4, <1>5, <1>6, <1>7, QuietInv

\* A run goes on, its writers stay or are stopped.
LEMMA GoInv ==
  ASSUME IInv, NEW p \in Proc, NEW l \in Pc, Goto(p, l),
         UNCHANGED <<published, tmp, bytes, fd, pos, saved, raced>>,
         cut \subseteq cut', cut' \subseteq File,
         at' \in [Writer -> At],
         \A w \in Writer : w[1] # p => at'[w] = at[w],
         \A w \in Writer : at'[w] \in {"write", "rename"} => at'[w] = at[w],
         \A w \in Writer : at[w] = "write" /\ at'[w] # "write" => FileOf(w) \in cut',
         \A w \in Writer : Unopened(w)' => Unopened(w),
         WhereOf(p)'
  PROVE  IInv'
<1>1. pc' \in [Proc -> Pc] /\ \A q \in Proc \ {p} : pc'[q] = pc[q]
  BY DEF IInv, TypeOK, Pc, Goto
<1>2. Where'  BY <1>1, WhereOthers DEF IInv
<1> QED  BY <1>1, <1>2, QuietInv

LEMMA BeginInv ==
  ASSUME IInv, NEW p \in Proc, Begin(p) \/ Show(p) \/ Refuse(p)
  PROVE  IInv'
<1>1. TypeOK /\ WhereOf(p)  BY DEF IInv, Where
<1>2. CASE Begin(p) /\ Goto(p, "resolve")
  <2>1. /\ pc[p] = "new" /\ UNCHANGED <<published, tmp, bytes, fd, pos, saved, raced, cut>>
        /\ at' = [w \in Writer |-> IF w \in Tasks(p) THEN "exists" ELSE at[w]]
    BY <1>1, <1>2 DEF Begin, Goto, files, UnchangedHistory, TypeOK
  <2>2. pc'[p] = "resolve"  BY <1>1, <1>2 DEF Goto, TypeOK
  <2>3. Saver(p) \notin Tasks(p) /\ Saver(p) \in Writer /\ Tasks(p) \subseteq Writer
        /\ \A w \in Tasks(p) : w[1] = p
    BY Writers
  <2>4. WhereOf(p)'  BY <1>1, <2>1, <2>2, <2>3 DEF WhereOf, Tasks, Saver, Waiting
  <2>5. at' \in [Writer -> At]  BY <1>1, <2>1 DEF TypeOK, At
  <2>6. \A w \in Writer : Unopened(w)' => Unopened(w)
    BY <1>1, <2>1, <2>3 DEF WhereOf, Unopened
  <2>7. \A w \in Writer : at[w] = "write" /\ at'[w] # "write" => FileOf(w) \in cut'
    BY <1>1, <2>1, <2>3 DEF WhereOf
  <2> QED  BY <1>1, <1>2, <2>1, <2>3, <2>4, <2>5, <2>6, <2>7, GoInv DEF Pc, TypeOK
<1>3. CASE (Begin(p) /\ Goto(p, "job") /\ UNCHANGED at) \/ ((Show(p) \/ Refuse(p)) /\ Goto(p, "over"))
  <2>1. PICK l \in {"job", "over"} : Goto(p, l) /\ pc[p] = "new"
          /\ UNCHANGED <<published, tmp, bytes, fd, at, pos, saved, raced, cut>>
    BY <1>3 DEF Begin, Show, Refuse, files, UnchangedHistory
  <2>2. pc'[p] = l  BY <1>1, <2>1 DEF Goto, TypeOK
  <2>3. WhereOf(p)'  BY <1>1, <2>1, <2>2 DEF WhereOf, Tasks, Saver, Waiting
  <2> QED  BY <1>1, <2>1, <2>3, GoInv DEF Pc, TypeOK, At, Unopened
<1> QED  BY <1>2, <1>3 DEF Begin, Show, Refuse

LEMMA JoinInv ==
  ASSUME IInv, NEW p \in Proc, Join(p)
  PROVE  IInv'
<1>1. TypeOK /\ WhereOf(p)  BY DEF IInv, Where
<1>2. /\ Goto(p, "unpack") /\ pc[p] = "resolve"
      /\ \A w \in Tasks(p) : at[w] \in {"cached", "downloaded"}
      /\ UNCHANGED <<published, tmp, bytes, fd, at, pos, saved, raced, cut>>
  BY DEF Join, files, UnchangedHistory
<1>3. pc'[p] = "unpack"  BY <1>1, <1>2 DEF Goto, TypeOK
<1>4. WhereOf(p)'  BY <1>1, <1>2, <1>3 DEF WhereOf, Tasks, Saver, Waiting
<1> QED  BY <1>1, <1>2, <1>4, GoInv DEF Pc, TypeOK, At, Unopened

LEMMA StartSaveInv ==
  ASSUME IInv, NEW p \in Proc, StartSave(p)
  PROVE  IInv'
<1>1. TypeOK /\ WhereOf(p)  BY DEF IInv, Where
<1>2. /\ pc' = [pc EXCEPT ![p] = "save"] /\ pc[p] = "job" /\ Move(Saver(p), "open")
      /\ UNCHANGED <<published, tmp, bytes, fd, pos, saved, raced, cut>>
  BY DEF StartSave, Goto, files, UnchangedHistory
<1>3. /\ Saver(p) \in Writer /\ Saver(p)[1] = p /\ at[Saver(p)] = "idle"
      /\ \A w \in Tasks(p) : w \in Writer /\ w # Saver(p)
  BY <1>1, <1>2, Writers DEF WhereOf
<1>4. /\ pc'[p] = "save" /\ at'[Saver(p)] = "open"
      /\ \A w \in Tasks(p) : at'[w] = at[w]
  BY <1>1, <1>2, <1>3 DEF TypeOK, Move
<1>5. WhereOf(p)'  BY <1>1, <1>2, <1>4 DEF WhereOf, Tasks, Saver, Waiting
<1> QED  BY <1>1, <1>2, <1>3, <1>5, MoveInv DEF Pc, TypeOK, At, Unopened, Waiting

LEMMA LeaveInv ==
  ASSUME IInv, NEW p \in Proc, Leave(p) \/ Kill(p)
  PROVE  IInv'
<1> DEFINE own == {Saver(p)} \cup Tasks(p)
<1>1. TypeOK /\ WhereOf(p)  BY DEF IInv, Where
<1>2. /\ Goto(p, "over") /\ UNCHANGED <<published, tmp, bytes, fd, pos, saved, raced>>
      /\ cut \subseteq cut'
  BY DEF Leave, Kill, files, UnchangedHistory
<1>3. own \subseteq Writer /\ \A w \in Writer : w[1] # p => w \notin own
  BY Writers
<1>4. cut' \subseteq File
  BY <1>1, <1>3, FileFacts DEF TypeOK, Leave, Kill, UnchangedHistory
<1>5. /\ at' \in [Writer -> At]
      /\ \A w \in Writer : at'[w] = at[w] \/ (at'[w] = "over" /\ w \in own)
      /\ \A w \in Tasks(p) : at'[w] = "over"
  BY <1>1, <1>3 DEF Leave, Kill, TypeOK, At
<1>6. \A w \in Writer : at[w] = "write" /\ at'[w] # "write" => FileOf(w) \in cut'
  <2>1. CASE Leave(p)
    <3>1. at[Saver(p)] = "idle"  BY <1>1, <2>1 DEF WhereOf, Leave
    <3> QED  BY <1>5, <2>1, <3>1 DEF Leave, Writing
  <2>2. CASE Kill(p)
    BY <1>3, <1>5, <2>2 DEF Kill
  <2> QED  BY <2>1, <2>2
<1>7. at'[Saver(p)] \in {"idle", "over"}
  <2>1. CASE Leave(p)  BY <1>1, <1>3, <1>5, <2>1 DEF WhereOf, Leave
  <2>2. CASE Kill(p)  BY <1>1, <1>3, <2>2 DEF Kill, TypeOK
  <2> QED  BY <2>1, <2>2
<1>8. pc'[p] = "over"  BY <1>1, <1>2 DEF Goto, TypeOK
<1>9. WhereOf(p)'  BY <1>5, <1>7, <1>8 DEF WhereOf, Tasks, Saver, Waiting
<1>10. /\ \A w \in Writer : Unopened(w)' => Unopened(w)
       /\ \A w \in Writer : at'[w] \in {"write", "rename"} => at'[w] = at[w]
  BY <1>5 DEF Unopened, Waiting
<1> QED
  <2>1. \A w \in Writer : w[1] # p => at'[w] = at[w]  BY <1>3, <1>5
  <2>2. "over" \in Pc  BY DEF Pc
  <2> QED  BY <1>2, <1>4, <1>5, <1>6, <1>9, <1>10, <2>1, <2>2, GoInv

\* The steps of a task that write nothing.
LEMMA TaskInv ==
  ASSUME IInv, NEW w \in Writer,
         \/ Cached(w) \/ NotCached(w) \/ Fetched(w) \/ FetchFails(w) \/ AbortTask(w)
         \/ Unpack(w) \/ UnpackFails(w)
  PROVE  IInv'
<1> DEFINE p == w[1]
<1>1. TypeOK /\ WhereOf(p) /\ p \in Proc  BY Writers DEF IInv, Where
<1>2. at[w] \in {"exists", "fetch", "open", "rename", "cached", "downloaded"}
      /\ (at[w] = "open" \/ at[w] = "rename" => AbortTask(w))
      /\ (at[w] \in {"cached", "downloaded"} => pc[p] = "unpack")
      /\ UNCHANGED <<published, tmp, bytes, fd, pos, saved, raced, cut>>
  BY DEF Cached, NotCached, Fetched, FetchFails, AbortTask, Unpack, UnpackFails, files,
         UnchangedHistory
<1>3. w \in Tasks(p) /\ Saver(p) # w /\ Saver(p) \in Writer /\ Tasks(p) \subseteq Writer
  <2>1. w # Saver(p)
    <3> SUFFICES ASSUME w = Saver(p)  PROVE FALSE
      OBVIOUS
    <3>1. at[w] \in {"open", "rename"}  BY <1>1, <1>2 DEF WhereOf
    <3> QED  BY <1>2, <3>1, Writers DEF AbortTask
  <2> QED  BY <1>1, <2>1, Writers
<1>4. CASE Cached(w) \/ NotCached(w) \/ Fetched(w) \/ FetchFails(w) \/ AbortTask(w)
  <2>1. pc[p] \in {"resolve", "failing"}
    BY <1>1, <1>3, <1>4 DEF WhereOf, Waiting, Cached, NotCached, Fetched, FetchFails, AbortTask
  <2>2. PICK l \in {"cached", "fetch", "open", "over"}, r \in {pc[p], "failing"} :
          /\ Move(w, l) /\ pc' = [pc EXCEPT ![p] = r]
          /\ l \in {"fetch", "open"} => at[w] \in {"exists", "fetch"}
    <3>1. [pc EXCEPT ![p] = pc[p]] = pc  BY <1>1 DEF TypeOK
    <3> QED  BY <1>4, <2>1, <3>1 DEF Cached, NotCached, Fetched, FetchFails, AbortTask, Goto
  <2>3. /\ pc'[p] = r /\ at'[w] = l
        /\ \A v \in Writer : v # w => at'[v] = at[v]
    BY <1>1, <2>2 DEF TypeOK, Move
  <2>4. WhereOf(p)'
    BY <1>1, <1>3, <2>1, <2>3 DEF WhereOf, Tasks, Saver, Waiting
  <2>5. l \in At /\ r \in Pc /\ (l \in {"idle"} \cup Waiting => Unopened(w))
    BY <2>1, <2>2 DEF At, Pc, Unopened, Waiting
  <2>6. at[w] # "write" /\ l \notin {"write", "rename"} /\ cut' \subseteq File
    BY <1>1, <1>2, <2>2 DEF TypeOK
  <2> QED  BY <1>2, <2>2, <2>4, <2>5, <2>6, MoveInv
<1>5. CASE Unpack(w)
  <2>1. pc[p] = "unpack" /\ Move(w, "unpacked")  BY <1>5 DEF Unpack
  <2>2. PICK r \in {"unpack", "job"} : pc' = [pc EXCEPT ![p] = r]
    <3>1. [pc EXCEPT ![p] = pc[p]] = pc  BY <1>1 DEF TypeOK
    <3> QED  BY <1>5, <2>1, <3>1 DEF Unpack, Goto
  <2>3. /\ pc'[p] = r /\ at'[w] = "unpacked"
        /\ \A v \in Writer : v # w => at'[v] = at[v]
    BY <1>1, <2>1, <2>2 DEF TypeOK, Move
  <2>4. WhereOf(p)'
    BY <1>1, <1>3, <2>1, <2>3 DEF WhereOf, Tasks, Saver, Waiting
  <2>5. "unpacked" \in At /\ r \in Pc /\ "unpacked" \notin {"idle"} \cup Waiting
    BY DEF At, Pc, Waiting
  <2>6. at[w] # "write" /\ cut' \subseteq File  BY <1>1, <1>2 DEF TypeOK
  <2> QED  BY <1>2, <2>1, <2>2, <2>4, <2>5, <2>6, MoveInv
<1>6. CASE UnpackFails(w)
  <2>1. Goto(p, "over") /\ at' = at /\ pc[p] = "unpack"  BY <1>6 DEF UnpackFails
  <2>2. pc'[p] = "over"  BY <1>1, <2>1 DEF Goto, TypeOK
  <2>3. WhereOf(p)'  BY <1>1, <2>1, <2>2 DEF WhereOf, Tasks, Saver, Waiting
  <2>4. "over" \in Pc /\ at' \in [Writer -> At] /\ cut' \subseteq File
    BY <1>1, <1>2, <2>1 DEF Pc, At, TypeOK
  <2>5. \A v \in Writer : Unopened(v)' => Unopened(v)  BY <2>1 DEF Unopened
  <2> QED  BY <1>1, <1>2, <2>1, <2>3, <2>4, <2>5, GoInv
<1> QED  BY <1>4, <1>5, <1>6

LEMMA SaveFailsInv ==
  ASSUME IInv, NEW w \in Writer, SaveFails(w)
  PROVE  IInv'
<1> DEFINE p == w[1]
<1>1. TypeOK /\ WhereOf(p) /\ p \in Proc /\ FileOf(w) \in File
  BY Writers, FileFacts DEF IInv, Where
<1>2. /\ at[w] \in {"open", "write", "rename"}
      /\ Move(w, After(w))
      /\ pc' = [pc EXCEPT ![p] = IF w[2] = 0 THEN "over" ELSE pc[p]]
      /\ cut' = IF at[w] = "write" THEN cut \cup {FileOf(w)} ELSE cut
      /\ UNCHANGED <<published, tmp, bytes, fd, pos, saved, raced>>
  <2>1. [pc EXCEPT ![p] = pc[p]] = pc  BY <1>1 DEF TypeOK
  <2> QED  BY <2>1 DEF SaveFails, EndOf, Goto, files
<1>3. CASE w[2] = 0
  <2>1. w = Saver(p) /\ pc[p] = "save"
    BY <1>1, <1>2, <1>3, Writers DEF WhereOf, Waiting
  <2>2. /\ pc'[p] = "over" /\ at'[Saver(p)] = "over"
        /\ \A v \in Tasks(p) : at'[v] = at[v]
    BY <1>1, <1>2, <1>3, <2>1, Writers DEF TypeOK, Move, After
  <2>3. WhereOf(p)'  BY <1>1, <2>1, <2>2 DEF WhereOf, Tasks, Saver, Waiting
  <2> QED  BY <1>1, <1>2, <1>3, <2>3, MoveInv DEF After, At, Pc, TypeOK, Waiting
<1>4. CASE w[2] # 0
  <2>1. w \in Tasks(p) /\ pc[p] \in {"resolve", "failing"} /\ Saver(p) # w
        /\ Saver(p) \in Writer /\ Tasks(p) \subseteq Writer
    BY <1>1, <1>2, <1>4, Writers DEF WhereOf, Waiting
  <2>2. /\ pc'[p] = pc[p] /\ at'[w] = "downloaded"
        /\ \A v \in Writer : v # w => at'[v] = at[v]
    BY <1>1, <1>2, <1>4 DEF TypeOK, Move, After
  <2>3. WhereOf(p)'  BY <1>1, <2>1, <2>2 DEF WhereOf, Tasks, Saver, Waiting
  <2>4. pc' = [pc EXCEPT ![p] = pc[p]] /\ pc[p] \in Pc /\ Move(w, "downloaded")
    BY <1>2, <1>4, <2>1 DEF Pc, After
  <2>5. cut \subseteq cut' /\ cut' \subseteq File /\ (at[w] = "write" => FileOf(w) \in cut')
    BY <1>1, <1>2 DEF TypeOK
  <2>6. "downloaded" \in At /\ "downloaded" \notin {"idle"} \cup Waiting  BY DEF At, Waiting
  <2> QED  BY <1>2, <2>3, <2>4, <2>5, <2>6, MoveInv
<1> QED  BY <1>3, <1>4

-----------------------------------------------------------------------------
(* Steps on the files *)

LEMMA SaveOpenInv ==
  ASSUME IInv, NEW w \in Writer, SaveOpen(w)
  PROVE  IInv'
<1> DEFINE p == w[1]
           f == FileOf(w)
<1>1. TypeOK /\ WhereOf(p) /\ p \in Proc /\ f \in File /\ w # None
  BY Writers, FileFacts DEF IInv, Where
<1>2. PICK i \in Writer :
        /\ i = IF tmp[f] = None THEN w ELSE tmp[f]
        /\ tmp' = [tmp EXCEPT ![f] = i] /\ fd' = [fd EXCEPT ![w] = i]
        /\ bytes' = [bytes EXCEPT ![i] = <<>>]
  BY <1>1 DEF SaveOpen, Open, TypeOK
<1>3. /\ at[w] = "open" /\ at' = [at EXCEPT ![w] = "write"]
      /\ raced' = IF InHand(w) # {} THEN raced \cup {f} ELSE raced
      /\ UNCHANGED <<published, pc, pos, saved, cut>>
  BY DEF SaveOpen, Open, Move
<1>4. FileOf(i) = f /\ (i = w \/ i = tmp[f])
  BY <1>1, <1>2 DEF IInv, Owned
<1>5. /\ pos[w] = 0 /\ \A g \in File : published[g] # w /\ tmp[g] # w
      /\ \A v \in Writer : fd[v] # w
  BY <1>3 DEF IInv, Fresh, Unopened, Waiting
<1>6. \A v \in Writer : Writing(v)' <=> Writing(v) \/ v = w
  BY <1>1, <1>3 DEF TypeOK, Writing
<1>7. i # None /\ \A g \in File : published[g] # i
  <2> SUFFICES ASSUME NEW g \in File, published[g] = i  PROVE FALSE
    BY Writers
  <2>1. Owned /\ published[g] # None  BY Writers DEF IInv
  <2>2. g = f /\ published[g] # tmp[g]  BY <1>4, <2>1 DEF Owned
  <2> QED  BY <1>4, <1>5, <2>2
<1>8. \A j \in Writer : j # i => bytes'[j] = bytes[j]  BY <1>1, <1>2 DEF TypeOK
<1>9. TypeOK'
  <2>1. <<>> \in Seq({None} \cup ((Proc \cup Blob) \X (Nat \ {0})))  OBVIOUS
  <2>2. bytes' \in [Writer -> Seq({None} \cup ((Proc \cup Blob) \X (Nat \ {0})))]
    BY <1>1, <1>2, <2>1 DEF TypeOK
  <2>3. \A v \in Writer : Writing(v)' => fd'[v] # None
    BY <1>1, <1>2, <1>6, <1>7 DEF TypeOK
  <2>4. /\ tmp' \in [File -> Writer \cup {None}] /\ fd' \in [Writer -> Writer \cup {None}]
        /\ raced' \subseteq File
        /\ at' \in [Writer -> {"idle", "exists", "fetch", "open", "write", "rename",
                               "cached", "downloaded", "unpacked", "over"}]
    BY <1>1, <1>2, <1>3 DEF TypeOK
  <2> QED  BY <1>1, <1>3, <2>2, <2>3, <2>4 DEF TypeOK
<1>10. Where'
  <2>1. /\ \A v \in Writer : v # w => at'[v] = at[v]
        /\ at'[w] = "write" /\ pc'[p] = pc[p]
    BY <1>1, <1>3 DEF TypeOK
  <2>2. CASE w = Saver(p)
    <3>1. \A v \in Tasks(p) : at'[v] = at[v]  BY <2>1, <2>2, Writers, <1>1
    <3> QED  BY <1>1, <1>3, <2>1, <2>2, <3>1, WhereOthers
             DEF WhereOf, Tasks, Saver, Waiting, IInv
  <2>3. CASE w \in Tasks(p)
    <3>1. at'[Saver(p)] = at[Saver(p)] /\ Tasks(p) \subseteq Writer
      BY <1>1, <2>1, <2>3, Writers
    <3>2. WhereOf(p)'
      BY <1>1, <1>3, <2>1, <2>3, <3>1 DEF WhereOf, Tasks, Saver, Waiting
    <3> QED  BY <1>1, <1>3, <2>1, <3>2, WhereOthers DEF IInv
  <2> QED  BY <2>2, <2>3, Writers
<1>11. Fresh'
  <2> SUFFICES ASSUME NEW v \in Writer, Unopened(v)'
               PROVE  /\ pos[v] = 0
                      /\ \A g \in File : published[g] # v /\ tmp'[g] # v
                      /\ \A u \in Writer : fd'[u] # v
    BY <1>3 DEF Fresh
  <2>1. v # w /\ Unopened(v)
    BY <1>1, <1>3 DEF TypeOK, Unopened, Waiting
  <2>2. v # i  BY <1>1, <1>4, <2>1 DEF IInv, Fresh
  <2> QED  BY <1>1, <1>2, <2>1, <2>2 DEF IInv, Fresh, TypeOK
<1>12. Owned'
  <2>1. ASSUME NEW g \in File
        PROVE  /\ published[g] # None => FileOf(published[g]) = g /\ published[g] # tmp'[g]
               /\ tmp'[g] # None => FileOf(tmp'[g]) = g
    BY <1>1, <1>2, <1>4, <1>7 DEF IInv, Owned, TypeOK
  <2>2. \A v \in Writer : fd'[v] # None => FileOf(fd'[v]) = FileOf(v)
    BY <1>1, <1>2, <1>4 DEF IInv, Owned, TypeOK
  <2> QED  BY <1>3, <2>1, <2>2 DEF Owned
<1>13. Progress'
  <2>1. 0 < Size[Data(w)]  BY FileFacts
  <2> QED  BY <1>1, <1>3, <1>5, <2>1 DEF IInv, Progress, TypeOK
<1>14. Alone'
  <2> SUFFICES ASSUME NEW v \in Writer, Writing(v)', FileOf(v) \notin raced'
               PROVE  /\ \A u \in Writer : Writing(u)' /\ FileOf(u) = FileOf(v) => u = v
                      /\ fd'[v] = tmp'[FileOf(v)]
                      /\ bytes'[fd'[v]] = Prefix(v)'
    BY DEF Alone
  <2>1. FileOf(v) = f => \A u \in Writer : Writing(u) /\ FileOf(u) = f => u = w
    BY <1>3 DEF InHand
  <2>2. CASE v = w
    <3>1. fd'[w] = i /\ tmp'[f] = i /\ bytes'[i] = <<>>  BY <1>1, <1>2 DEF TypeOK
    <3>2. Prefix(w)' = <<>>
      <4>1. pos'[w] = 0  BY <1>3, <1>5
      <4> QED  BY <4>1 DEF Prefix
    <3> QED  BY <1>6, <2>1, <2>2, <3>1, <3>2
  <2>3. CASE v # w
    <3>1. Writing(v) /\ FileOf(v) # f /\ FileOf(v) \notin raced /\ FileOf(v) \in File
      BY <1>3, <1>6, <2>1, <2>3, FileFacts
    <3>2. /\ \A u \in Writer : Writing(u) /\ FileOf(u) = FileOf(v) => u = v
          /\ fd[v] = tmp[FileOf(v)] /\ bytes[fd[v]] = Prefix(v)
      BY <3>1 DEF IInv, Alone
    <3>3. fd[v] \in Writer /\ FileOf(fd[v]) # f
      BY <1>1, <3>1, Writers DEF IInv, Owned, TypeOK
    <3>4. fd'[v] = fd[v] /\ tmp'[FileOf(v)] = tmp[FileOf(v)] /\ bytes'[fd[v]] = bytes[fd[v]]
      BY <1>1, <1>2, <1>4, <1>8, <2>3, <3>1, <3>3 DEF TypeOK
    <3>5. Prefix(v)' = Prefix(v)  BY <1>3 DEF Prefix
    <3> QED  BY <1>6, <3>1, <3>2, <3>4, <3>5
  <2> QED  BY <2>2, <2>3
<1>15. Chunks'
  <2> SUFFICES ASSUME NEW j \in Writer, FileOf(j) \in Blob
               PROVE  Len(bytes'[j]) <= Size[FileOf(j)]
    BY DEF Chunks
  <2>1. CASE j = i
    <3>1. Len(bytes'[j]) = 0  BY <1>1, <1>2, <2>1 DEF TypeOK
    <3> QED  BY <3>1, BlobSize
  <2>2. CASE j # i  BY <1>8, <2>2 DEF IInv, Chunks
  <2> QED  BY <2>1, <2>2
<1>16. ASSUME NEW j \in Writer, j # i, Filling(j)
       PROVE  Filling(j)'
  <2> SUFFICES ASSUME NEW k \in 1 .. Size[FileOf(j)]
               PROVE  Has(j, k)' \/ Coming(j, k)'
    BY DEF Filling
  <2>1. CASE Has(j, k)  BY <1>8, <1>16, <2>1 DEF Has
  <2>2. CASE Coming(j, k)
    <3>1. PICK v \in Writer : Writing(v) /\ fd[v] = j /\ pos[v] < k  BY <2>2 DEF Coming
    <3>2. v # w  BY <1>3, <3>1 DEF Writing
    <3> QED  BY <1>1, <1>2, <1>3, <1>6, <3>1, <3>2 DEF Coming, TypeOK
  <2> QED  BY <1>16, <2>1, <2>2 DEF Filling
<1>17. FileOf(i) \in Blob => Filling(i)'
  <2> SUFFICES ASSUME FileOf(i) \in Blob, NEW k \in 1 .. Size[FileOf(i)]
               PROVE  Coming(i, k)'
    BY DEF Filling
  <2>1. fd'[w] = i /\ pos'[w] < k  BY <1>1, <1>2, <1>3, <1>5, BlobSize DEF TypeOK
  <2> QED  BY <1>6, <2>1 DEF Coming
<1>18. Ahead'
  <2> SUFFICES ASSUME NEW g \in Blob \ cut
               PROVE  /\ published'[g] # None => Filling(published[g])'
                      /\ tmp'[g] # None => Filling(tmp[g])'
    BY <1>3 DEF Ahead
  <2>1. g \in File /\ Owned /\ Ahead  BY BlobSize DEF IInv
  <2>2. \A j \in Writer : published'[g] = j => Filling(j)'
    <3> SUFFICES ASSUME NEW j \in Writer, published'[g] = j  PROVE Filling(j)'
      OBVIOUS
    <3>1. published[g] = j /\ j # None /\ j # i  BY <1>3, <1>7, <2>1, Writers
    <3>2. Filling(j)  BY <2>1, <3>1 DEF Ahead
    <3> QED  BY <1>16, <3>1, <3>2
  <2>3. \A j \in Writer : tmp'[g] = j => Filling(j)'
    <3> SUFFICES ASSUME NEW j \in Writer, tmp'[g] = j, j # i  PROVE Filling(j)'
      <4>1. tmp'[g] = i => FileOf(i) \in Blob
        <5>1. g = f \/ tmp'[g] = tmp[g]  BY <1>1, <1>2, <2>1 DEF TypeOK
        <5>2. tmp[g] = i => FileOf(i) = g  BY <1>7, <2>1 DEF Owned
        <5> QED  BY <1>4, <5>1, <5>2
      <4> QED  BY <1>17, <4>1
    <3>1. tmp[g] = j /\ j # None  BY <1>1, <1>2, <2>1, Writers DEF TypeOK
    <3>2. Filling(j)  BY <2>1, <3>1 DEF Ahead
    <3> QED  BY <1>16, <3>2
  <2>4. published'[g] \in Writer \cup {None} /\ tmp'[g] \in Writer \cup {None}
    BY <1>9, <2>1 DEF TypeOK
  <2> QED  BY <2>2, <2>3, <2>4
<1>19. SavedBlob'  BY <1>3 DEF IInv, SavedBlob
<1>20. PublishedWhole'
  <2> SUFFICES ASSUME NEW g \in File \ raced, published[g] # None
               PROVE  bytes'[published[g]] = Whole(saved[g])
    BY <1>3 DEF PublishedWhole, Holds
  <2>1. bytes'[published[g]] = bytes[published[g]]
    BY <1>1, <1>7, <1>8 DEF TypeOK
  <2> QED  BY <2>1 DEF IInv, PublishedWhole, Holds
<1> QED
  BY <1>9, <1>10, <1>11, <1>12, <1>13, <1>14, <1>15, <1>18, <1>19, <1>20 DEF IInv

Some == {None} \cup ((Proc \cup Blob) \X (Nat \ {0}))

LEMMA Chunk ==
  ASSUME NEW s \in Seq(Some), NEW k \in Nat \ {0}, NEW c \in Some
  PROVE  /\ SetChunk(s, k, c) \in Seq(Some)
         /\ Len(SetChunk(s, k, c)) = IF k > Len(s) THEN k ELSE Len(s)
         /\ SetChunk(s, k, c)[k] = c
         /\ \A j \in 1 .. Len(s) : j # k => SetChunk(s, k, c)[j] = s[j]
<1> DEFINE n == IF k > Len(s) THEN k ELSE Len(s)
           t == [i \in 1 .. n |-> IF i = k THEN c ELSE IF i <= Len(s) THEN s[i] ELSE None]
<1>1. SetChunk(s, k, c) = t  BY DEF SetChunk
<1>2. Len(s) \in Nat /\ n \in Nat /\ k \in 1 .. n /\ 1 .. Len(s) \subseteq 1 .. n
  OBVIOUS
<1>3. \A i \in 1 .. n : t[i] \in Some  BY DEF Some
<1>4. t \in [1 .. n -> Some]  BY <1>3
<1>5. t \in Seq(Some) /\ Len(t) = n
  <2> HIDE DEF t, n
  <2> QED  BY <1>2, <1>4
<1> QED  BY <1>1, <1>2, <1>5

\* A writer that adds its next chunk to what it has written.
LEMMA NextPrefix ==
  ASSUME NEW d, NEW n \in Nat, NEW s, s = [k \in 1 .. n |-> <<d, k>>]
  PROVE  SetChunk(s, n + 1, <<d, n + 1>>) = [k \in 1 .. n + 1 |-> <<d, k>>]
<1>1. Len(s) = n  OBVIOUS
<1>2. SetChunk(s, n + 1, <<d, n + 1>>)
        = [i \in 1 .. n + 1 |-> IF i = n + 1 THEN <<d, n + 1>>
                                ELSE IF i <= n THEN s[i] ELSE None]
  BY <1>1 DEF SetChunk
<1>3. \A i \in 1 .. n + 1 : i # n + 1 => i <= n /\ s[i] = <<d, i>>  OBVIOUS
<1> QED  BY <1>2, <1>3

LEMMA SaveChunkInv ==
  ASSUME IInv, NEW w \in Writer, SaveChunk(w)
  PROVE  IInv'
<1> DEFINE p == w[1]
           f == FileOf(w)
           k0 == pos[w] + 1
<1>1. TypeOK /\ WhereOf(p) /\ p \in Proc /\ f \in File /\ Owned
  BY Writers, FileFacts DEF IInv, Where
<1>2. PICK i \in Writer : fd[w] = i /\ i # None /\ FileOf(i) = f
  BY <1>1, Writers DEF TypeOK, Owned, SaveChunk, Writing
<1>3. PICK l \in {"write", "rename"} :
        /\ at' = [at EXCEPT ![w] = l]
        /\ l = IF k0 = Size[Data(w)] THEN "rename" ELSE "write"
  <2>1. at[w] = "write" => [at EXCEPT ![w] = "write"] = at  BY <1>1 DEF TypeOK
  <2> QED  BY <2>1 DEF SaveChunk, Move
<1>4. /\ at[w] = "write" /\ pos' = [pos EXCEPT ![w] = k0]
      /\ bytes' = [bytes EXCEPT ![i] = SetChunk(bytes[i], k0, <<Data(w), k0>>)]
      /\ UNCHANGED <<published, tmp, fd, pc, saved, raced, cut>>
  BY <1>2 DEF SaveChunk, Write, UnchangedHistory
<1>5. /\ pos[w] \in Nat /\ pos[w] < Size[Data(w)] /\ k0 \in Nat \ {0}
      /\ Data(w) \in Proc \cup Blob /\ Size[Data(w)] \in Nat
  BY <1>1, <1>4, FileFacts DEF IInv, Progress, TypeOK
<1>6. /\ bytes'[i] = SetChunk(bytes[i], k0, <<Data(w), k0>>)
      /\ \A j \in Writer : j # i => bytes'[j] = bytes[j]
  BY <1>1, <1>4 DEF TypeOK
<1>7. /\ bytes'[i] \in Seq(Some)
      /\ Len(bytes'[i]) = IF k0 > Len(bytes[i]) THEN k0 ELSE Len(bytes[i])
      /\ bytes'[i][k0] = <<Data(w), k0>>
      /\ \A j \in 1 .. Len(bytes[i]) : j # k0 => bytes'[i][j] = bytes[i][j]
  <2>1. bytes[i] \in Seq(Some) /\ <<Data(w), k0>> \in Some
    BY <1>1, <1>5 DEF TypeOK, Some
  <2>2. ASSUME NEW k, k = k0, NEW c, c = <<Data(w), k0>>
        PROVE  /\ SetChunk(bytes[i], k, c) \in Seq(Some)
               /\ Len(SetChunk(bytes[i], k, c)) = IF k > Len(bytes[i]) THEN k ELSE Len(bytes[i])
               /\ SetChunk(bytes[i], k, c)[k] = c
               /\ \A j \in 1 .. Len(bytes[i]) : j # k => SetChunk(bytes[i], k, c)[j] = bytes[i][j]
    <3>1. k \in Nat \ {0} /\ c \in Some /\ bytes[i] \in Seq(Some)  BY <1>5, <2>1, <2>2
    <3> QED  BY ONLY <3>1, Chunk
  <2> HIDE DEF k0
  <2> QED  BY <1>6, <2>2
<1>8. /\ pos'[w] = k0 /\ at'[w] = l
      /\ \A v \in Writer : v # w => pos'[v] = pos[v] /\ at'[v] = at[v]
  BY <1>1, <1>3, <1>4 DEF TypeOK
<1>9. \A v \in Writer : Writing(v)' <=> Writing(v)
  BY <1>4, <1>8 DEF Writing
<1>10. TypeOK'
  <2>1. bytes' \in [Writer -> Seq(Some)]  BY <1>1, <1>4, <1>6, <1>7 DEF TypeOK, Some
  <2>2. pos' \in [Writer -> Nat]  BY <1>1, <1>4, <1>5 DEF TypeOK
  <2>3. ASSUME NEW v \in Writer  PROVE pos'[v] <= Size[Data(v)]
    <3>1. CASE v = w  BY <1>5, <1>8, <3>1
    <3>2. CASE v # w  BY <1>1, <1>8, <3>2 DEF TypeOK
    <3> QED  BY <3>1, <3>2
  <2>4. \A v \in Writer : Writing(v)' => fd'[v] # None
    BY <1>1, <1>4, <1>9 DEF TypeOK
  <2>5. at' \in [Writer -> {"idle", "exists", "fetch", "open", "write", "rename",
                            "cached", "downloaded", "unpacked", "over"}]
    BY <1>1, <1>3 DEF TypeOK
  <2> QED  BY <1>1, <1>4, <2>1, <2>2, <2>3, <2>4, <2>5 DEF TypeOK, Some
<1>11. Where'
  <2>1. CASE w = Saver(p)
    <3>1. \A v \in Tasks(p) : at'[v] = at[v]  BY <1>1, <1>8, <2>1, Writers
    <3>2. WhereOf(p)'
      BY <1>1, <1>4, <1>8, <2>1, <3>1 DEF WhereOf, Tasks, Saver, Waiting
    <3> QED  BY <1>1, <1>4, <1>8, <3>2, WhereOthers DEF IInv
  <2>2. CASE w \in Tasks(p)
    <3>1. at'[Saver(p)] = at[Saver(p)] /\ Tasks(p) \subseteq Writer
      BY <1>1, <1>8, <2>2, Writers
    <3>2. WhereOf(p)'
      BY <1>1, <1>4, <1>8, <2>2, <3>1 DEF WhereOf, Tasks, Saver, Waiting
    <3> QED  BY <1>1, <1>4, <1>8, <3>2, WhereOthers DEF IInv
  <2> QED  BY <2>1, <2>2, Writers
<1>12. Fresh'
  <2>1. \A v \in Writer : Unopened(v)' => Unopened(v) /\ v # w
    BY <1>8 DEF Unopened, Waiting
  <2> QED  BY <1>4, <1>8, <2>1 DEF IInv, Fresh
<1>13. Owned'  BY <1>1, <1>4 DEF Owned
<1>14. Progress'
  <2> SUFFICES ASSUME NEW v \in Writer
               PROVE  /\ at'[v] = "write" => pos'[v] < Size[Data(v)]
                      /\ at'[v] = "rename" => pos'[v] = Size[Data(v)]
    BY DEF Progress
  <2>1. CASE v = w  BY <1>3, <1>5, <1>8, <2>1
  <2>2. CASE v # w  BY <1>8, <2>2 DEF IInv, Progress
  <2> QED  BY <2>1, <2>2
<1>15. f \notin raced => i = tmp[f] /\ bytes[i] = Prefix(w)
         /\ \A v \in Writer : Writing(v) /\ FileOf(v) = f => v = w
  BY <1>2, <1>4 DEF IInv, Alone, Writing
<1>16. Alone'
  <2> SUFFICES ASSUME NEW v \in Writer, Writing(v), FileOf(v) \notin raced
               PROVE  /\ \A u \in Writer : Writing(u) /\ FileOf(u) = FileOf(v) => u = v
                      /\ fd[v] = tmp[FileOf(v)]
                      /\ bytes'[fd[v]] = Prefix(v)'
    BY <1>4, <1>9 DEF Alone
  <2>1. /\ \A u \in Writer : Writing(u) /\ FileOf(u) = FileOf(v) => u = v
        /\ fd[v] = tmp[FileOf(v)] /\ bytes[fd[v]] = Prefix(v)
    BY DEF IInv, Alone
  <2>2. CASE v = w
    <3>1. SetChunk(bytes[i], k0, <<Data(w), k0>>) = [k \in 1 .. k0 |-> <<Data(w), k>>]
      BY <1>2, <1>5, <2>1, <2>2, NextPrefix DEF Prefix
    <3>2. Prefix(w)' = [k \in 1 .. k0 |-> <<Data(w), k>>]  BY <1>8 DEF Prefix
    <3> QED  BY <1>2, <1>6, <2>1, <2>2, <3>1, <3>2
  <2>3. CASE v # w
    <3>1. FileOf(v) # f  BY <1>4, <2>1, <2>3 DEF Writing
    <3>2. fd[v] \in Writer /\ fd[v] # i
      BY <1>1, <1>2, <3>1 DEF TypeOK, Owned
    <3>3. Prefix(v)' = Prefix(v)  BY <1>8, <2>3 DEF Prefix
    <3> QED  BY <1>6, <2>1, <3>2, <3>3
  <2> QED  BY <2>2, <2>3
<1>17. Chunks'
  <2> SUFFICES ASSUME NEW j \in Writer, FileOf(j) \in Blob
               PROVE  Len(bytes'[j]) <= Size[FileOf(j)]
    BY DEF Chunks
  <2>1. CASE j = i
    <3>1. Len(bytes[i]) <= Size[f] /\ Data(w) = f
      BY <1>2, <2>1, FileFacts DEF IInv, Chunks
    <3> QED  BY <1>2, <1>5, <1>7, <2>1, <3>1
  <2>2. CASE j # i  BY <1>6, <2>2 DEF IInv, Chunks
  <2> QED  BY <2>1, <2>2
<1>18. ASSUME NEW j \in Writer, FileOf(j) \in Blob, Filling(j)
       PROVE  Filling(j)'
  <2> SUFFICES ASSUME NEW k \in 1 .. Size[FileOf(j)]
               PROVE  Has(j, k)' \/ Coming(j, k)'
    BY DEF Filling
  <2>1. k \in Nat \ {0} /\ bytes[j] \in Seq(Some)
    BY <1>1, <1>18, BlobSize DEF TypeOK, Some
  <2>2. j = i => Data(w) = FileOf(j)  BY <1>2, <1>18, FileFacts
  <2>3. j = i /\ k = k0 => Has(j, k)'
    BY <1>7, <2>1, <2>2 DEF Has
  <2>4. CASE Has(j, k)
    <3>1. CASE j = i /\ k # k0
      <4>1. k <= Len(bytes[i]) /\ k \in 1 .. Len(bytes[i])  BY <2>1, <2>4, <3>1 DEF Has
      <4>2. k <= Len(bytes'[i]) /\ bytes'[i][k] = bytes[i][k]
        BY <1>5, <1>7, <2>1, <3>1, <4>1
      <4> QED  BY <2>4, <3>1, <4>2 DEF Has
    <3>2. CASE j # i  BY <1>6, <2>4, <3>2 DEF Has
    <3> QED  BY <2>3, <3>1, <3>2
  <2>5. CASE Coming(j, k)
    <3>1. PICK v \in Writer : Writing(v) /\ fd[v] = j /\ pos[v] < k  BY <2>5 DEF Coming
    <3>2. v = w => j = i /\ (k = k0 \/ pos'[w] < k)
      BY <1>2, <1>5, <1>8, <2>1, <3>1
    <3>3. v = w \/ pos'[v] < k  BY <1>8, <3>1
    <3>4. Writing(v)' /\ fd'[v] = j  BY <1>4, <1>9, <3>1
    <3> QED  BY <2>3, <3>2, <3>3, <3>4 DEF Coming
  <2> QED  BY <1>18, <2>4, <2>5 DEF Filling
<1>19. Ahead'
  <2> SUFFICES ASSUME NEW g \in Blob \ cut
               PROVE  /\ published'[g] # None => Filling(published[g])'
                      /\ tmp'[g] # None => Filling(tmp[g])'
    BY <1>4 DEF Ahead
  <2>1. g \in File /\ Ahead  BY BlobSize DEF IInv
  <2>2. ASSUME NEW j \in Writer, published[g] = j \/ tmp[g] = j  PROVE Filling(j)'
    <3>1. FileOf(j) = g /\ Filling(j)  BY <1>1, <2>1, <2>2, Writers DEF Owned, Ahead
    <3> QED  BY <1>18, <3>1
  <2>3. published'[g] \in Writer \cup {None} /\ tmp'[g] \in Writer \cup {None}
        /\ published'[g] = published[g] /\ tmp'[g] = tmp[g]
    BY <1>4, <1>10, <2>1 DEF TypeOK
  <2> QED  BY <2>2, <2>3
<1>20. SavedBlob'  BY <1>4 DEF IInv, SavedBlob
<1>21. PublishedWhole'
  <2> SUFFICES ASSUME NEW g \in File \ raced, published[g] # None
               PROVE  bytes'[published[g]] = Whole(saved[g])
    BY <1>4 DEF PublishedWhole, Holds
  <2>1. published[g] # i  BY <1>1, <1>2, <1>15 DEF Owned
  <2>2. bytes'[published[g]] = bytes[published[g]]  BY <1>1, <1>6, <2>1 DEF TypeOK
  <2> QED  BY <2>2 DEF IInv, PublishedWhole, Holds
<1> QED
  BY <1>10, <1>11, <1>12, <1>13, <1>14, <1>16, <1>17, <1>19, <1>20, <1>21 DEF IInv

LEMMA SaveRenameInv ==
  ASSUME IInv, NEW w \in Writer, SaveRename(w)
  PROVE  IInv'
<1> DEFINE p == w[1]
           f == FileOf(w)
<1>1. TypeOK /\ WhereOf(p) /\ p \in Proc /\ f \in File /\ Owned
  BY Writers, FileFacts DEF IInv, Where
<1>2. PICK i \in Writer : tmp[f] = i /\ i # None /\ FileOf(i) = f
  BY <1>1 DEF TypeOK, Owned, SaveRename, Rename
<1>3. /\ at[w] = "rename" /\ at' = [at EXCEPT ![w] = After(w)]
      /\ pc' = [pc EXCEPT ![p] = IF w[2] = 0 THEN "over" ELSE pc[p]]
      /\ published' = [published EXCEPT ![f] = i] /\ tmp' = [tmp EXCEPT ![f] = None]
      /\ saved' = [saved EXCEPT ![f] = Data(w)]
      /\ UNCHANGED <<bytes, fd, pos, raced, cut>>
  <2>1. [pc EXCEPT ![p] = pc[p]] = pc  BY <1>1 DEF TypeOK
  <2> QED  BY <1>2, <2>1 DEF SaveRename, Rename, EndOf, Move, Goto
<1>4. /\ published'[f] = i /\ tmp'[f] = None /\ saved'[f] = Data(w)
      /\ \A g \in File : g # f => /\ published'[g] = published[g] /\ tmp'[g] = tmp[g]
                                  /\ saved'[g] = saved[g]
  BY <1>1, <1>3 DEF TypeOK
<1>5. /\ at'[w] = After(w) /\ After(w) \in {"over", "downloaded"}
      /\ \A v \in Writer : v # w => at'[v] = at[v]
  BY <1>1, <1>3 DEF TypeOK, After
<1>6. /\ pos[w] = Size[Data(w)] /\ Data(w) \in Proc \cup Blob
      /\ f \in Blob => Data(w) = f
  BY <1>3, FileFacts DEF IInv, Progress
<1>7. \A v \in Writer : Writing(v)' <=> Writing(v) /\ v # w
  BY <1>5 DEF Writing
<1>8. TypeOK'
  <2>1. pc' \in [Proc -> {"new", "resolve", "failing", "unpack", "job", "save", "over"}]
    BY <1>1, <1>3 DEF TypeOK
  <2>2. at' \in [Writer -> {"idle", "exists", "fetch", "open", "write", "rename",
                            "cached", "downloaded", "unpacked", "over"}]
    BY <1>1, <1>3, <1>5 DEF TypeOK
  <2>3. /\ published' \in [File -> Writer \cup {None}] /\ tmp' \in [File -> Writer \cup {None}]
        /\ saved' \in [File -> Proc \cup Blob \cup {None}]
    BY <1>1, <1>3, <1>6 DEF TypeOK
  <2>4. \A v \in Writer : Writing(v)' => fd'[v] # None
    BY <1>1, <1>3, <1>7 DEF TypeOK
  <2> QED  BY <1>1, <1>3, <2>1, <2>2, <2>3, <2>4 DEF TypeOK
<1>9. Where'
  <2>1. CASE w = Saver(p)
    <3>1. \A v \in Tasks(p) : at'[v] = at[v]  BY <1>1, <1>5, <2>1, Writers
    <3>2. pc[p] = "save" /\ pc'[p] = "over" /\ at'[w] = "over"
      BY <1>1, <1>3, <1>5, <2>1, Writers DEF WhereOf, TypeOK, After
    <3>3. WhereOf(p)'
      BY <1>1, <2>1, <3>1, <3>2 DEF WhereOf, Tasks, Saver, Waiting
    <3> QED  BY <1>1, <1>3, <1>5, <3>3, WhereOthers DEF IInv, TypeOK
  <2>2. CASE w \in Tasks(p)
    <3>1. at'[Saver(p)] = at[Saver(p)] /\ Tasks(p) \subseteq Writer
      BY <1>1, <1>5, <2>2, Writers
    <3>2. pc[p] \in {"resolve", "failing"} /\ pc'[p] = pc[p]
      BY <1>1, <1>3, <2>2, Writers DEF WhereOf, TypeOK
    <3>3. WhereOf(p)'
      BY <1>1, <1>5, <2>2, <3>1, <3>2 DEF WhereOf, Tasks, Saver, Waiting
    <3> QED  BY <1>1, <1>3, <1>5, <3>3, WhereOthers DEF IInv, TypeOK
  <2> QED  BY <2>1, <2>2, Writers
<1>10. Fresh'
  <2>1. \A v \in Writer : Unopened(v)' => Unopened(v) /\ v # w
    BY <1>5 DEF Unopened, Waiting
  <2> SUFFICES ASSUME NEW v \in Writer, Unopened(v)
               PROVE  /\ pos[v] = 0
                      /\ \A g \in File : published'[g] # v /\ tmp'[g] # v
                      /\ \A u \in Writer : fd[u] # v
    BY <1>3, <2>1 DEF Fresh
  <2>2. /\ pos[v] = 0 /\ \A g \in File : published[g] # v /\ tmp[g] # v
        /\ \A u \in Writer : fd[u] # v
    BY DEF IInv, Fresh
  <2> QED  BY <1>1, <1>2, <1>4, <2>2, Writers
<1>11. Owned'
  <2>1. \A g \in File :
          /\ published'[g] # None => FileOf(published'[g]) = g /\ published'[g] # tmp'[g]
          /\ tmp'[g] # None => FileOf(tmp'[g]) = g
    BY <1>1, <1>2, <1>4 DEF Owned
  <2> QED  BY <1>1, <1>3, <2>1 DEF Owned
<1>12. Progress'
  <2> SUFFICES ASSUME NEW v \in Writer
               PROVE  /\ at'[v] = "write" => pos[v] < Size[Data(v)]
                      /\ at'[v] = "rename" => pos[v] = Size[Data(v)]
    BY <1>3 DEF Progress
  <2>1. CASE v = w  BY <1>5, <2>1
  <2>2. CASE v # w  BY <1>5, <2>2 DEF IInv, Progress
  <2> QED  BY <2>1, <2>2
<1>13. f \notin raced => fd[w] = i /\ bytes[i] = Prefix(w)
         /\ \A v \in Writer : Writing(v) /\ FileOf(v) = f => v = w
  BY <1>2, <1>3 DEF IInv, Alone, Writing
<1>14. Alone'
  <2> SUFFICES ASSUME NEW v \in Writer, Writing(v), v # w, FileOf(v) \notin raced
               PROVE  /\ \A u \in Writer : Writing(u)' /\ FileOf(u) = FileOf(v) => u = v
                      /\ fd[v] = tmp'[FileOf(v)]
                      /\ bytes[fd[v]] = Prefix(v)
    BY <1>3, <1>7 DEF Alone, Prefix
  <2>1. /\ \A u \in Writer : Writing(u) /\ FileOf(u) = FileOf(v) => u = v
        /\ fd[v] = tmp[FileOf(v)] /\ bytes[fd[v]] = Prefix(v)
    BY DEF IInv, Alone
  <2>2. FileOf(v) # f /\ FileOf(v) \in File  BY <1>13, FileFacts
  <2> QED  BY <1>4, <1>7, <2>1, <2>2
<1>15. Chunks'  BY <1>3 DEF IInv, Chunks
<1>16. ASSUME NEW j \in Writer, FileOf(j) \in Blob, Filling(j)
       PROVE  Filling(j)'
  <2> SUFFICES ASSUME NEW k \in 1 .. Size[FileOf(j)], Coming(j, k)
               PROVE  Coming(j, k)'
    BY <1>3, <1>16 DEF Filling, Has
  <2>1. PICK v \in Writer : Writing(v) /\ fd[v] = j /\ pos[v] < k  BY DEF Coming
  <2>2. v # w
    <3> SUFFICES ASSUME v = w  PROVE FALSE
      OBVIOUS
    <3>1. FileOf(j) = f  BY <1>1, <2>1, Writers DEF Owned
    <3>2. pos[w] = Size[FileOf(j)]  BY <1>6, <1>16, <3>1
    <3> QED  BY <1>16, <2>1, <3>2, BlobSize
  <2> QED  BY <1>3, <1>7, <2>1, <2>2 DEF Coming
<1>17. Ahead'
  <2> SUFFICES ASSUME NEW g \in Blob \ cut
               PROVE  /\ published'[g] # None => Filling(published[g])'
                      /\ tmp'[g] # None => Filling(tmp[g])'
    BY <1>3 DEF Ahead
  <2>1. g \in File /\ Ahead  BY BlobSize DEF IInv
  <2>2. ASSUME NEW j \in Writer, published'[g] = j \/ tmp'[g] = j  PROVE Filling(j)'
    <3>1. published[g] = j \/ tmp[g] = j  BY <1>2, <1>4, <2>1, <2>2, Writers
    <3>2. FileOf(j) = g /\ Filling(j)  BY <1>1, <2>1, <3>1, Writers DEF Owned, Ahead
    <3> QED  BY <1>16, <3>2
  <2>3. published'[g] \in Writer \cup {None} /\ tmp'[g] \in Writer \cup {None}
    BY <1>8, <2>1 DEF TypeOK
  <2> QED  BY <2>2, <2>3
<1>18. SavedBlob'
  <2>1. \A g \in Blob : g \in File  BY BlobSize
  <2> QED  BY <1>4, <1>6, <2>1 DEF IInv, SavedBlob
<1>19. PublishedWhole'
  <2> SUFFICES ASSUME NEW g \in File \ raced, published'[g] # None
               PROVE  bytes[published'[g]] = Whole(saved'[g])
    BY <1>3 DEF PublishedWhole, Holds
  <2>1. CASE g = f
    BY <1>4, <1>6, <1>13, <2>1 DEF Prefix, Whole
  <2>2. CASE g # f
    BY <1>4, <2>2 DEF IInv, PublishedWhole, Holds
  <2> QED  BY <2>1, <2>2
<1> QED
  BY <1>8, <1>9, <1>10, <1>11, <1>12, <1>14, <1>15, <1>17, <1>18, <1>19 DEF IInv

LEMMA EvictInv ==
  ASSUME IInv, NEW f \in File, Evict(f)
  PROVE  IInv'
<1>1. /\ published' = [published EXCEPT ![f] = None]
      /\ UNCHANGED <<tmp, bytes, fd, pc, at, pos, saved, raced, cut>>
  BY DEF Evict
<1>2. TypeOK'  BY <1>1 DEF IInv, TypeOK, Writing
<1>3. \A g \in File : published'[g] = None \/ published'[g] = published[g]
  BY <1>1 DEF IInv, TypeOK
<1>4. Where'  BY <1>1 DEF IInv, Where, WhereOf, Tasks, Saver, Waiting
<1>5. Fresh'
  <2>1. \A v \in Writer : Unopened(v)' <=> Unopened(v)  BY <1>1 DEF Unopened
  <2> QED  BY <1>1, <1>3, <2>1, Writers DEF IInv, Fresh
<1>6. Owned'  BY <1>1, <1>3 DEF IInv, Owned
<1>7. Progress' /\ Chunks'  BY <1>1 DEF IInv, Progress, Chunks
<1>8. Alone'  BY <1>1 DEF IInv, Alone, Writing, Prefix
<1>9. Ahead'
  <2>1. \A j \in Writer : Filling(j)' <=> Filling(j)
    BY <1>1 DEF Filling, Has, Coming, Writing
  <2> SUFFICES ASSUME NEW g \in Blob \ cut
               PROVE  /\ published'[g] # None => Filling(published[g])'
                      /\ tmp'[g] # None => Filling(tmp[g])'
    BY <1>1 DEF Ahead
  <2>2. g \in File /\ Ahead  BY BlobSize DEF IInv
  <2>3. ASSUME NEW j \in Writer, published'[g] = j \/ tmp'[g] = j  PROVE Filling(j)'
    <3>1. published[g] = j \/ tmp[g] = j  BY <1>1, <1>3, <2>2, <2>3, Writers
    <3>2. Filling(j)  BY <2>2, <3>1, Writers DEF Ahead
    <3> QED  BY <2>1, <3>2
  <2>4. published'[g] \in Writer \cup {None} /\ tmp'[g] \in Writer \cup {None}
    BY <1>2, <2>2 DEF TypeOK
  <2> QED  BY <2>3, <2>4
<1>10. SavedBlob'
  <2>1. \A g \in Blob : g \in File  BY BlobSize
  <2> QED  BY <1>1, <1>3, <2>1 DEF IInv, SavedBlob
<1>11. PublishedWhole'  BY <1>1, <1>3 DEF IInv, PublishedWhole, Holds
<1> QED
  BY <1>2, <1>4, <1>5, <1>6, <1>7, <1>8, <1>9, <1>10, <1>11 DEF IInv

LEMMA IInvNext == IInv /\ [Next]_vars => IInv'
<1> SUFFICES ASSUME IInv, [Next]_vars  PROVE IInv'
  OBVIOUS
<1>1. ASSUME NEW p \in Proc, Run(p)  PROVE IInv'
  BY <1>1, BeginInv, JoinInv, StartSaveInv, LeaveInv DEF Run
<1>2. ASSUME NEW w \in Writer, Step(w)  PROVE IInv'
  BY <1>2, TaskInv, SaveOpenInv, SaveChunkInv, SaveRenameInv, SaveFailsInv DEF Step
<1>3. ASSUME NEW f \in File, Evict(f)  PROVE IInv'  BY <1>3, EvictInv
<1>4. CASE UNCHANGED vars
  <2>1. UNCHANGED <<published, tmp, bytes, fd, pc, at, pos, saved, raced, cut>>
    BY <1>4 DEF vars, files
  <2>2. \A w \in Writer : Unopened(w)' => Unopened(w)  BY <2>1 DEF Unopened
  <2>3. Where'  BY <2>1 DEF IInv, Where, WhereOf, Tasks, Saver, Waiting
  <2>4. pc' \in [Proc -> Pc] /\ at' \in [Writer -> At] /\ cut' \subseteq File
    BY <2>1 DEF IInv, TypeOK, Pc, At
  <2> QED  BY <2>1, <2>2, <2>3, <2>4, QuietInv
<1> QED  BY <1>1, <1>2, <1>3, <1>4 DEF Next, Rest

-----------------------------------------------------------------------------
(* Theorems *)

\* The conjunction above holds in every reachable state of the stores.
THEOREM StoresInvariant == Spec => []IInv
BY IInvInit, IInvNext, PTL DEF Spec

\* Every reachable state of the stores is well typed, and who writes has a file open.
THEOREM Typing == Spec => []TypeOK
<1>1. IInv => TypeOK  BY DEF IInv
<1> QED  BY <1>1, StoresInvariant, PTL

\* For any runs, images and faults, a file that never had two writers at once is whole.
THEOREM WholeAlone == Spec => []PublishedWhole
<1>1. IInv => PublishedWhole  BY DEF IInv
<1> QED  BY <1>1, StoresInvariant, PTL

LEMMA FilledWhole ==
  ASSUME IInv, NEW i \in Writer, FileOf(i) \in Blob, Filling(i),
         \A v \in Writer : fd[v] = i => ~Writing(v)
  PROVE  bytes[i] = Whole(FileOf(i))
<1>1. Size[FileOf(i)] \in Nat \ {0} /\ Len(bytes[i]) <= Size[FileOf(i)]
  BY BlobSize DEF IInv, Chunks
<1>2. \A k \in 1 .. Size[FileOf(i)] : Has(i, k)  BY DEF Filling, Coming
<1>3. bytes[i] \in Seq(Some)  BY DEF IInv, TypeOK, Some
<1>4. Len(bytes[i]) \in Nat /\ DOMAIN bytes[i] = 1 .. Len(bytes[i])  BY <1>3
<1>5. Size[FileOf(i)] \in 1 .. Size[FileOf(i)]  BY <1>1
<1>6. Len(bytes[i]) = Size[FileOf(i)]  BY <1>1, <1>2, <1>4, <1>5 DEF Has
<1>7. \A k \in 1 .. Size[FileOf(i)] : bytes[i][k] = <<FileOf(i), k>>  BY <1>2 DEF Has
<1>8. bytes[i] = [k \in 1 .. Size[FileOf(i)] |-> bytes[i][k]]  BY <1>3, <1>4, <1>6
<1> QED  BY <1>7, <1>8 DEF Whole

LEMMA InvJoined == IInv => JoinedWhole
<1> SUFFICES ASSUME IInv, NEW p \in Proc, pc[p] = "unpack", NEW w \in Tasks(p),
                    published[FileOf(w)] # None, FileOf(w) \notin cut \cap raced,
                    \A v \in Writer : v[1] # p /\ FileOf(v) = FileOf(w) => ~Writing(v)
             PROVE  Holds(FileOf(w)) = Whole(Data(w))
  BY DEF JoinedWhole
<1> DEFINE f == FileOf(w)
<1>1. w \in Writer /\ f \in Blob /\ f \in File /\ Data(w) = f  BY Writers, FileFacts
<1>2. PICK i \in Writer : published[f] = i /\ FileOf(i) = f
  BY <1>1 DEF IInv, TypeOK, Owned
<1>3. CASE f \notin raced
  BY <1>1, <1>3 DEF IInv, PublishedWhole, SavedBlob
<1>4. CASE f \notin cut
  <2>1. Filling(i)  BY <1>1, <1>2, <1>4 DEF IInv, Ahead
  <2>2. ASSUME NEW v \in Writer, fd[v] = i  PROVE ~Writing(v)
    <3>1. FileOf(v) = f  BY <1>2, <2>2, Writers DEF IInv, Owned
    <3>2. v[1] = p => v \in Tasks(p)  BY <1>1, <3>1, Writers, FileFacts
    <3>3. v[1] = p => ~Writing(v)  BY <3>2 DEF IInv, Where, WhereOf, Writing
    <3> QED  BY <3>1, <3>3
  <2> QED  BY <1>1, <1>2, <2>1, <2>2, FilledWhole DEF Holds
<1> QED  BY <1>3, <1>4

\* For any runs, images and faults, an image that names a digest several times is unpacked
\* from whole blobs, unless another run still writes one or a write was cut off.
THEOREM WholeOnceJoined == Spec => []JoinedWhole
BY InvJoined, StoresInvariant, PTL
=============================================================================
