------------------------------ MODULE FileCache ------------------------------
(***************************************************************************)
(* The content-addressed file cache, src/filecache.rs, one action per file  *)
(* system call, shared by any number of mepul processes.                    *)
(*                                                                          *)
(* A name in the cache directory maps to an inode; two names, or a name and *)
(* an open file, can share one.  An entry is written to a temporary and     *)
(* renamed into place.  The temporary of an entry, <hash>.tmp, is the same  *)
(* name in every process; the temporary of a mode view carries the pid, so  *)
(* it is private and the model keeps it in the process (file).              *)
(*                                                                          *)
(* Bytes are abstracted to N chunks: data[i] is the set of chunks of the    *)
(* right content that inode i holds, so a hole or a truncated tail is a     *)
(* missing chunk.  The digest of a content is the content itself.           *)
(***************************************************************************)
EXTENDS Integers

CONSTANTS
  Proc,       \* processes (mepul runs) sharing the cache
  Content,    \* file contents
  Inode,      \* inodes the file system can hand out (a bound)
  Mode,       \* modes a profile entry can ask for
  Canonical,  \* CANONICAL_MODE, 0644
  Umasked,    \* the mode a new file is born with
  N,          \* write(2) calls it takes to write one content
  None

ASSUME NAssumption == N \in Nat \ {0}
ASSUME ModeAssumption == Canonical \in Mode
ASSUME NoneAssumption == None \notin Inode /\ None \notin Content /\ None \notin Mode
ASSUME NonePlaced == None \notin [c : Content, m : Mode, ino : Inode]

VARIABLES
  base,       \* Content -> inode named <hash>, or None
  tmp,        \* Content -> inode named <hash>.tmp, or None
  view,       \* <<Content, Mode>> -> inode named <hash>.m<octal>, or None
  data,       \* Inode -> chunks it holds
  imode,      \* Inode -> its permission bits
  placed,     \* Proc -> the file the process placed last, or None
  known,      \* history: contents some put has published
  proc        \* Proc -> where it is and what it works on

vars == <<base, tmp, view, data, imode, placed, known, proc>>

Chunk == 1..N
PutPc == {"open", "write", "chmod", "rename"}
CopyPc == {"copy", "copychmod", "publish"}
Pc == {"idle", "view", "viewcopy", "link", "destcopy"} \cup PutPc \cup CopyPc

Idle == [pc |-> "idle", c |-> None, m |-> None, for |-> None,
         file |-> None, src |-> None, off |-> 0]

\* What a process keeps across system calls: the content and mode it works on,
\* what its copy is for, its open file, its copy's source, chunks done so far.
Local == [pc : Pc, c : Content \cup {None}, m : Mode \cup {None},
          for : {"view", "dest", None},
          file : Inode \cup {None}, src : Inode \cup {None}, off : 0..N]

TypeOK ==
  /\ base \in [Content -> Inode \cup {None}]
  /\ tmp \in [Content -> Inode \cup {None}]
  /\ view \in [Content \X Mode -> Inode \cup {None}]
  /\ data \in [Inode -> SUBSET Chunk]
  /\ imode \in [Inode -> Mode \cup {Umasked}]
  /\ placed \in [Proc -> [c : Content, m : Mode, ino : Inode] \cup {None}]
  /\ known \subseteq Content
  /\ proc \in [Proc -> Local]

Init ==
  /\ base = [c \in Content |-> None]
  /\ tmp = [c \in Content |-> None]
  /\ view = [cm \in Content \X Mode |-> None]
  /\ data = [i \in Inode |-> {}]
  /\ imode = [i \in Inode |-> Umasked]
  /\ placed = [p \in Proc |-> None]
  /\ known = {}
  /\ proc = [p \in Proc |-> Idle]

\* An inode no name, no placed file and no open file refers to.
Free(i) ==
  /\ \A c \in Content : base[c] # i /\ tmp[c] # i
  /\ \A cm \in Content \X Mode : view[cm] # i
  /\ \A p \in Proc : /\ proc[p].file # i /\ proc[p].src # i
                     /\ placed[p] # None => placed[p].ino # i

\* A call returns, with Ok or with Err: the process is idle again.
Return(p) == proc' = [proc EXCEPT ![p] = Idle]

-----------------------------------------------------------------------------
(* put and write_atomic *)

\* `put` up to the existence test: a hit returns at once.
PutCheck(p, c) ==
  /\ proc[p].pc = "idle"
  /\ base[c] = None
  /\ proc' = [proc EXCEPT ![p].pc = "open", ![p].c = c]
  /\ UNCHANGED <<base, tmp, view, data, imode, placed, known>>

\* Mutant of PutOpenExisting: clear a stale temporary before creating one.
PutOpenUnlinks(p) ==
  /\ proc[p].pc = "open"
  /\ tmp[proc[p].c] # None
  /\ tmp' = [tmp EXCEPT ![proc[p].c] = None]
  /\ UNCHANGED <<base, view, data, imode, placed, known, proc>>

\* fs::write opens <hash>.tmp with O_CREAT | O_TRUNC: it empties the inode that
\* has the name, whoever wrote it.
PutOpenExisting(p) ==
  /\ proc[p].pc = "open"
  /\ tmp[proc[p].c] # None
  /\ proc' = [proc EXCEPT ![p].pc = "write", ![p].file = tmp[proc[p].c]]
  /\ data' = [data EXCEPT ![tmp[proc[p].c]] = {}]
  /\ UNCHANGED <<base, tmp, view, imode, placed, known>>

PutOpenNew(p) ==
  /\ proc[p].pc = "open"
  /\ tmp[proc[p].c] = None
  /\ \E i \in Inode :
       /\ Free(i)
       /\ tmp' = [tmp EXCEPT ![proc[p].c] = i]
       /\ data' = [data EXCEPT ![i] = {}]
       /\ imode' = [imode EXCEPT ![i] = Umasked]
       /\ proc' = [proc EXCEPT ![p].pc = "write", ![p].file = i]
  /\ UNCHANGED <<base, view, placed, known>>

\* Mutants of PutWrite: one byte too many, a short write taken for the whole,
\* no chmod afterwards.
PutWriteOneMore(p) ==
  LET k == proc[p].off + 1 IN
  /\ proc[p].pc = "write"
  /\ data' = [data EXCEPT ![proc[p].file] = @ \cup {k}]
  /\ proc' = IF k > N
             THEN [proc EXCEPT ![p].pc = "chmod", ![p].off = k, ![p].file = None]
             ELSE [proc EXCEPT ![p].off = k]
  /\ UNCHANGED <<base, tmp, view, imode, placed, known>>

PutWriteShort(p) ==
  /\ proc[p].pc = "write"
  /\ data' = [data EXCEPT ![proc[p].file] = @ \cup {1}]
  /\ proc' = [proc EXCEPT ![p].pc = "chmod", ![p].off = 1, ![p].file = None]
  /\ UNCHANGED <<base, tmp, view, imode, placed, known>>

PutWriteNoChmod(p) ==
  LET k == proc[p].off + 1 IN
  /\ proc[p].pc = "write"
  /\ data' = [data EXCEPT ![proc[p].file] = @ \cup {k}]
  /\ proc' = IF k = N
             THEN [proc EXCEPT ![p].pc = "rename", ![p].off = k, ![p].file = None]
             ELSE [proc EXCEPT ![p].off = k]
  /\ UNCHANGED <<base, tmp, view, imode, placed, known>>

\* One write(2) of write_all; after the last one the file is closed.
PutWrite(p) ==
  LET k == proc[p].off + 1 IN
  /\ proc[p].pc = "write"
  /\ data' = [data EXCEPT ![proc[p].file] = @ \cup {k}]
  /\ proc' = IF k = N
             THEN [proc EXCEPT ![p].pc = "chmod", ![p].off = k, ![p].file = None]
             ELSE [proc EXCEPT ![p].off = k]
  /\ UNCHANGED <<base, tmp, view, imode, placed, known>>

\* set_permissions goes by name: the inode it reaches need not be the one that
\* was written.
PutChmod(p) ==
  /\ proc[p].pc = "chmod"
  /\ tmp[proc[p].c] # None
  /\ imode' = [imode EXCEPT ![tmp[proc[p].c]] = Canonical]
  /\ proc' = [proc EXCEPT ![p].pc = "rename"]
  /\ UNCHANGED <<base, tmp, view, data, placed, known>>

\* rename, by name too; the content is published and put returns Ok.
PutRename(p) ==
  /\ proc[p].pc = "rename"
  /\ tmp[proc[p].c] # None
  /\ base' = [base EXCEPT ![proc[p].c] = tmp[proc[p].c]]
  /\ tmp' = [tmp EXCEPT ![proc[p].c] = None]
  /\ known' = known \cup {proc[p].c}
  /\ Return(p)
  /\ UNCHANGED <<view, data, imode, placed>>

\* The temporary was renamed away by another process: chmod or rename finds no
\* file and put returns Err.
PutTmpGone(p) ==
  /\ proc[p].pc \in {"chmod", "rename"}
  /\ tmp[proc[p].c] = None
  /\ Return(p)
  /\ UNCHANGED <<base, tmp, view, data, imode, placed, known>>

-----------------------------------------------------------------------------
(* materialize and ensure_view *)

\* Mutant of LinkName: no view per mode.
LinkNameNoView(p) == base[proc[p].c]

\* The name materialize links or copies from.
LinkName(p) ==
  IF proc[p].m = Canonical THEN base[proc[p].c] ELSE view[<<proc[p].c, proc[p].m>>]

\* materialize up to the choice of the source name; without an entry it bails.
MatCheck(p, c, m) ==
  /\ proc[p].pc = "idle"
  /\ base[c] # None
  /\ proc' = [proc EXCEPT ![p].pc = IF m = Canonical THEN "link" ELSE "view",
                          ![p].c = c, ![p].m = m]
  /\ UNCHANGED <<base, tmp, view, data, imode, placed, known>>

\* ensure_view: use the view that is there, or go and copy the entry.
ViewCheck(p) ==
  /\ proc[p].pc = "view"
  /\ proc' = IF view[<<proc[p].c, proc[p].m>>] # None
             THEN [proc EXCEPT ![p].pc = "link"]
             ELSE [proc EXCEPT ![p].pc = "viewcopy"]
  /\ UNCHANGED <<base, tmp, view, data, imode, placed, known>>

\* fs::copy opens its source and creates the target with the source's mode.
StartCopy(p, src, for) ==
  /\ src # None
  /\ \E i \in Inode :
       /\ Free(i)
       /\ data' = [data EXCEPT ![i] = {}]
       /\ imode' = [imode EXCEPT ![i] = imode[src]]
       /\ proc' = [proc EXCEPT ![p].pc = "copy", ![p].for = for,
                               ![p].file = i, ![p].src = src, ![p].off = 0]
  /\ UNCHANGED <<base, tmp, view, placed, known>>

\* The view's temporary, named after the pid, from the entry.
ViewCopyOpen(p) ==
  /\ proc[p].pc = "viewcopy"
  /\ StartCopy(p, base[proc[p].c], "view")

\* The fallback of a failed hard link: copy into the destination.
DestCopyOpen(p) ==
  /\ proc[p].pc = "destcopy"
  /\ StartCopy(p, LinkName(p), "dest")

\* fs::copy's loop: the target gets a chunk if the source holds it by then.
Copy(p) ==
  LET k == proc[p].off + 1 IN
  /\ proc[p].pc = "copy"
  /\ data' = [data EXCEPT ![proc[p].file] = @ \cup ({k} \cap data[proc[p].src])]
  /\ proc' = IF k = N
             THEN [proc EXCEPT ![p].pc = "copychmod", ![p].off = k]
             ELSE [proc EXCEPT ![p].off = k]
  /\ UNCHANGED <<base, tmp, view, imode, placed, known>>

\* Mutant of CopyChmod: the copy keeps the mode of its source.
CopyNoChmod(p) ==
  /\ proc[p].pc = "copychmod"
  /\ proc' = [proc EXCEPT ![p].pc = "publish"]
  /\ UNCHANGED <<base, tmp, view, data, imode, placed, known>>

\* set_permissions on the copy.
CopyChmod(p) ==
  /\ proc[p].pc = "copychmod"
  /\ imode' = [imode EXCEPT ![proc[p].file] = proc[p].m]
  /\ proc' = [proc EXCEPT ![p].pc = "publish"]
  /\ UNCHANGED <<base, tmp, view, data, placed, known>>

\* ensure_view renames its temporary into the view and materialize goes on.
ViewRename(p) ==
  /\ proc[p].pc = "publish"
  /\ proc[p].for = "view"
  /\ view' = [view EXCEPT ![<<proc[p].c, proc[p].m>>] = proc[p].file]
  /\ proc' = [proc EXCEPT ![p].pc = "link", ![p].for = None,
                          ![p].file = None, ![p].src = None, ![p].off = 0]
  /\ UNCHANGED <<base, tmp, data, imode, placed, known>>

\* The file p was asked for is at its destination, in inode i.
PlaceAt(p, i) ==
  /\ placed' = [placed EXCEPT ![p] = [c |-> proc[p].c, m |-> proc[p].m, ino |-> i]]
  /\ Return(p)

\* The destination is a copy: it is finished once its mode is set.
DestCopied(p) ==
  /\ proc[p].pc = "publish"
  /\ proc[p].for = "dest"
  /\ PlaceAt(p, proc[p].file)
  /\ UNCHANGED <<base, tmp, view, data, imode, known>>

\* hard_link: the destination shares the inode the name has now.
Link(p) ==
  /\ proc[p].pc = "link"
  /\ LinkName(p) # None
  /\ PlaceAt(p, LinkName(p))
  /\ UNCHANGED <<base, tmp, view, data, imode, known>>

\* hard_link fails (too many links, or the source name is gone): the old
\* destination is already removed and materialize falls back to a copy.
LinkFails(p) ==
  /\ proc[p].pc = "link"
  /\ placed' = [placed EXCEPT ![p] = None]
  /\ proc' = [proc EXCEPT ![p].pc = "destcopy"]
  /\ UNCHANGED <<base, tmp, view, data, imode, known>>

\* Neither copy finds its source: materialize returns Err.
CopySourceGone(p) ==
  /\ \/ proc[p].pc = "viewcopy" /\ base[proc[p].c] = None
     \/ proc[p].pc = "destcopy" /\ LinkName(p) = None
  /\ Return(p)
  /\ UNCHANGED <<base, tmp, view, data, imode, placed, known>>

-----------------------------------------------------------------------------
(* The environment *)

\* A system call fails (disk full, I/O error) or the process is killed.  Its
\* files are closed; <hash>.tmp stays as it is.
Fail(p) ==
  /\ proc[p].pc # "idle"
  /\ Return(p)
  /\ placed' = [placed EXCEPT ![p] = None]
  /\ UNCHANGED <<base, tmp, view, data, imode, known>>

\* Somebody clears part of the cache ("a partially evicted cache", src/run.rs).
EvictEntry(c) ==
  /\ base[c] # None
  /\ base' = [base EXCEPT ![c] = None]
  /\ UNCHANGED <<tmp, view, data, imode, placed, known, proc>>

EvictView(c, m) ==
  /\ view[<<c, m>>] # None
  /\ view' = [view EXCEPT ![<<c, m>>] = None]
  /\ UNCHANGED <<base, tmp, data, imode, placed, known, proc>>

-----------------------------------------------------------------------------
PutStep(p) ==
  \/ PutOpenExisting(p) \/ PutOpenNew(p) \/ PutWrite(p) \/ PutChmod(p)
  \/ PutRename(p) \/ PutTmpGone(p)
  \/ \E c \in Content : PutCheck(p, c)

PlaceStep(p) ==
  \/ ViewCheck(p) \/ ViewCopyOpen(p) \/ DestCopyOpen(p) \/ Copy(p)
  \/ CopyChmod(p) \/ ViewRename(p) \/ DestCopied(p) \/ Link(p) \/ LinkFails(p)
  \/ \E c \in Content, m \in Mode : MatCheck(p, c, m)

MatStep(p) == PlaceStep(p) \/ CopySourceGone(p)

Evict ==
  \/ \E c \in Content : EvictEntry(c)
  \/ \E c \in Content, m \in Mode : EvictView(c, m)

Step == \E p \in Proc : PutStep(p) \/ MatStep(p)
Next == Step \/ Evict \/ \E p \in Proc : Fail(p)

\* Any number of processes, faults and evictions.
Spec == Init /\ [][Next]_vars

\* The same without a failed call, a kill or an eviction; so no source is gone.
CalmStep == \E p \in Proc : PutStep(p) \/ PlaceStep(p)
CalmSpec == Init /\ [][CalmStep]_vars

\* No two processes are storing the same content at the same time.
Storing(p, c) == proc[p].pc \in PutPc /\ proc[p].c = c
Serial ==
  \A p, q \in Proc, c \in Content : Storing(p, c) /\ Storing(q, c) => p = q

\* Faults and evictions, but no two writers of one content.
SerialSpec == Init /\ [][Next /\ Serial']_vars

-----------------------------------------------------------------------------
(* Properties *)

\* An entry the cache shows under <hash> holds every byte of the content and
\* has mode 0644: "their contents, addressed by their own hash".
PublishedComplete ==
  \A c \in Content :
    base[c] # None => data[base[c]] = Chunk /\ imode[base[c]] = Canonical

\* A file placed in a root filesystem keeps the bytes of its digest and the mode
\* that was asked for, whatever other processes do to the inode it shares.
PlacedFaithful ==
  \A p \in Proc :
    placed[p] # None => /\ data[placed[p].ino] = Chunk
                        /\ imode[placed[p].ino] = placed[p].m

\* Whatever the interleaving of the writers, while nobody fails: a chunk missing
\* from a published entry is still going to be written by a process that has
\* the inode open.  So the cache heals once the writers are done.
StillBeingWritten ==
  \A c \in Content : base[c] # None =>
    \A k \in Chunk \ data[base[c]] :
      \E p \in Proc : /\ proc[p].pc = "write" /\ proc[p].file = base[c]
                      /\ proc[p].off < k

\* A put that loses the race for the temporary (PutTmpGone) returns Err though
\* the content it wanted to store is in the cache.
LoserFindsEntry ==
  \A p \in Proc :
    proc[p].pc \in {"chmod", "rename"} /\ tmp[proc[p].c] = None
      => base[proc[p].c] # None

-----------------------------------------------------------------------------
(* The cache implements the abstract store. *)

\* What a reader of the file p placed last finds: the content with the mode that
\* was asked for, or something the abstract store never shows.
Seen(p) ==
  IF placed[p] = None THEN None
  ELSE IF /\ data[placed[p].ino] = Chunk
          /\ imode[placed[p].ino] = placed[p].m
       THEN <<placed[p].c, placed[p].m>>
       ELSE <<placed[p].c, "spoiled">>

Abstract == INSTANCE ContentStore WITH
  stored <- {c \in Content : base[c] # None /\ data[base[c]] = Chunk},
  seen <- [p \in Proc |-> Seen(p)]

\* Every system call of put, materialize and ensure_view is one atomic operation
\* of ContentStore, or none, as long as the writers of a content take turns.
ImplementsContentStore == Abstract!Spec
=============================================================================
