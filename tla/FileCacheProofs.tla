--------------------------- MODULE FileCacheProofs ---------------------------
(***************************************************************************)
(* Theorems about FileCache for any number of processes, contents, modes    *)
(* and chunks.                                                              *)
(***************************************************************************)
EXTENDS FileCache, TLAPS

-----------------------------------------------------------------------------
(* Typing.  TypeOK is not inductive alone: the bound on off and the source    *)
(* of a copy depend on where the process is.                                  *)

LocalOK ==
  \A p \in Proc :
    /\ proc[p].pc = "idle" => proc[p] = Idle
    /\ proc[p].pc # "idle" => proc[p].c \in Content
    /\ proc[p].pc \notin PutPc \cup {"idle"} => proc[p].m \in Mode
    /\ proc[p].pc \in {"open", "view", "viewcopy", "link", "destcopy"} => proc[p].off = 0
    /\ proc[p].pc \in {"write", "copy"} => proc[p].off < N
    /\ proc[p].pc \in CopyPc \cup {"write"} <=> proc[p].file # None
    /\ proc[p].pc \in CopyPc <=> proc[p].src # None

TypeInv == TypeOK /\ LocalOK

USE NAssumption, ModeAssumption, NoneAssumption

\* The types hold initially.
LEMMA TypeInit == Init => TypeInv
  BY DEF Init, TypeInv, TypeOK, LocalOK, Local, Idle, Pc, PutPc, CopyPc, Chunk

\* A step of put keeps the types.
LEMMA TypePut ==
  ASSUME TypeInv, NEW p \in Proc, PutStep(p)
  PROVE  TypeInv'
<1> USE DEF TypeInv, TypeOK, LocalOK, Local, Idle, Pc, PutPc, CopyPc, Chunk, Return
<1>1. CASE PutOpenExisting(p)  BY <1>1 DEF PutOpenExisting
<1>2. CASE PutOpenNew(p)  BY <1>2 DEF PutOpenNew
<1>3. CASE PutWrite(p)
  <2>1. proc[p].off + 1 \in 1..N /\ proc[p].file \in Inode
    BY <1>3 DEF PutWrite
  <2>2. data' \in [Inode -> SUBSET Chunk]
    BY <1>3, <2>1 DEF PutWrite
  <2>3. CASE proc[p].off + 1 = N
    BY <1>3, <2>1, <2>2, <2>3 DEF PutWrite
  <2>4. CASE proc[p].off + 1 # N
    BY <1>3, <2>1, <2>2, <2>4 DEF PutWrite
  <2> QED  BY <2>3, <2>4, Zenon
<1>4. CASE PutChmod(p)  BY <1>4 DEF PutChmod
<1>5. CASE PutRename(p)  BY <1>5 DEF PutRename
<1>6. CASE PutTmpGone(p)  BY <1>6 DEF PutTmpGone
<1>7. CASE \E c \in Content : PutCheck(p, c)  BY <1>7 DEF PutCheck
<1> QED  BY <1>1, <1>2, <1>3, <1>4, <1>5, <1>6, <1>7 DEF PutStep

\* A step of materialize keeps the types.
LEMMA TypeMat ==
  ASSUME TypeInv, NEW p \in Proc, MatStep(p)
  PROVE  TypeInv'
<1> USE DEF TypeInv, TypeOK, LocalOK, Local, Idle, Pc, PutPc, CopyPc, Chunk, Return
<1>1. CASE ViewCheck(p)
  <2>1. CASE view[<<proc[p].c, proc[p].m>>] # None  BY <1>1, <2>1 DEF ViewCheck
  <2>2. CASE view[<<proc[p].c, proc[p].m>>] = None
    <3>1. proc' = [proc EXCEPT ![p].pc = "viewcopy"]  BY <1>1, <2>2 DEF ViewCheck
    <3> QED  BY <1>1, <3>1 DEF ViewCheck
  <2> QED  BY <2>1, <2>2, Zenon
<1>2. CASE ViewCopyOpen(p)  BY <1>2 DEF ViewCopyOpen, StartCopy
<1>3. CASE DestCopyOpen(p)
  <2>1. LinkName(p) \in Inode
    BY <1>3 DEF DestCopyOpen, StartCopy, LinkName
  <2> QED  BY <1>3, <2>1 DEF DestCopyOpen, StartCopy
<1>4. CASE Copy(p)
  <2>1. /\ proc[p].off + 1 \in 1..N
        /\ proc[p].file \in Inode
        /\ proc[p].src \in Inode
    BY <1>4 DEF Copy
  <2>2. data' \in [Inode -> SUBSET Chunk]
    BY <1>4, <2>1 DEF Copy
  <2>3. CASE proc[p].off + 1 = N
    BY <1>4, <2>1, <2>2, <2>3 DEF Copy
  <2>4. CASE proc[p].off + 1 # N
    BY <1>4, <2>1, <2>2, <2>4 DEF Copy
  <2> QED  BY <2>3, <2>4, Zenon
<1>5. CASE CopyChmod(p)  BY <1>5 DEF CopyChmod
<1>6. CASE ViewRename(p)  BY <1>6 DEF ViewRename
<1>7. CASE DestCopied(p)  BY <1>7 DEF DestCopied, PlaceAt
<1>8. CASE Link(p)  BY <1>8 DEF Link, PlaceAt, LinkName
<1>9. CASE LinkFails(p)  BY <1>9 DEF LinkFails
<1>10. CASE CopySourceGone(p)  BY <1>10 DEF CopySourceGone
<1>11. CASE \E c \in Content, m \in Mode : MatCheck(p, c, m)
  BY <1>11 DEF MatCheck
<1> QED
  BY <1>1, <1>2, <1>3, <1>4, <1>5, <1>6, <1>7, <1>8, <1>9, <1>10, <1>11
  DEF MatStep, PlaceStep

\* Every step keeps the types.
LEMMA TypeNext == TypeInv /\ [Next]_vars => TypeInv'
<1> SUFFICES ASSUME TypeInv, [Next]_vars  PROVE TypeInv'
  OBVIOUS
<1>1. CASE Step  BY <1>1, TypePut, TypeMat DEF Step
<1>2. CASE Evict
  BY <1>2 DEF Evict, EvictEntry, EvictView, TypeInv, TypeOK, LocalOK
<1>3. CASE \E p \in Proc : Fail(p)
  BY <1>3 DEF Fail, Return, TypeInv, TypeOK, LocalOK, Local, Idle, Pc, PutPc, CopyPc
<1>4. CASE UNCHANGED vars
  BY <1>4 DEF vars, TypeInv, TypeOK, LocalOK
<1> QED  BY <1>1, <1>2, <1>3, <1>4 DEF Next

\* Every variable keeps its type, however many processes, faults and evictions.
THEOREM Typing == Spec => []TypeOK
<1>1. TypeInv => TypeOK  BY DEF TypeInv
<1> QED  BY <1>1, TypeInit, TypeNext, PTL DEF Spec

-----------------------------------------------------------------------------
(* Entries are whole and placed files keep their bytes while the writers of a *)
(* content take turns.  The inductive invariant separates the inodes that are *)
(* being written from the ones somebody can read through a published name, a  *)
(* placed file or a copy in progress: only the former ever change.            *)

\* Inode i is somebody's to write.
Written(i) ==
  \/ \E c \in Content : tmp[c] = i
  \/ \E p \in Proc : proc[p].file = i

\* Inode i is reachable by a reader.
Readable(i) ==
  \/ \E c \in Content : base[c] = i
  \/ \E cm \in Content \X Mode : view[cm] = i
  \/ \E p \in Proc : placed[p] # None /\ placed[p].ino = i
  \/ \E p \in Proc : proc[p].src = i

Separate == \A i \in Inode : ~(Written(i) /\ Readable(i))

TmpPrivate == \A c, d \in Content : tmp[c] # None /\ tmp[c] = tmp[d] => c = d

CopyPrivate ==
  \A p \in Proc : proc[p].pc \in CopyPc =>
    /\ \A c \in Content : tmp[c] # proc[p].file
    /\ \A q \in Proc : q # p => proc[q].file # proc[p].file

\* How far each writer is.
PutProgress ==
  \A p \in Proc :
    /\ proc[p].pc = "write" =>
         proc[p].file = tmp[proc[p].c] /\ 1..proc[p].off \subseteq data[proc[p].file]
    /\ proc[p].pc \in {"chmod", "rename"} =>
         tmp[proc[p].c] # None /\ data[tmp[proc[p].c]] = Chunk
    /\ proc[p].pc = "rename" => imode[tmp[proc[p].c]] = Canonical

CopyProgress ==
  \A p \in Proc :
    /\ proc[p].pc = "copy" => 1..proc[p].off \subseteq data[proc[p].file]
    /\ proc[p].pc \in CopyPc => data[proc[p].src] = Chunk
    /\ proc[p].pc \in {"copychmod", "publish"} => data[proc[p].file] = Chunk
    /\ proc[p].pc = "publish" => imode[proc[p].file] = proc[p].m

ViewsComplete ==
  \A cm \in Content \X Mode :
    view[cm] # None => data[view[cm]] = Chunk /\ imode[view[cm]] = cm[2]

Whole == PublishedComplete /\ ViewsComplete /\ PlacedFaithful

IInv ==
  /\ TypeInv /\ Serial
  /\ Separate /\ TmpPrivate /\ CopyPrivate
  /\ PutProgress /\ CopyProgress /\ Whole

\* The strengthened invariant holds initially.
LEMMA IInvInit == Init => IInv
<1> SUFFICES ASSUME Init  PROVE IInv
  OBVIOUS
<1>1. TypeInv  BY TypeInit
<1> QED
  BY <1>1 DEF Init, Idle, IInv, Serial, Storing, Separate, Written, Readable, TmpPrivate,
      CopyPrivate, PutProgress, CopyProgress, Whole, PublishedComplete, ViewsComplete,
      PlacedFaithful, PutPc, CopyPc

\* What a step has to re-establish beside typing and taking turns.
Safe == Separate /\ TmpPrivate /\ CopyPrivate /\ PutProgress /\ CopyProgress /\ Whole

\* Truncating <hash>.tmp takes nothing from a reader.
LEMMA OpenExistingWhole ==
  ASSUME IInv, TypeInv', Serial', NEW p \in Proc, PutOpenExisting(p)
  PROVE  Whole'
<1> USE DEF TypeInv, TypeOK, LocalOK, Local, Pc, PutPc, CopyPc, Chunk
<1>1. Written(tmp[proc[p].c]) /\ tmp[proc[p].c] \in Inode
  BY DEF PutOpenExisting, Written
<1>2. ASSUME NEW i \in Inode, Readable(i)
      PROVE  data'[i] = data[i] /\ imode'[i] = imode[i]
  BY <1>1, <1>2 DEF PutOpenExisting, IInv, Separate
<1>3. PublishedComplete'
  BY <1>2 DEF PutOpenExisting, IInv, Whole, PublishedComplete, Readable
<1>4. ViewsComplete'
  BY <1>2 DEF PutOpenExisting, IInv, Whole, ViewsComplete, Readable
<1>5. PlacedFaithful'
  BY <1>2 DEF PutOpenExisting, IInv, Whole, PlacedFaithful, Readable
<1> QED  BY <1>3, <1>4, <1>5 DEF Whole

\* A new temporary starts empty; no other writer has it.
LEMMA OpenNewProgress ==
  ASSUME IInv, TypeInv', Serial', NEW p \in Proc, PutOpenNew(p)
  PROVE  PutProgress'
<1> USE DEF TypeInv, TypeOK, LocalOK, Local, Pc, PutPc, CopyPc, Chunk
<1>1. PICK i \in Inode :
       /\ Free(i)
       /\ tmp' = [tmp EXCEPT ![proc[p].c] = i]
       /\ data' = [data EXCEPT ![i] = {}]
       /\ imode' = [imode EXCEPT ![i] = Umasked]
       /\ proc' = [proc EXCEPT ![p].pc = "write", ![p].file = i]
  BY DEF PutOpenNew
<1>2. proc[p].pc = "open" /\ proc[p].c \in Content /\ proc[p].off = 0
  BY DEF PutOpenNew, IInv
<1>3. ASSUME NEW q \in Proc, q # p, proc[q].pc \in {"write", "chmod", "rename"}
      PROVE  /\ proc'[q] = proc[q] /\ tmp'[proc[q].c] = tmp[proc[q].c]
             /\ tmp[proc[q].c] \in Inode /\ tmp[proc[q].c] # i
  BY <1>1, <1>2, <1>3 DEF Free, IInv, PutProgress, Serial, Storing
<1>4. ASSUME NEW q \in Proc, q # p
      PROVE  /\ proc'[q].pc = "write" =>
                  /\ proc'[q].file = tmp'[proc'[q].c]
                  /\ 1..proc'[q].off \subseteq data'[proc'[q].file]
             /\ proc'[q].pc \in {"chmod", "rename"} =>
                  tmp'[proc'[q].c] # None /\ data'[tmp'[proc'[q].c]] = Chunk
             /\ proc'[q].pc = "rename" => imode'[tmp'[proc'[q].c]] = Canonical
  <2>1. proc'[q] = proc[q]  BY <1>1, <1>4
  <2> QED  BY <1>1, <1>3, <1>4, <2>1 DEF IInv, PutProgress
<1>5. /\ proc'[p].pc = "write" /\ proc'[p].off = 0
      /\ proc'[p].file = tmp'[proc'[p].c]
  BY <1>1, <1>2 DEF IInv
<1> QED  BY <1>4, <1>5 DEF PutProgress

\* A write brings the temporary one chunk further.
LEMMA WriteProgress ==
  ASSUME IInv, TypeInv', Serial', NEW p \in Proc, PutWrite(p)
  PROVE  PutProgress'
<1> DEFINE k == proc[p].off + 1
           f == proc[p].file
<1> USE DEF TypeInv, TypeOK, LocalOK, Local, Pc, PutPc, CopyPc, Chunk
<1>1. /\ f \in Inode /\ f = tmp[proc[p].c] /\ proc[p].c \in Content
      /\ k \in 1..N /\ 1..proc[p].off \subseteq data[f]
  BY DEF PutWrite, IInv, PutProgress
<1>2. data' = [data EXCEPT ![f] = @ \cup {k}] /\ imode' = imode /\ tmp' = tmp
  BY DEF PutWrite
<1>3. 1..k \subseteq data'[f]
  BY <1>1, <1>2 DEF IInv
<1>4. ASSUME NEW i \in Inode  PROVE data[i] \subseteq data'[i] /\ data'[i] \subseteq Chunk
  BY <1>1, <1>2 DEF IInv
<1>5. tmp \in [Content -> Inode \cup {None}] /\ proc \in [Proc -> Local]
  BY DEF IInv
<1>6. ASSUME NEW q \in Proc, q # p
      PROVE  /\ proc'[q].pc = "write" =>
                  /\ proc'[q].file = tmp'[proc'[q].c]
                  /\ 1..proc'[q].off \subseteq data'[proc'[q].file]
             /\ proc'[q].pc \in {"chmod", "rename"} =>
                  tmp'[proc'[q].c] # None /\ data'[tmp'[proc'[q].c]] = Chunk
             /\ proc'[q].pc = "rename" => imode'[tmp'[proc'[q].c]] = Canonical
  <2>1. proc'[q] = proc[q]  BY <1>6 DEF PutWrite
  <2>2. CASE proc[q].pc = "write"
    <3>1. /\ proc[q].file = tmp[proc[q].c] /\ proc[q].file \in Inode
          /\ 1..proc[q].off \subseteq data[proc[q].file]
      BY <2>2 DEF IInv, PutProgress
    <3> QED  BY <1>2, <1>4, <2>1, <2>2, <3>1
  <2>3. CASE proc[q].pc \in {"chmod", "rename"}
    <3>1. /\ tmp[proc[q].c] \in Inode /\ data[tmp[proc[q].c]] = Chunk
          /\ proc[q].pc = "rename" => imode[tmp[proc[q].c]] = Canonical
      BY <2>3 DEF IInv, PutProgress
    <3>2. data'[tmp[proc[q].c]] = Chunk  BY <1>4, <3>1
    <3> QED  BY <1>2, <2>1, <2>3, <3>1, <3>2
  <2> QED  BY <2>1, <2>2, <2>3
<1>7. CASE k = N
  <2>1. proc'[p].pc = "chmod" /\ proc'[p].c = proc[p].c
    BY <1>7 DEF PutWrite, IInv
  <2>2. data'[f] = Chunk  BY <1>1, <1>3, <1>4, <1>7
  <2> HIDE DEF TypeInv, TypeOK, LocalOK, Local, Pc, PutPc, CopyPc, Chunk, f, k
  <2>3. tmp[proc[p].c] # None /\ data'[tmp[proc[p].c]] = Chunk
    BY <1>1, <2>2
  <2> QED  BY <1>2, <1>6, <2>1, <2>3 DEF PutProgress
<1>8. CASE k # N
  <2>1. proc' = [proc EXCEPT ![p].off = k] /\ proc[p].pc = "write"  BY <1>8 DEF PutWrite
  <2>2. /\ proc'[p].pc = "write" /\ proc'[p].c = proc[p].c
        /\ proc'[p].file = f /\ proc'[p].off = k
    BY <2>1 DEF IInv
  <2> QED  BY <1>1, <1>2, <1>3, <1>6, <2>2 DEF PutProgress
<1> QED  BY <1>7, <1>8, Zenon

\* A renamed temporary has no writer left.
LEMMA RenameSeparate ==
  ASSUME IInv, TypeInv', Serial', NEW p \in Proc, PutRename(p)
  PROVE  Separate'
<1> USE DEF TypeInv, TypeOK, LocalOK, Local, Pc, PutPc, CopyPc, Chunk
<1>1. PICK i0 \in Inode : i0 = tmp[proc[p].c]
  BY DEF PutRename, IInv
<1>2. proc[p].c \in Content /\ \A d \in Content : tmp'[d] # i0
  BY <1>1 DEF PutRename, IInv, TmpPrivate
<1>3. \A q \in Proc : proc'[q].file # i0
  <2>1. proc'[p].file = None  BY DEF PutRename, Return, Idle
  <2>2. ASSUME NEW q \in Proc, q # p  PROVE proc'[q].file # i0
    <3>1. proc'[q] = proc[q]  BY <2>2 DEF PutRename, Return
    <3>2. CASE proc[q].pc = "write"
      BY <1>1, <1>2, <2>2, <3>1, <3>2 DEF PutRename, IInv, PutProgress, TmpPrivate, Serial, Storing
    <3>3. CASE proc[q].pc \in CopyPc
      BY <1>1, <1>2, <3>1, <3>3 DEF IInv, CopyPrivate
    <3>4. CASE proc[q].pc \notin CopyPc \cup {"write"}
      BY <1>1, <3>1, <3>4 DEF IInv
    <3> QED  BY <3>2, <3>3, <3>4, Zenon
  <2> QED  BY <1>1, <2>1, <2>2, Zenon
<1>4. ASSUME NEW i \in Inode, i # i0, Readable(i)', Written(i)'  PROVE FALSE
  BY <1>1, <1>4 DEF PutRename, Return, Idle, IInv, Separate, Written, Readable
<1>5. ~Written(i0)'
  BY <1>2, <1>3 DEF Written
<1> HIDE DEF TypeInv, TypeOK, LocalOK, Local, Pc, PutPc, CopyPc, Chunk
<1> QED  BY <1>4, <1>5, Zenon DEF Separate

\* A copy starts in an inode of its own, from a readable one.
LEMMA StartCopySafe ==
  ASSUME IInv, TypeInv', NEW p \in Proc, NEW src \in Inode, NEW for,
         proc[p].pc \in {"viewcopy", "destcopy"},
         StartCopy(p, src, for), Readable(src), data[src] = Chunk
  PROVE  Safe'
<1> USE DEF TypeInv, TypeOK, LocalOK, Local, Pc, PutPc, CopyPc, Chunk
<1>1. PICK i \in Inode :
        /\ Free(i)
        /\ data' = [data EXCEPT ![i] = {}]
        /\ imode' = [imode EXCEPT ![i] = imode[src]]
        /\ proc' = [proc EXCEPT ![p].pc = "copy", ![p].for = for,
                                ![p].file = i, ![p].src = src, ![p].off = 0]
  BY DEF StartCopy
<1>2. base' = base /\ tmp' = tmp /\ view' = view /\ placed' = placed
  BY DEF StartCopy
<1>3. ~Readable(i) /\ ~Written(i)
  BY <1>1 DEF Free, Readable, Written
<1>4. /\ proc'[p].pc = "copy" /\ proc'[p].file = i
      /\ proc'[p].src = src /\ proc'[p].off = 0
  BY <1>1 DEF IInv
<1>5. ASSUME NEW q \in Proc, q # p  PROVE proc'[q] = proc[q]
  BY <1>1, <1>5
<1>6. ASSUME NEW j \in Inode, j # i  PROVE data'[j] = data[j] /\ imode'[j] = imode[j]
  BY <1>1, <1>6 DEF IInv
<1>0. src # i  BY <1>3
<1> HIDE DEF TypeInv, TypeOK, LocalOK, Local, Pc, PutPc, CopyPc, Chunk
<1>7. Separate'
  <2>1. ASSUME NEW j \in Inode, Readable(j)'  PROVE Readable(j) /\ j # i
    BY <1>0, <1>2, <1>3, <1>4, <1>5, <2>1 DEF Readable
  <2>2. ASSUME NEW j \in Inode, Written(j)', j # i  PROVE Written(j)
    BY <1>2, <1>4, <1>5, <2>2 DEF Written
  <2> QED  BY <2>1, <2>2 DEF IInv, Separate
<1>8. TmpPrivate'
  BY <1>2 DEF IInv, TmpPrivate
<1>9. CopyPrivate'
  <2>1. \A c \in Content : tmp[c] # i  BY <1>3 DEF Written
  <2>2. \A q \in Proc : q # p => proc'[q] = proc[q] /\ proc[q].file # i
    BY <1>3, <1>5 DEF Written
  <2>3. \A q \in Proc : q # p /\ proc[q].pc \in CopyPc =>
          /\ \A c \in Content : tmp[c] # proc[q].file
          /\ \A r \in Proc : r # q /\ r # p => proc[r].file # proc[q].file
    BY DEF IInv, CopyPrivate
  <2> QED  BY <1>2, <1>4, <2>1, <2>2, <2>3 DEF CopyPrivate
<1>10. PutProgress'
  <2>1. ASSUME NEW q \in Proc, proc[q].pc \in {"write", "chmod", "rename"}
        PROVE  tmp[proc[q].c] \in Inode /\ tmp[proc[q].c] # i
    BY <1>3, <2>1 DEF IInv, PutProgress, Written, TypeInv, TypeOK, LocalOK, Local
  <2> QED  BY <1>2, <1>4, <1>5, <1>6, <2>1 DEF IInv, PutProgress, Chunk
<1>11. CopyProgress'
  <2>1. ASSUME NEW q \in Proc, q # p, proc[q].pc \in CopyPc
        PROVE  /\ proc[q].file \in Inode /\ proc[q].file # i
               /\ proc[q].src \in Inode /\ proc[q].src # i
    BY <1>3, <2>1 DEF IInv, Readable, Written, TypeInv, TypeOK, LocalOK, Local
  <2>2. src # i  BY <1>3
  <2>3. ASSUME NEW q \in Proc, q # p
        PROVE  /\ proc'[q].pc = "copy" => 1..proc'[q].off \subseteq data'[proc'[q].file]
               /\ proc'[q].pc \in CopyPc => data'[proc'[q].src] = Chunk
               /\ proc'[q].pc \in {"copychmod", "publish"} => data'[proc'[q].file] = Chunk
               /\ proc'[q].pc = "publish" => imode'[proc'[q].file] = proc'[q].m
    BY <1>5, <1>6, <2>1, <2>3 DEF IInv, CopyProgress, CopyPc
  <2>4. data'[src] = Chunk /\ 1..proc'[p].off = {}
    BY <1>4, <1>6, <2>2
  <2> QED  BY <1>4, <2>3, <2>4 DEF CopyProgress, CopyPc
<1>12. Whole'
  BY <1>2, <1>3, <1>6 DEF IInv, Whole, PublishedComplete, ViewsComplete, PlacedFaithful,
    Readable, TypeInv, TypeOK
<1> QED  BY <1>7, <1>8, <1>9, <1>10, <1>11, <1>12, Zenon DEF Safe

\* A step that leaves every temporary alone leaves its writers where they are.
LEMMA OthersProgress ==
  ASSUME IInv, NEW p \in Proc, tmp' = tmp, imode' = imode,
         \A c \in Content : tmp[c] # None => data'[tmp[c]] = data[tmp[c]],
         \A q \in Proc : q # p => proc'[q] = proc[q],
         proc'[p].pc \notin {"write", "chmod", "rename"}
  PROVE  PutProgress'
<1>1. ASSUME NEW q \in Proc, q # p, proc[q].pc \in {"write", "chmod", "rename"}
      PROVE  tmp[proc[q].c] # None /\ proc[q].c \in Content
  BY <1>1 DEF IInv, TypeInv, LocalOK, PutProgress
<1> QED  BY <1>1 DEF IInv, PutProgress

\* A step of put keeps the strengthened invariant.
LEMMA PutSafe ==
  ASSUME IInv, TypeInv', Serial', NEW p \in Proc, PutStep(p)
  PROVE  Safe'
<1> USE DEF IInv, TypeInv, TypeOK, LocalOK, Local, Pc, PutPc, CopyPc, Chunk, Serial, Storing,
             Separate, Written, Readable, TmpPrivate, CopyPrivate,
             PutProgress, CopyProgress, Whole, PublishedComplete, ViewsComplete, PlacedFaithful
<1>1. CASE PutOpenExisting(p)
  <2>1. Separate'  BY <1>1 DEF PutOpenExisting
  <2>2. TmpPrivate'  BY <1>1 DEF PutOpenExisting
  <2>3. CopyPrivate'  BY <1>1 DEF PutOpenExisting
  <2>4. PutProgress'  BY <1>1 DEF PutOpenExisting
  <2>5. CopyProgress'  BY <1>1 DEF PutOpenExisting
  <2>6. Whole'  BY <1>1, OpenExistingWhole
  <2> QED  BY <2>1, <2>2, <2>3, <2>4, <2>5, <2>6, Zenon DEF Safe
<1>2. CASE PutOpenNew(p)
  <2>1. Separate'  BY <1>2 DEF PutOpenNew, Free
  <2>2. TmpPrivate'  BY <1>2 DEF PutOpenNew, Free
  <2>3. CopyPrivate'  BY <1>2 DEF PutOpenNew, Free
  <2>4. PutProgress'  BY <1>2, OpenNewProgress
  <2>5. CopyProgress'  BY <1>2 DEF PutOpenNew, Free
  <2>6. Whole'  BY <1>2 DEF PutOpenNew, Free
  <2> QED  BY <2>1, <2>2, <2>3, <2>4, <2>5, <2>6, Zenon DEF Safe
<1>3. CASE PutWrite(p)
  <2>1. Separate'  BY <1>3 DEF PutWrite
  <2>2. TmpPrivate'  BY <1>3 DEF PutWrite
  <2>3. CopyPrivate'  BY <1>3 DEF PutWrite
  <2>4. PutProgress'  BY <1>3, WriteProgress
  <2>5. CopyProgress'  BY <1>3 DEF PutWrite
  <2>6. Whole'  BY <1>3 DEF PutWrite
  <2> QED  BY <2>1, <2>2, <2>3, <2>4, <2>5, <2>6, Zenon DEF Safe
<1>4. CASE PutChmod(p)
  <2>1. Separate'  BY <1>4 DEF PutChmod
  <2>2. TmpPrivate'  BY <1>4 DEF PutChmod
  <2>3. CopyPrivate'  BY <1>4 DEF PutChmod
  <2>4. PutProgress'  BY <1>4 DEF PutChmod
  <2>5. CopyProgress'  BY <1>4 DEF PutChmod
  <2>6. Whole'  BY <1>4 DEF PutChmod
  <2> QED  BY <2>1, <2>2, <2>3, <2>4, <2>5, <2>6, Zenon DEF Safe
<1>5. CASE PutRename(p)
  <2>1. Separate'  BY <1>5, RenameSeparate
  <2>2. TmpPrivate'  BY <1>5 DEF PutRename, Return, Idle
  <2>3. CopyPrivate'  BY <1>5 DEF PutRename, Return, Idle
  <2>4. PutProgress'  BY <1>5 DEF PutRename, Return, Idle
  <2>5. CopyProgress'  BY <1>5 DEF PutRename, Return, Idle
  <2>6. Whole'  BY <1>5 DEF PutRename, Return, Idle
  <2> QED  BY <2>1, <2>2, <2>3, <2>4, <2>5, <2>6, Zenon DEF Safe
<1>6. CASE PutTmpGone(p)
  <2>1. Separate'  BY <1>6 DEF PutTmpGone, Return, Idle
  <2>2. TmpPrivate'  BY <1>6 DEF PutTmpGone, Return, Idle
  <2>3. CopyPrivate'  BY <1>6 DEF PutTmpGone, Return, Idle
  <2>4. PutProgress'  BY <1>6 DEF PutTmpGone, Return, Idle
  <2>5. CopyProgress'  BY <1>6 DEF PutTmpGone, Return, Idle
  <2>6. Whole'  BY <1>6 DEF PutTmpGone, Return, Idle
  <2> QED  BY <2>1, <2>2, <2>3, <2>4, <2>5, <2>6, Zenon DEF Safe
<1>7. CASE \E c \in Content : PutCheck(p, c)
  <2>1. Separate'  BY <1>7 DEF PutCheck
  <2>2. TmpPrivate'  BY <1>7 DEF PutCheck
  <2>3. CopyPrivate'  BY <1>7 DEF PutCheck
  <2>4. PutProgress'  BY <1>7 DEF PutCheck
  <2>5. CopyProgress'  BY <1>7 DEF PutCheck
  <2>6. Whole'  BY <1>7 DEF PutCheck
  <2> QED  BY <2>1, <2>2, <2>3, <2>4, <2>5, <2>6, Zenon DEF Safe
<1> HIDE DEF Separate, TmpPrivate, CopyPrivate, PutProgress, CopyProgress, Whole
<1> QED  BY <1>1, <1>2, <1>3, <1>4, <1>5, <1>6, <1>7, Zenon DEF PutStep

\* A step of materialize keeps the strengthened invariant.
LEMMA MatSafe ==
  ASSUME IInv, TypeInv', Serial', NEW p \in Proc, MatStep(p)
  PROVE  Safe'
<1>1. CASE ViewCopyOpen(p)
  <2>1. base[proc[p].c] \in Inode /\ proc[p].c \in Content /\ proc[p].pc = "viewcopy"
    BY <1>1 DEF ViewCopyOpen, StartCopy, IInv, TypeInv, TypeOK, LocalOK
  <2>2. Readable(base[proc[p].c]) /\ data[base[proc[p].c]] = Chunk
    BY <2>1 DEF Readable, IInv, Whole, PublishedComplete
  <2>3. StartCopy(p, base[proc[p].c], "view")
    BY <1>1 DEF ViewCopyOpen
  <2> QED  BY <2>1, <2>2, <2>3, StartCopySafe
<1>2. CASE DestCopyOpen(p)
  <2>1. /\ LinkName(p) \in Inode /\ proc[p].pc = "destcopy"
        /\ proc[p].c \in Content /\ proc[p].m \in Mode
    BY <1>2 DEF DestCopyOpen, StartCopy, LinkName, IInv, TypeInv, TypeOK, LocalOK, PutPc
  <2>2. Readable(LinkName(p)) /\ data[LinkName(p)] = Chunk
    BY <2>1 DEF LinkName, Readable, IInv, Whole, PublishedComplete, ViewsComplete
  <2>3. StartCopy(p, LinkName(p), "dest")
    BY <1>2 DEF DestCopyOpen
  <2> QED  BY <2>1, <2>2, <2>3, StartCopySafe
<1> USE DEF IInv, TypeInv, TypeOK, LocalOK, Local, Pc, PutPc, CopyPc, Chunk, Serial, Storing,
             Separate, Written, Readable, TmpPrivate, CopyPrivate,
             PutProgress, CopyProgress, Whole, PublishedComplete, ViewsComplete, PlacedFaithful
<1>3. CASE ViewCheck(p)
  <2>1. Separate'  BY <1>3 DEF ViewCheck
  <2>2. TmpPrivate'  BY <1>3 DEF ViewCheck
  <2>3. CopyPrivate'  BY <1>3 DEF ViewCheck
  <2>4. PutProgress'  BY <1>3 DEF ViewCheck
  <2>5. CopyProgress'  BY <1>3 DEF ViewCheck
  <2>6. Whole'  BY <1>3 DEF ViewCheck
  <2> QED  BY <2>1, <2>2, <2>3, <2>4, <2>5, <2>6, Zenon DEF Safe
<1>4. CASE Copy(p)
  <2>1. Separate'  BY <1>4 DEF Copy
  <2>2. TmpPrivate'  BY <1>4 DEF Copy
  <2>3. CopyPrivate'  BY <1>4 DEF Copy
  <2>4. PutProgress'  
    <3>1. \A c \in Content : tmp[c] # None => data'[tmp[c]] = data[tmp[c]]
      BY <1>4 DEF Copy
    <3>2. /\ \A q \in Proc : q # p => proc'[q] = proc[q]
          /\ proc'[p].pc \in CopyPc
      BY <1>4 DEF Copy
    <3>3. tmp' = tmp /\ imode' = imode  BY <1>4 DEF Copy
    <3> HIDE DEF IInv, TypeInv, TypeOK, LocalOK, Separate, PutProgress, Serial, Storing, TmpPrivate,
             CopyPrivate, CopyProgress, Whole
    <3> QED  BY <3>1, <3>2, <3>3, OthersProgress
  <2>5. CopyProgress'  BY <1>4 DEF Copy
  <2>6. Whole'  BY <1>4 DEF Copy
  <2> QED  BY <2>1, <2>2, <2>3, <2>4, <2>5, <2>6, Zenon DEF Safe
<1>5. CASE CopyChmod(p)
  <2>1. Separate'  BY <1>5 DEF CopyChmod
  <2>2. TmpPrivate'  BY <1>5 DEF CopyChmod
  <2>3. CopyPrivate'  BY <1>5 DEF CopyChmod
  <2>4. PutProgress'  BY <1>5 DEF CopyChmod
  <2>5. CopyProgress'  BY <1>5 DEF CopyChmod
  <2>6. Whole'  BY <1>5 DEF CopyChmod
  <2> QED  BY <2>1, <2>2, <2>3, <2>4, <2>5, <2>6, Zenon DEF Safe
<1>6. CASE ViewRename(p)
  <2>1. Separate'  BY <1>6 DEF ViewRename
  <2>2. TmpPrivate'  BY <1>6 DEF ViewRename
  <2>3. CopyPrivate'  BY <1>6 DEF ViewRename
  <2>4. PutProgress'  
    <3>1. /\ \A q \in Proc : q # p => proc'[q] = proc[q]
          /\ proc'[p].pc = "link"
      BY <1>6 DEF ViewRename
    <3>2. tmp' = tmp /\ imode' = imode /\ data' = data  BY <1>6 DEF ViewRename
    <3> HIDE DEF IInv, TypeInv, TypeOK, LocalOK, Separate, PutProgress, Serial, Storing, TmpPrivate,
             CopyPrivate, CopyProgress, Whole
    <3> QED  BY <3>1, <3>2, OthersProgress
  <2>5. CopyProgress'  BY <1>6 DEF ViewRename
  <2>6. Whole'  BY <1>6 DEF ViewRename
  <2> QED  BY <2>1, <2>2, <2>3, <2>4, <2>5, <2>6, Zenon DEF Safe
<1>7. CASE DestCopied(p)
  <2>1. Separate'  
    <3>1. ASSUME NEW i \in Inode, Readable(i)'  PROVE Readable(i) \/ i = proc[p].file
      BY <1>7, <3>1 DEF DestCopied, PlaceAt, Return, Idle
    <3>2. ASSUME NEW i \in Inode, Written(i)'  PROVE Written(i) /\ i # proc[p].file
      BY <1>7, <3>2 DEF DestCopied, PlaceAt, Return, Idle
    <3> QED  BY <3>1, <3>2
  <2>2. TmpPrivate'  BY <1>7 DEF DestCopied, PlaceAt, Return, Idle
  <2>3. CopyPrivate'  BY <1>7 DEF DestCopied, PlaceAt, Return, Idle
  <2>4. PutProgress'  BY <1>7 DEF DestCopied, PlaceAt, Return, Idle
  <2>5. CopyProgress'  BY <1>7 DEF DestCopied, PlaceAt, Return, Idle
  <2>6. Whole'  BY <1>7 DEF DestCopied, PlaceAt, Return, Idle
  <2> QED  BY <2>1, <2>2, <2>3, <2>4, <2>5, <2>6, Zenon DEF Safe
<1>8. CASE Link(p)
  <2>1. Separate'  BY <1>8 DEF Link, PlaceAt, Return, Idle, LinkName
  <2>2. TmpPrivate'  BY <1>8 DEF Link, PlaceAt, Return, Idle, LinkName
  <2>3. CopyPrivate'  BY <1>8 DEF Link, PlaceAt, Return, Idle, LinkName
  <2>4. PutProgress'  BY <1>8 DEF Link, PlaceAt, Return, Idle, LinkName
  <2>5. CopyProgress'  BY <1>8 DEF Link, PlaceAt, Return, Idle, LinkName
  <2>6. Whole'  BY <1>8 DEF Link, PlaceAt, Return, Idle, LinkName
  <2> QED  BY <2>1, <2>2, <2>3, <2>4, <2>5, <2>6, Zenon DEF Safe
<1>9. CASE LinkFails(p)
  <2>1. Separate'  BY <1>9 DEF LinkFails
  <2>2. TmpPrivate'  BY <1>9 DEF LinkFails
  <2>3. CopyPrivate'  BY <1>9 DEF LinkFails
  <2>4. PutProgress'  BY <1>9 DEF LinkFails
  <2>5. CopyProgress'  BY <1>9 DEF LinkFails
  <2>6. Whole'  BY <1>9 DEF LinkFails
  <2> QED  BY <2>1, <2>2, <2>3, <2>4, <2>5, <2>6, Zenon DEF Safe
<1>10. CASE CopySourceGone(p)
  <2>1. Separate'  BY <1>10 DEF CopySourceGone, Return, Idle
  <2>2. TmpPrivate'  BY <1>10 DEF CopySourceGone, Return, Idle
  <2>3. CopyPrivate'  BY <1>10 DEF CopySourceGone, Return, Idle
  <2>4. PutProgress'  BY <1>10 DEF CopySourceGone, Return, Idle
  <2>5. CopyProgress'  BY <1>10 DEF CopySourceGone, Return, Idle
  <2>6. Whole'  BY <1>10 DEF CopySourceGone, Return, Idle
  <2> QED  BY <2>1, <2>2, <2>3, <2>4, <2>5, <2>6, Zenon DEF Safe
<1>11. CASE \E c \in Content, m \in Mode : MatCheck(p, c, m)
  <2>1. Separate'  BY <1>11 DEF MatCheck
  <2>2. TmpPrivate'  BY <1>11 DEF MatCheck
  <2>3. CopyPrivate'  BY <1>11 DEF MatCheck
  <2>4. PutProgress'  BY <1>11 DEF MatCheck
  <2>5. CopyProgress'  BY <1>11 DEF MatCheck
  <2>6. Whole'  BY <1>11 DEF MatCheck
  <2> QED  BY <2>1, <2>2, <2>3, <2>4, <2>5, <2>6, Zenon DEF Safe
<1> HIDE DEF Separate, TmpPrivate, CopyPrivate, PutProgress, CopyProgress, Whole
<1> QED
  BY <1>1, <1>2, <1>3, <1>4, <1>5, <1>6, <1>7, <1>8, <1>9, <1>10, <1>11, Zenon
  DEF MatStep, PlaceStep

\* A failed call, a kill or an eviction keeps the strengthened invariant.
LEMMA EnvSafe ==
  ASSUME IInv, TypeInv', Serial', Evict \/ \E p \in Proc : Fail(p)
  PROVE  Safe'
<1> USE DEF IInv, TypeInv, TypeOK, LocalOK, Local, Pc, PutPc, CopyPc, Chunk, Serial, Storing,
             Separate, Written, Readable, TmpPrivate, CopyPrivate,
             PutProgress, CopyProgress, Whole, PublishedComplete, ViewsComplete, PlacedFaithful
<1>1. CASE \E c \in Content : EvictEntry(c)
  <2>1. Separate'  BY <1>1 DEF EvictEntry
  <2>2. TmpPrivate'  BY <1>1 DEF EvictEntry
  <2>3. CopyPrivate'  BY <1>1 DEF EvictEntry
  <2>4. PutProgress'  BY <1>1 DEF EvictEntry
  <2>5. CopyProgress'  BY <1>1 DEF EvictEntry
  <2>6. Whole'  BY <1>1 DEF EvictEntry
  <2> QED  BY <2>1, <2>2, <2>3, <2>4, <2>5, <2>6, Zenon DEF Safe
<1>2. CASE \E c \in Content, m \in Mode : EvictView(c, m)
  <2>1. Separate'  BY <1>2 DEF EvictView
  <2>2. TmpPrivate'  BY <1>2 DEF EvictView
  <2>3. CopyPrivate'  BY <1>2 DEF EvictView
  <2>4. PutProgress'  BY <1>2 DEF EvictView
  <2>5. CopyProgress'  BY <1>2 DEF EvictView
  <2>6. Whole'  BY <1>2 DEF EvictView
  <2> QED  BY <2>1, <2>2, <2>3, <2>4, <2>5, <2>6, Zenon DEF Safe
<1>3. CASE \E p \in Proc : Fail(p)
  <2>1. Separate'  BY <1>3 DEF Fail, Return, Idle
  <2>2. TmpPrivate'  BY <1>3 DEF Fail, Return, Idle
  <2>3. CopyPrivate'  BY <1>3 DEF Fail, Return, Idle
  <2>4. PutProgress'  BY <1>3 DEF Fail, Return, Idle
  <2>5. CopyProgress'  BY <1>3 DEF Fail, Return, Idle
  <2>6. Whole'  BY <1>3 DEF Fail, Return, Idle
  <2> QED  BY <2>1, <2>2, <2>3, <2>4, <2>5, <2>6, Zenon DEF Safe
<1> HIDE DEF Separate, TmpPrivate, CopyPrivate, PutProgress, CopyProgress, Whole
<1> QED  BY <1>1, <1>2, <1>3, Zenon DEF Evict

\* Every step of a cache whose writers take turns keeps it.
LEMMA IInvNext == IInv /\ [Next /\ Serial']_vars => IInv'
<1> SUFFICES ASSUME IInv, [Next /\ Serial']_vars  PROVE IInv'
  OBVIOUS
<1>1. TypeInv'
  BY TypeNext DEF IInv
<1>2. CASE Next /\ Serial'
  <2>1. Safe'  BY <1>1, <1>2, PutSafe, MatSafe, EnvSafe DEF Next, Step
  <2> QED  BY <1>1, <1>2, <2>1 DEF Safe, IInv
<1>3. CASE UNCHANGED vars
  BY <1>1, <1>3 DEF vars, IInv, Serial, Storing, Separate, Written, Readable, TmpPrivate,
     CopyPrivate, PutProgress, CopyProgress, Whole, PublishedComplete, ViewsComplete,
     PlacedFaithful
<1> QED  BY <1>2, <1>3

\* IInv is an invariant of the cache whose writers take turns.
THEOREM SerialInvariant == SerialSpec => []IInv
  BY IInvInit, IInvNext, PTL DEF SerialSpec

\* What the cache shows under a digest is the whole content, through faults,
\* kills and evictions, as long as no two processes store it at once.
THEOREM EntriesComplete == SerialSpec => []PublishedComplete
<1>1. IInv => PublishedComplete  BY DEF IInv, Whole
<1> QED  BY <1>1, SerialInvariant, PTL

\* A file placed from the cache keeps its bytes and its mode, though it shares
\* the inode with the cache and with other root filesystems.
THEOREM PlacedFilesFaithful == SerialSpec => []PlacedFaithful
<1>1. IInv => PlacedFaithful  BY DEF IInv, Whole
<1> QED  BY <1>1, SerialInvariant, PTL

-----------------------------------------------------------------------------
(* Writers that race, but nobody fails.  Truncating an inode somebody else     *)
(* has published makes the truncating process the one that will fill it again. *)

\* Every chunk inode i lacks is ahead of a process that is writing it.
Covered(i) ==
  \A k \in Chunk \ data[i] :
    \E p \in Proc : proc[p].pc = "write" /\ proc[p].file = i /\ proc[p].off < k

CalmInv ==
  /\ TypeInv
  /\ \A c \in Content : tmp[c] # None => Covered(tmp[c])
  /\ \A c \in Content : base[c] # None => Covered(base[c])
  /\ \A p \in Proc : proc[p].pc \in {"write", "chmod", "rename"} =>
       tmp[proc[p].c] # None \/ base[proc[p].c] # None

\* The invariant of the calm cache holds initially.
LEMMA CalmInit == Init => CalmInv
  BY TypeInit DEF Init, CalmInv, Idle

\* A step that gives up no inode and takes no chunk away uncovers nothing,
\* unless it is a write.
LEMMA StillCovered ==
  ASSUME TypeInv, NEW p \in Proc, NEW i \in Inode, Covered(i),
         data[i] \subseteq data'[i], proc[p].pc # "write",
         \A q \in Proc : q # p => proc'[q] = proc[q]
  PROVE  Covered(i)'
<1> SUFFICES ASSUME NEW k \in Chunk, k \notin data'[i]
             PROVE  \E q \in Proc : /\ proc'[q].pc = "write" /\ proc'[q].file = i
                                    /\ proc'[q].off < k
  BY DEF Covered, Chunk
<1>1. PICK q \in Proc : proc[q].pc = "write" /\ proc[q].file = i /\ proc[q].off < k
  BY DEF Covered
<1> QED  BY <1>1

\* Writing a chunk uncovers nothing: the writer leaves it behind.
LEMMA WriteCovered ==
  ASSUME TypeInv, NEW p \in Proc, NEW i \in Inode, Covered(i), PutWrite(p)
  PROVE  Covered(i)'
<1> USE DEF TypeInv, TypeOK, LocalOK, Local, Pc, PutPc, CopyPc, Chunk
<1> SUFFICES ASSUME NEW k \in Chunk, k \notin data'[i]
             PROVE  \E q \in Proc : /\ proc'[q].pc = "write" /\ proc'[q].file = i
                                    /\ proc'[q].off < k
  BY DEF Covered
<1>1. k \notin data[i]  BY DEF PutWrite
<1>2. PICK q \in Proc : proc[q].pc = "write" /\ proc[q].file = i /\ proc[q].off < k
  BY <1>1 DEF Covered
<1>3. CASE q # p  BY <1>2, <1>3 DEF PutWrite
<1>4. CASE q = p
  <2>1. proc[p].off + 1 \in data'[i]  BY <1>2, <1>4 DEF PutWrite
  <2>2. proc[p].off + 1 < k  BY <1>2, <1>4, <2>1
  <2> QED  BY <1>2, <1>4, <2>2 DEF PutWrite
<1> QED  BY <1>3, <1>4, Zenon

\* A step of put, among any number of writers, keeps it.
LEMMA CalmPut ==
  ASSUME CalmInv, TypeInv', NEW p \in Proc, PutStep(p)
  PROVE  CalmInv'
<1> USE DEF CalmInv, TypeInv, TypeOK, LocalOK, Local, PutPc, CopyPc
<1>1. CASE PutOpenExisting(p)
  <2>1. Covered(tmp[proc[p].c])'
    BY <1>1 DEF PutOpenExisting, Covered, Chunk
  <2> QED  BY <1>1, <2>1, StillCovered DEF PutOpenExisting
<1>2. CASE PutOpenNew(p)  BY <1>2, StillCovered DEF PutOpenNew, Free, Covered, Chunk
<1>3. CASE PutWrite(p)
  <2>1. \A i \in Inode : Covered(i) => Covered(i)'  BY <1>3, WriteCovered
  <2>2. base' = base /\ tmp' = tmp  BY <1>3 DEF PutWrite
  <2>3. ASSUME NEW c \in Content, NEW i \in Inode, Covered(i)'
        PROVE  /\ tmp[c] = i => Covered(tmp[c])'
               /\ base[c] = i => Covered(base[c])'
    BY <2>2, <2>3 DEF Covered
  <2>4. \A q \in Proc : proc'[q].pc \in {"write", "chmod", "rename"} =>
          tmp'[proc'[q].c] # None \/ base'[proc'[q].c] # None
    BY <1>3, <2>2 DEF PutWrite
  <2> QED  BY <2>1, <2>2, <2>3, <2>4
<1>4. CASE PutChmod(p)  BY <1>4, StillCovered DEF PutChmod
<1>5. CASE PutRename(p)  BY <1>5, StillCovered DEF PutRename, Return, Idle
<1>6. CASE PutTmpGone(p)  BY <1>6, StillCovered DEF PutTmpGone, Return, Idle
<1>7. CASE \E c \in Content : PutCheck(p, c)  BY <1>7, StillCovered DEF PutCheck
<1> QED  BY <1>1, <1>2, <1>3, <1>4, <1>5, <1>6, <1>7, Zenon DEF PutStep

\* A step of materialize keeps it.
LEMMA CalmMat ==
  ASSUME CalmInv, TypeInv', NEW p \in Proc, MatStep(p)
  PROVE  CalmInv'
<1> USE DEF CalmInv, TypeInv, TypeOK, LocalOK, Local, PutPc, CopyPc
<1>1. /\ base' = base /\ tmp' = tmp /\ proc[p].pc # "write"
      /\ \A q \in Proc : q # p => proc'[q] = proc[q]
      /\ proc'[p].pc \notin {"write", "chmod", "rename"}
  <2>1. CASE ViewCheck(p)  BY <2>1 DEF ViewCheck
  <2>2. CASE \E src \in Inode \cup {None}, for \in {"view", "dest"} :
              StartCopy(p, src, for) /\ proc[p].pc # "write"
    BY <2>2 DEF StartCopy
  <2>3. CASE Copy(p)  BY <2>3 DEF Copy
  <2>4. CASE CopyChmod(p)  BY <2>4 DEF CopyChmod
  <2>5. CASE ViewRename(p)  BY <2>5 DEF ViewRename
  <2>6. CASE DestCopied(p) \/ Link(p) \/ LinkFails(p)
    BY <2>6 DEF DestCopied, Link, LinkFails, PlaceAt, Return, Idle
  <2>7. CASE CopySourceGone(p)  BY <2>7 DEF CopySourceGone, Return, Idle
  <2>8. CASE \E c \in Content, m \in Mode : MatCheck(p, c, m)
    BY <2>8 DEF MatCheck
  <2>9. CASE ViewCopyOpen(p)
    BY <2>2, <2>9 DEF ViewCopyOpen
  <2>10. CASE DestCopyOpen(p)
    BY <2>2, <2>10 DEF DestCopyOpen, LinkName
  <2> QED
    BY <2>1, <2>3, <2>4, <2>5, <2>6, <2>7, <2>8, <2>9, <2>10, Zenon DEF MatStep, PlaceStep
<1>2. ASSUME NEW i \in Inode, ~Free(i)  PROVE data[i] \subseteq data'[i]
  <2>1. CASE ViewCopyOpen(p) \/ DestCopyOpen(p)
    BY <1>2, <2>1 DEF ViewCopyOpen, DestCopyOpen, StartCopy
  <2>2. CASE Copy(p)  BY <2>2 DEF Copy
  <2>3. CASE ~(ViewCopyOpen(p) \/ DestCopyOpen(p) \/ Copy(p))
    BY <2>3 DEF MatStep, PlaceStep, ViewCheck, CopyChmod, ViewRename, DestCopied, Link, LinkFails,
                CopySourceGone, MatCheck
  <2> QED  BY <2>1, <2>2, <2>3, Zenon
<1>3. \A c \in Content : /\ tmp[c] # None => ~Free(tmp[c]) /\ tmp[c] \in Inode
                         /\ base[c] # None => ~Free(base[c]) /\ base[c] \in Inode
  BY DEF Free
<1>4. \A i \in Inode : Covered(i) /\ ~Free(i) => Covered(i)'
  BY <1>1, <1>2, StillCovered
<1> QED  BY <1>1, <1>3, <1>4

\* Every step of the calm cache keeps it.
LEMMA CalmNext == CalmInv /\ [CalmStep]_vars => CalmInv'
<1> SUFFICES ASSUME CalmInv, [Step]_vars  PROVE CalmInv'
  BY DEF CalmStep, Step, MatStep
<1>1. TypeInv'  BY TypeNext DEF CalmInv, Next
<1>2. CASE Step  BY <1>1, <1>2, CalmPut, CalmMat DEF Step
<1>3. CASE UNCHANGED vars  BY <1>1, <1>3 DEF vars, CalmInv, Covered
<1> QED  BY <1>2, <1>3

\* CalmInv is an invariant of a cache with any interleaving of writers.
THEOREM CalmInvariant == CalmSpec => []CalmInv
  BY CalmInit, CalmNext, PTL DEF CalmSpec

\* However the writers of a content interleave, what is missing from a published
\* entry has a writer that is about to supply it: a race truncates an entry for
\* a while, only a writer that dies leaves it truncated.
THEOREM RacesHeal == CalmSpec => []StillBeingWritten
<1>1. CalmInv => StillBeingWritten
  BY DEF CalmInv, TypeInv, TypeOK, StillBeingWritten, Covered
<1> QED  BY <1>1, CalmInvariant, PTL

\* A put that fails because another process took its temporary fails although
\* the content is in the cache.
THEOREM LosersFindEntry == CalmSpec => []LoserFindsEntry
<1>1. CalmInv => LoserFindsEntry  BY DEF CalmInv, LoserFindsEntry
<1> QED  BY <1>1, CalmInvariant, PTL

-----------------------------------------------------------------------------
(* The cache implements ContentStore while the writers take turns: in every    *)
(* state IInv allows, an entry that is there is whole and a placed file is what *)
(* it was asked to be, so the mapped variables only depend on the names.        *)

\* Whatever is in the cache or being placed was stored by some put.
KnownInv ==
  /\ \A c \in Content : base[c] # None => c \in known
  /\ \A p \in Proc : proc[p].pc \notin PutPc \cup {"idle"} => proc[p].c \in known

\* What is cached, or being placed, was stored by some put before.
LEMMA KnownNext ==
  ASSUME TypeInv, KnownInv, [Next]_vars
  PROVE  KnownInv'
<1> USE DEF TypeInv, TypeOK, LocalOK, Local, PutPc, CopyPc, Return, Idle
<1>1. ASSUME NEW p \in Proc, base' = base, known' = known,
             \A q \in Proc : q # p => proc'[q] = proc[q],
             \/ proc'[p].pc \in PutPc \cup {"idle"}
             \/ proc'[p].c \in known
      PROVE  KnownInv'
  BY <1>1 DEF KnownInv
<1>2. ASSUME NEW p \in Proc, PutStep(p)  PROVE KnownInv'
  <2>1. CASE PutRename(p)  BY <2>1 DEF PutRename, KnownInv
  <2>2. CASE PutOpenExisting(p)  BY <1>1, <2>2 DEF PutOpenExisting
  <2>3. CASE PutOpenNew(p)  BY <1>1, <2>3 DEF PutOpenNew
  <2>4. CASE PutWrite(p)  BY <1>1, <2>4 DEF PutWrite
  <2>5. CASE PutChmod(p)  BY <1>1, <2>5 DEF PutChmod
  <2>6. CASE PutTmpGone(p)  BY <1>1, <2>6 DEF PutTmpGone
  <2>7. CASE \E c \in Content : PutCheck(p, c)  BY <1>1, <2>7 DEF PutCheck
  <2> QED  BY <1>2, <2>1, <2>2, <2>3, <2>4, <2>5, <2>6, <2>7, Zenon DEF PutStep
<1>3. ASSUME NEW p \in Proc, MatStep(p)  PROVE KnownInv'
  <2>1. ASSUME NEW src, NEW for, StartCopy(p, src, for), proc[p].c \in known
        PROVE  KnownInv'
    BY <1>1, <2>1 DEF StartCopy
  <2>2. CASE ViewCopyOpen(p) \/ DestCopyOpen(p)
    BY <2>1, <2>2 DEF ViewCopyOpen, DestCopyOpen, KnownInv
  <2>3. CASE ViewCheck(p)  BY <1>1, <2>3 DEF ViewCheck, KnownInv
  <2>4. CASE Copy(p)  BY <1>1, <2>4 DEF Copy, KnownInv
  <2>5. CASE CopyChmod(p)  BY <1>1, <2>5 DEF CopyChmod, KnownInv
  <2>6. CASE ViewRename(p)  BY <1>1, <2>6 DEF ViewRename, KnownInv
  <2>7. CASE LinkFails(p)  BY <1>1, <2>7 DEF LinkFails, KnownInv
  <2>8. CASE DestCopied(p) \/ Link(p) \/ CopySourceGone(p)
    BY <1>1, <2>8 DEF DestCopied, Link, CopySourceGone, PlaceAt
  <2>9. CASE \E c \in Content, m \in Mode : MatCheck(p, c, m)
    BY <1>1, <2>9 DEF MatCheck, KnownInv
  <2> QED  BY <1>3, <2>2, <2>3, <2>4, <2>5, <2>6, <2>7, <2>8, <2>9, Zenon DEF MatStep, PlaceStep
<1>4. CASE Evict  BY <1>4 DEF Evict, EvictEntry, EvictView, KnownInv
<1>5. CASE \E p \in Proc : Fail(p)  BY <1>1, <1>5 DEF Fail
<1>6. CASE UNCHANGED vars  BY <1>6 DEF vars, KnownInv
<1> QED  BY <1>2, <1>3, <1>4, <1>5, <1>6, Zenon DEF Next, Step

\* An empty cache is an empty store.
LEMMA MapInit == Init => Abstract!Init
  BY DEF Init, Abstract!Init, Seen

\* Every system call is one operation of the store, or a stutter.
LEMMA MapStep ==
  ASSUME IInv, IInv', KnownInv, [Next]_vars
  PROVE  [Abstract!Next]_Abstract!vars
<1> DEFINE S == {c \in Content : base[c] # None}
           F == [p \in Proc |-> IF placed[p] = None THEN None
                                 ELSE <<placed[p].c, placed[p].m>>]
<1>1. /\ {c \in Content : base[c] # None /\ data[base[c]] = Chunk} = S
      /\ {c \in Content : base'[c] # None /\ data'[base'[c]] = Chunk} = S'
      /\ [p \in Proc |-> Seen(p)] = F
      /\ [p \in Proc |-> Seen(p)]' = F'
  BY DEF IInv, Whole, PublishedComplete, PlacedFaithful, Seen
<1>2. CASE UNCHANGED <<base, placed, known>>
  <2>1. UNCHANGED Abstract!vars  BY <1>1, <1>2 DEF Abstract!vars
  <2> QED  BY <2>1
<1>3. ASSUME NEW p \in Proc, PutRename(p)  PROVE Abstract!Next
  <2>1. PICK c \in Content : c = proc[p].c
    BY <1>3 DEF PutRename, IInv, TypeInv, LocalOK
  <2>2. S' = S \cup {c} /\ F' = F
    BY <1>3, <2>1 DEF PutRename, IInv, TypeInv, TypeOK
  <2>3. Abstract!Put(c)
    BY <1>1, <1>3, <2>1, <2>2 DEF Abstract!Put, PutRename
  <2> QED  BY <2>3 DEF Abstract!Next
<1>4. ASSUME NEW p \in Proc, NEW i \in Inode, PlaceAt(p, i), UNCHANGED <<base, known>>,
             proc[p].pc \in {"link", "publish"}
      PROVE  Abstract!Next
  <2>1. PICK c \in Content, m \in Mode : c = proc[p].c /\ m = proc[p].m
    BY <1>4 DEF IInv, TypeInv, LocalOK, PutPc
  <2>2. c \in known /\ known' = known
    BY <1>4, <2>1 DEF KnownInv, PutPc
  <2>3. placed' = [placed EXCEPT ![p] = [c |-> c, m |-> m, ino |-> i]]
    BY <1>4, <2>1 DEF PlaceAt
  <2>4. F' = [F EXCEPT ![p] = <<c, m>>] /\ S' = S
    <3>1. placed'[p] = [c |-> c, m |-> m, ino |-> i] /\ placed'[p] # None
      BY <2>3, NonePlaced DEF IInv, TypeInv, TypeOK
    <3>2. \A q \in Proc : q # p => placed'[q] = placed[q]
      BY <2>3 DEF IInv, TypeInv, TypeOK
    <3>3. S' = S  BY <1>4
    <3>4. ASSUME NEW q \in Proc
          PROVE  (IF placed'[q] = None THEN None ELSE <<placed'[q].c, placed'[q].m>>)
                   = IF q = p THEN <<c, m>>
                     ELSE IF placed[q] = None THEN None ELSE <<placed[q].c, placed[q].m>>
      <4>1. CASE q = p  BY <3>1, <4>1
      <4>2. CASE q # p  BY <3>2, <4>2
      <4> QED  BY <4>1, <4>2, Zenon
    <3> QED  BY <3>3, <3>4
  <2>5. Abstract!Place(p, c, m)
    BY <1>1, <2>2, <2>4 DEF Abstract!Place
  <2> QED  BY <2>5 DEF Abstract!Next
<1>5. ASSUME NEW p \in Proc, placed' = [placed EXCEPT ![p] = None], UNCHANGED <<base, known>>
      PROVE  Abstract!Next
  <2>1. F' = [F EXCEPT ![p] = None] /\ S' = S
    BY <1>5 DEF IInv, TypeInv, TypeOK
  <2>2. Abstract!Unplace(p)
    BY <1>1, <1>5, <2>1 DEF Abstract!Unplace
  <2> QED  BY <2>2 DEF Abstract!Next
<1>6. ASSUME NEW c \in Content, EvictEntry(c)  PROVE Abstract!Next
  <2>1. S' = S \ {c} /\ F' = F
    BY <1>6 DEF EvictEntry, IInv, TypeInv, TypeOK
  <2>2. Abstract!Evict(c)
    BY <1>1, <1>6, <2>1 DEF Abstract!Evict, EvictEntry
  <2> QED  BY <2>2 DEF Abstract!Next
<1>7. CASE \E p \in Proc : PutStep(p)
  BY <1>2, <1>3, <1>7 DEF PutStep, PutOpenExisting, PutOpenNew, PutWrite, PutChmod, PutTmpGone,
                          PutCheck
<1>8. ASSUME NEW p \in Proc, MatStep(p)  PROVE [Abstract!Next]_Abstract!vars
  <2>1. CASE ViewCheck(p) \/ Copy(p) \/ CopyChmod(p) \/ ViewRename(p) \/ CopySourceGone(p)
    BY <1>2, <2>1 DEF ViewCheck, Copy, CopyChmod, ViewRename, CopySourceGone
  <2>2. CASE ViewCopyOpen(p) \/ DestCopyOpen(p)
    BY <1>2, <2>2 DEF ViewCopyOpen, DestCopyOpen, StartCopy
  <2>3. CASE DestCopied(p)
    <3>1. proc[p].file \in Inode
      BY <2>3 DEF DestCopied, IInv, TypeInv, TypeOK, LocalOK, Local, CopyPc
    <3> QED  BY <1>4, <2>3, <3>1 DEF DestCopied
  <2>4. CASE Link(p)
    <3>1. LinkName(p) \in Inode
      BY <2>4 DEF Link, LinkName, IInv, TypeInv, TypeOK, LocalOK, PutPc
    <3> QED  BY <1>4, <2>4, <3>1 DEF Link
  <2>5. CASE LinkFails(p)  BY <1>5, <2>5 DEF LinkFails
  <2>6. CASE \E c \in Content, m \in Mode : MatCheck(p, c, m)
    BY <1>2, <2>6 DEF MatCheck
  <2> QED  BY <1>8, <2>1, <2>2, <2>3, <2>4, <2>5, <2>6, Zenon DEF MatStep, PlaceStep
<1>9. CASE Evict
  BY <1>2, <1>6, <1>9 DEF Evict, EvictView
<1>10. CASE \E p \in Proc : Fail(p)  BY <1>5, <1>10 DEF Fail
<1>11. CASE UNCHANGED vars  BY <1>2, <1>11 DEF vars
<1> QED  BY <1>7, <1>8, <1>9, <1>10, <1>11, Zenon DEF Next, Step

\* Put and place are atomic to everybody who uses the cache, and an entry is
\* there whole or not at all.
THEOREM Refinement == SerialSpec => ImplementsContentStore
<1>1. Init => KnownInv  BY DEF Init, KnownInv, Idle
<1>2. IInv /\ IInv' /\ KnownInv /\ [Next /\ Serial']_vars => [Abstract!Next]_Abstract!vars
  BY MapStep DEF vars
<1>3. IInv /\ KnownInv /\ [Next /\ Serial']_vars => KnownInv'
  BY KnownNext DEF IInv
<1> QED
  BY <1>1, <1>2, <1>3, MapInit, SerialInvariant, PTL
  DEF SerialSpec, ImplementsContentStore, Abstract!Spec
=============================================================================
