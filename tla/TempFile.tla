------------------------------ MODULE TempFile ------------------------------
(***************************************************************************)
(* How mepul replaces a file below its cache directory: write a temporary    *)
(* next to it, rename the temporary into place.  Profile::save in            *)
(* src/profile.rs and save_to_cache in src/store.rs make the same calls, and  *)
(* the temporary of a file has one name for all of them.                     *)
(*                                                                          *)
(* Each writer opens its temporary once, so an inode is named by the writer   *)
(* that created it.  A file is a sequence of chunks.                         *)
(***************************************************************************)
EXTENDS Integers, Sequences

CONSTANTS
  Writer,   \* one call of write and rename each
  File,     \* names that are replaced this way
  None      \* "no value", and the bytes of a gap

ASSUME TempFileAssumption == None \notin Writer

VARIABLES
  published,  \* File -> the inode behind its name, or None
  tmp,        \* File -> the inode behind its temporary's name, or None
  bytes,      \* Writer -> the chunks of the inode it created
  fd          \* Writer -> the inode it has open, or None

files == <<published, tmp, bytes, fd>>

InitFiles ==
  /\ published = [f \in File |-> None]
  /\ tmp = [f \in File |-> None]
  /\ bytes = [w \in Writer |-> <<>>]
  /\ fd = [w \in Writer |-> None]

\* fs::write opens with O_CREAT | O_TRUNC: a temporary that is there is taken over and emptied.
Open(w, f) ==
  LET i == IF tmp[f] = None THEN w ELSE tmp[f] IN
  /\ tmp' = [tmp EXCEPT ![f] = i]
  /\ fd' = [fd EXCEPT ![w] = i]
  /\ bytes' = [bytes EXCEPT ![i] = <<>>]
  /\ UNCHANGED published

\* A sequence with chunk number k set to v: what lies between it and the end is a gap.
SetChunk(s, k, v) ==
  [i \in 1 .. (IF k > Len(s) THEN k ELSE Len(s)) |->
     IF i = k THEN v ELSE IF i <= Len(s) THEN s[i] ELSE None]

\* One write: at this writer's own offset, wherever the others are.
Write(w, k, v) ==
  /\ bytes' = [bytes EXCEPT ![fd[w]] = SetChunk(@, k, v)]
  /\ UNCHANGED <<published, tmp, fd>>

\* rename goes by name: it publishes what is behind the temporary's name now.
Rename(f) ==
  /\ tmp[f] # None
  /\ published' = [published EXCEPT ![f] = tmp[f]]
  /\ tmp' = [tmp EXCEPT ![f] = None]
  /\ UNCHANGED <<bytes, fd>>
=============================================================================
