---------------------------- MODULE ContentStore ----------------------------
(***************************************************************************)
(* What src/filecache.rs promises its callers: a set of contents, each      *)
(* there or not there as a whole, and files placed from it that carry the   *)
(* bytes of their digest and the mode that was asked for.  There are no     *)
(* inodes, temporaries or half-written entries at this level.               *)
(***************************************************************************)
CONSTANTS
  Proc,      \* mepul processes that share one cache
  Content,   \* file contents; a content stands for its own digest
  Mode,      \* permission bits a profile entry can ask for
  None       \* "no value"

VARIABLES
  stored,    \* contents the cache holds now
  known,     \* contents some process has stored, evicted ones included
  seen       \* per process: what a reader of its last placed file finds

vars == <<stored, known, seen>>

Init ==
  /\ stored = {}
  /\ known = {}
  /\ seen = [p \in Proc |-> None]

\* `put`: all of the content, or nothing.
Put(c) ==
  /\ stored' = stored \cup {c}
  /\ known' = known \cup {c}
  /\ UNCHANGED seen

\* `materialize`: the placed file has these bytes and this mode.  The content
\* may have been evicted since: a mode view outlives its entry.
Place(p, c, m) ==
  /\ c \in known
  /\ seen' = [seen EXCEPT ![p] = <<c, m>>]
  /\ UNCHANGED <<stored, known>>

\* The destination is unlinked: a new file is about to take its place, or the
\* process is gone.
Unplace(p) ==
  /\ seen' = [seen EXCEPT ![p] = None]
  /\ UNCHANGED <<stored, known>>

\* Somebody outside mepul clears an entry.
Evict(c) ==
  /\ stored' = stored \ {c}
  /\ UNCHANGED <<known, seen>>

Next ==
  \/ \E c \in Content : Put(c) \/ Evict(c)
  \/ \E p \in Proc : Unplace(p)
  \/ \E p \in Proc, c \in Content, m \in Mode : Place(p, c, m)

Spec == Init /\ [][Next]_vars
=============================================================================
