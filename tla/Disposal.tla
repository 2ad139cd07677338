------------------------------ MODULE Disposal ------------------------------
(***************************************************************************)
(* Where a root lives and how it goes away: Workspace in src/run.rs and      *)
(* Disposable in src/rootfs.rs.                                             *)
(*                                                                          *)
(* The workspace of a run is a directory named after the pipeline and the   *)
(* pid.  One execution after another can use a name: the cold retry of a     *)
(* warm run in the same process, and any later process that is given the    *)
(* pid again.  What goes into a root is Rootfs's.                            *)
(***************************************************************************)
EXTENDS Integers

CONSTANTS
  MaxExecutions,  \* bound: calls of execute, numbered as they begin
  Dir,            \* names of workspaces
  Faults,         \* SUBSET {"prepare", "mount", "umount", "remove", "kill"}
  None

ASSUME DisposalAssumption == MaxExecutions \in Nat /\ None \notin Dir

Execution == 1 .. MaxExecutions

\* The tmpfs on rw, the overlay on merged, and proc on merged/proc, inside the overlay.
Kind == {"tmpfs", "overlay", "proc"}

VARIABLES
  pc,       \* Execution -> what it does next
  dir,      \* Execution -> its workspace, or None
  claims,   \* Execution -> the flags of its Disposable: what it takes to be mounted
  there,    \* workspaces that exist
  lower,    \* Dir -> executions that have put files into its lower layer
  mounted,  \* Dir -> mounts below it, as kind and execution
  spoilt    \* history: executions the environment kept from cleaning up

vars == <<pc, dir, claims, there, lower, mounted, spoilt>>

Pc == {"new", "prepare", "tmpfs", "overlay", "proc", "dev", "job",
       "unproc", "unoverlay", "untmpfs", "remove", "over"}
Live(e) == pc[e] \notin {"new", "over"}

Typed ==
  /\ pc \in [Execution -> Pc]
  /\ dir \in [Execution -> Dir \cup {None}]
  /\ \A e \in Execution : dir[e] = None <=> pc[e] = "new"
  /\ claims \in [Execution -> SUBSET Kind]
  /\ there \subseteq Dir
  /\ lower \in [Dir -> SUBSET Execution]
  /\ mounted \in [Dir -> SUBSET (Kind \X Execution)]
  /\ spoilt \subseteq Execution

\* An execution comes as far as its job only if it will undo all three mounts.
TypeOK == Typed /\ \A e \in Execution : pc[e] \in {"dev", "job"} => claims[e] = Kind

Init ==
  /\ pc = [e \in Execution |-> "new"]
  /\ dir = [e \in Execution |-> None]
  /\ claims = [e \in Execution |-> {}]
  /\ there = {}
  /\ lower = [d \in Dir |-> {}]
  /\ mounted = [d \in Dir |-> {}]
  /\ spoilt = {}

Goto(e, l) == pc' = [pc EXCEPT ![e] = l]

-----------------------------------------------------------------------------
(* The kernel's side of mount and umount: both go by path, and a mount covers *)
(* one that is there.                                                        *)

\* What the path of a mount of kind k leads to: the latest one, for proc the one inside
\* the latest overlay.
At(d, k) ==
  LET on == IF k = "proc" THEN "overlay" ELSE k
      all == {f \in Execution : <<on, f>> \in mounted[d]}
  IN {f \in all : <<k, f>> \in mounted[d] /\ \A g \in all : g <= f}

MountAt(d, k, e) == mounted' = [mounted EXCEPT ![d] = @ \cup {<<k, e>>}]

\* With MNT_DETACH an overlay takes the proc inside it along.
UmountAt(d, k) ==
  mounted' = [mounted EXCEPT ![d] =
                @ \ ((IF k = "overlay" THEN {"overlay", "proc"} ELSE {k}) \X At(d, k))]

-----------------------------------------------------------------------------
(* execute, up to the job *)

\* Workspace::create: create_dir_all is content with a directory that is there.  A pid
\* is one live process's, and a process has one execution at a time.
Create(e, d) ==
  /\ pc[e] = "new"
  /\ \A f \in Execution : (f < e => pc[f] # "new") /\ (dir[f] = d => ~Live(f))
  /\ Goto(e, "prepare")
  /\ dir' = [dir EXCEPT ![e] = d]
  /\ there' = there \cup {d}
  /\ UNCHANGED <<claims, lower, mounted, spoilt>>

\* extract_layers or build_from_profile fills the lower layer ...
Fill(e) ==
  /\ pc[e] = "prepare"
  /\ Goto(e, "tmpfs")
  /\ lower' = [lower EXCEPT ![dir[e]] = @ \cup {e}]
  /\ UNCHANGED <<dir, claims, there, mounted, spoilt>>

\* ... or fails, having written some of it, or the directories to mount on cannot be
\* made.  There is no Disposable yet, and a Workspace does not remove itself.
PrepareFails(e) ==
  /\ "prepare" \in Faults
  /\ pc[e] = "prepare"
  /\ Goto(e, "over")
  /\ \E files \in {{}, {e}} : lower' = [lower EXCEPT ![dir[e]] = @ \cup files]
  /\ spoilt' = spoilt \cup {e}
  /\ UNCHANGED <<dir, claims, there, mounted>>

After == [tmpfs |-> "overlay", overlay |-> "proc", proc |-> "dev"]

\* Mutant: the flag of the overlay is forgotten.
MountUnclaimed(e, k) ==
  /\ pc[e] = k
  /\ Goto(e, After[k])
  /\ MountAt(dir[e], k, e)
  /\ claims' = IF k = "overlay" THEN claims ELSE [claims EXCEPT ![e] = @ \cup {k}]
  /\ UNCHANGED <<dir, there, lower, spoilt>>

\* Disposable::mount, one mount: what it needs, the call, the flag.
Mount(e, k) ==
  /\ pc[e] = k
  /\ Goto(e, After[k])
  /\ MountAt(dir[e], k, e)
  /\ claims' = [claims EXCEPT ![e] = @ \cup {k}]
  /\ UNCHANGED <<dir, there, lower, spoilt>>

\* Mutant: the flag is set before the call.
MountFailsClaimed(e, k) ==
  /\ "mount" \in Faults
  /\ pc[e] = k
  /\ Goto(e, "unproc")
  /\ claims' = [claims EXCEPT ![e] = @ \cup {k}]
  /\ UNCHANGED <<dir, there, lower, mounted, spoilt>>

\* It fails: the half-built Disposable is dropped on the way out.
MountFails(e, k) ==
  /\ "mount" \in Faults
  /\ pc[e] = k
  /\ Goto(e, "unproc")
  /\ UNCHANGED <<dir, claims, there, lower, mounted, spoilt>>

PopulateDev(e) ==
  /\ pc[e] = "dev"
  /\ \/ Goto(e, "job")
     \/ "mount" \in Faults /\ Goto(e, "unproc")
  /\ UNCHANGED <<dir, claims, there, lower, mounted, spoilt>>

\* The job runs and is recorded, or something on the way fails: the Disposable is
\* dropped either way.
Job(e) ==
  /\ pc[e] = "job"
  /\ Goto(e, "unproc")
  /\ UNCHANGED <<dir, claims, there, lower, mounted, spoilt>>

-----------------------------------------------------------------------------
(* Disposable::drop *)

\* A flag that is not set.
Skip(e, at, k, next) ==
  /\ pc[e] = at /\ k \notin claims[e]
  /\ Goto(e, next)
  /\ UNCHANGED <<dir, claims, there, lower, mounted, spoilt>>

Umount(e, at, k, next) ==
  /\ pc[e] = at /\ k \in claims[e]
  /\ At(dir[e], k) # {}
  /\ Goto(e, next)
  /\ UmountAt(dir[e], k)
  /\ UNCHANGED <<dir, claims, there, lower, spoilt>>

UmountFailing(e, at, k) ==
  /\ pc[e] = at /\ k \in claims[e]
  /\ "umount" \in Faults \/ At(dir[e], k) = {}
  /\ UNCHANGED <<dir, claims, there, lower, mounted>>

\* Mutant: a proc that stays ends the clean-up.
ProcStaysEnd(e) ==
  /\ UmountFailing(e, "unproc", "proc")
  /\ Goto(e, "over")
  /\ UNCHANGED spoilt

\* A proc that cannot be unmounted is reported and left to the overlay ...
ProcStays(e) ==
  /\ UmountFailing(e, "unproc", "proc")
  /\ Goto(e, "unoverlay")
  /\ UNCHANGED spoilt

\* ... any other mount that cannot be ends the clean-up.
GiveUp(e, at, k) ==
  /\ UmountFailing(e, at, k)
  /\ Goto(e, "over")
  /\ spoilt' = spoilt \cup {e}

UmountProc(e) ==
  \/ Skip(e, "unproc", "proc", "unoverlay")
  \/ Umount(e, "unproc", "proc", "unoverlay")
  \/ ProcStays(e)

UmountOverlay(e) ==
  \/ Skip(e, "unoverlay", "overlay", "untmpfs")
  \/ Umount(e, "unoverlay", "overlay", "untmpfs")
  \/ GiveUp(e, "unoverlay", "overlay")

UmountTmpfs(e) ==
  \/ Skip(e, "untmpfs", "tmpfs", "remove")
  \/ Umount(e, "untmpfs", "tmpfs", "remove")
  \/ GiveUp(e, "untmpfs", "tmpfs")

Remove(e) ==
  /\ pc[e] = "remove"
  /\ mounted[dir[e]] = {}
  /\ Goto(e, "over")
  /\ there' = there \ {dir[e]}
  /\ lower' = [lower EXCEPT ![dir[e]] = {}]
  /\ UNCHANGED <<dir, claims, mounted, spoilt>>

\* remove_dir_all gets past no mount; what it has removed by then, nobody knows.
RemoveFails(e) ==
  /\ pc[e] = "remove"
  /\ Goto(e, "over")
  /\ \/ /\ mounted[dir[e]] # {}
        /\ UNCHANGED spoilt
     \/ /\ "remove" \in Faults
        /\ spoilt' = spoilt \cup {e}
  /\ \E files \in {{}, lower[dir[e]]} : lower' = [lower EXCEPT ![dir[e]] = files]
  /\ UNCHANGED <<dir, claims, there, mounted>>

-----------------------------------------------------------------------------
(* The process dies; its mounts do not. *)

Kill(e) ==
  /\ "kill" \in Faults
  /\ Live(e)
  /\ Goto(e, "over")
  /\ spoilt' = spoilt \cup {e}
  /\ UNCHANGED <<dir, claims, there, lower, mounted>>

Step(e) ==
  \/ \E d \in Dir : Create(e, d)
  \/ Fill(e) \/ PrepareFails(e)
  \/ \E k \in Kind : Mount(e, k) \/ MountFails(e, k)
  \/ PopulateDev(e) \/ Job(e)
  \/ UmountProc(e) \/ UmountOverlay(e) \/ UmountTmpfs(e)
  \/ Remove(e) \/ RemoveFails(e)
  \/ Kill(e)

Rest == (\A e \in Execution : pc[e] = "over") /\ UNCHANGED vars

Next == Rest \/ \E e \in Execution : Step(e)

Spec == Init /\ [][Next]_vars

-----------------------------------------------------------------------------
(* Properties *)

Spoilers(d) == {e \in spoilt : dir[e] = d}

\* A job runs on the files of its own execution, under its own three mounts, however many
\* executions had the name of its workspace before: no lower layer and no upper layer
\* is handed on, unless the environment kept one of them from cleaning up.
FreshRoot ==
  \A e \in Execution : pc[e] = "job" /\ Spoilers(dir[e]) = {} =>
    lower[dir[e]] = {e} /\ mounted[dir[e]] = Kind \X {e}

\* An execution that is over has left neither directory nor mount, wherever among the
\* mounts it failed and though its proc would not unmount; what is left, an execution
\* left that was killed, failed before it had a Disposable, or could not unmount or remove.
NothingLeft ==
  \A d \in Dir :
    /\ d \in there => \E e \in Execution : dir[e] = d /\ (Live(e) \/ e \in spoilt)
    /\ \A m \in mounted[d] : dir[m[2]] = d /\ (Live(m[2]) \/ m[2] \in spoilt)

\* remove_dir_all never starts above a mount of its own execution: what it deletes, it
\* deletes on the disk and not through the overlay or in proc.
BareRemoval ==
  \A e \in Execution : pc[e] = "remove" => \A m \in mounted[dir[e]] : m[2] # e

\* Unmounting goes by path, and still takes off only what the same execution mounted,
\* even in a workspace where another one left mounts behind and a mount of this one failed.
OwnMountsOnly ==
  [][\A e \in Execution : Live(e) /\ pc'[e] # pc[e] =>
       mounted[dir[e]] \ mounted'[dir[e]] \subseteq Kind \X {e}]_vars
=============================================================================
