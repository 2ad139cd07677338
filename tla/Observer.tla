------------------------------ MODULE Observer ------------------------------
(***************************************************************************)
(* The kernel side of the tracer, bpf/observe.bpf.c: two maps of thread ids, *)
(* `tracked` (the process tree of the job) and `inside` (those of it that    *)
(* have called chroot), kept up to date by tracepoints, decide which calls   *)
(* are reported.  The tasks are what the kernel really has: which of them    *)
(* belong to the job, and what file system they see.                        *)
(*                                                                          *)
(* A path, and the ring it travels in, are Tracer's.  A tracepoint is        *)
(* atomic with the system call it belongs to.                               *)
(***************************************************************************)
EXTENDS Integers, FiniteSets

CONSTANTS
  Tid,        \* thread ids the kernel hands out (a bound; ids are reused)
  First,      \* the gated shell, seeded into `tracked`
  Cap,        \* max_entries of the maps
  Faults,     \* SUBSET {"chroot", "exec"}: chroot may fail, a thread other than
              \* the leader may call execve
  None

ASSUME FirstAssumption == First \in Tid
ASSUME NoneAssumption == None \notin [group : Tid, job : BOOLEAN]

VARIABLES
  task,       \* Tid -> the live task with that id (its process and whether it
              \* belongs to the job), or None
  root,       \* Tid -> what the process with that id sees
  tracked,    \* map
  inside,     \* map
  spoilt,     \* history: what has gone wrong, SUBSET {"overflow", "chroot", "exec"}
  reported,   \* history: who was reported
  missed      \* history: a call of the job went unreported

vars == <<task, root, tracked, inside, spoilt, reported, missed>>

Root == {"host", "image"}
Task == [group : Tid, job : BOOLEAN]

Typed ==
  /\ task \in [Tid -> Task \cup {None}]
  /\ root \in [Tid -> Root]
  /\ tracked \subseteq Tid /\ inside \subseteq Tid
  /\ spoilt \subseteq {"overflow", "chroot", "exec"} /\ missed \in BOOLEAN
  /\ reported \subseteq [job : BOOLEAN, root : Root]

\* Tracer::start seeds the pid of the gated shell before it attaches anything.
Init ==
  /\ task = [t \in Tid |-> IF t = First THEN [group |-> t, job |-> TRUE] ELSE None]
  /\ root = [t \in Tid |-> "host"]
  /\ tracked = {First}
  /\ inside = {}
  /\ spoilt = {}
  /\ reported = {}
  /\ missed = FALSE

Live(t) == task[t] # None
Threads(g) == {t \in Tid : Live(t) /\ task[t].group = g}
Sees(t) == root[task[t].group]

\* An entry of a map is the id of a task that lives, until a thread's execve has left
\* its own behind.
TypeOK == Typed /\ ("exec" \notin spoilt => \A t \in tracked \cup inside : Live(t))

\* An id is handed out again once its task, and the process it names, are gone.
Free(t) == ~Live(t) /\ Threads(t) = {}

\* bpf_map_update_elem; nobody looks at its result.
Insert(map, t) == IF Cardinality(map) < Cap THEN map \cup {t} ELSE map

\* `what` has gone wrong, if it has.
Spoilt(happened, what) == spoilt \cup (IF happened THEN {what} ELSE {})

-----------------------------------------------------------------------------
\* Mutant of OnFork: children do not inherit `inside`.
OnForkNotInside(p, c) ==
  /\ tracked' = IF p \in tracked THEN Insert(tracked, c) ELSE tracked
  /\ inside' = inside
  /\ spoilt' = Spoilt(p \in tracked /\ c \notin tracked', "overflow")

\* on_fork: membership and "already chrooted" reach the child.
OnFork(p, c) ==
  /\ tracked' = IF p \in tracked THEN Insert(tracked, c) ELSE tracked
  /\ inside' = IF p \in tracked /\ p \in inside THEN Insert(inside, c) ELSE inside
  /\ spoilt' = Spoilt(p \in tracked /\ (c \notin tracked' \/ (p \in inside /\ c \notin inside')),
                      "overflow")

\* A task forks, or starts a thread.  The programs that take the job into its root
\* (sh, unshare, env, chroot) have one thread.
Fork(p, c) ==
  /\ Live(p) /\ Free(c)
  /\ \E g \in {c, task[p].group} :
       /\ g # c /\ task[p].job => Sees(p) = "image"
       /\ task' = [task EXCEPT ![c] = [group |-> g, job |-> task[p].job]]
       /\ root' = [root EXCEPT ![g] = Sees(p)]
  /\ OnFork(p, c)
  /\ UNCHANGED <<reported, missed>>

\* A process of the host that has nothing to do with the job.
HostStart(t) ==
  /\ Free(t)
  /\ task' = [task EXCEPT ![t] = [group |-> t, job |-> FALSE]]
  /\ root' = [root EXCEPT ![t] = "host"]
  /\ UNCHANGED <<tracked, inside, spoilt, reported, missed>>

\* Mutant of Exit: only one of the maps is cleaned up.
ExitKeepsInside(t) ==
  /\ Live(t)
  /\ task' = [task EXCEPT ![t] = None]
  /\ tracked' = tracked \ {t}
  /\ UNCHANGED <<root, inside, spoilt, reported, missed>>

\* Mutant of Exit: the other one.
ExitKeepsTracked(t) ==
  /\ Live(t)
  /\ task' = [task EXCEPT ![t] = None]
  /\ inside' = inside \ {t}
  /\ UNCHANGED <<root, tracked, spoilt, reported, missed>>

\* on_exit.
Exit(t) ==
  /\ Live(t)
  /\ task' = [task EXCEPT ![t] = None]
  /\ tracked' = tracked \ {t}
  /\ inside' = inside \ {t}
  /\ UNCHANGED <<root, spoilt, reported, missed>>

\* on_chroot: the tracepoint is on the entry of the call, so it fires for a call
\* that fails, too.
Chroot(t) ==
  /\ Live(t) /\ task[t].job
  /\ inside' = IF t \in tracked THEN Insert(inside, t) ELSE inside
  /\ \/ /\ root' = [root EXCEPT ![task[t].group] = "image"]
        /\ spoilt' = Spoilt(t \in tracked /\ t \notin inside', "overflow")
     \/ /\ "chroot" \in Faults
        /\ spoilt' = Spoilt(Sees(t) = "host", "chroot")
        /\ UNCHANGED root
  /\ UNCHANGED <<task, tracked, reported, missed>>

\* A thread that is not the leader calls execve: the other threads exit, the
\* leader among them, and it goes on under the leader's id.  Its own id is given
\* back without an exit.
ExecThread(t) ==
  /\ "exec" \in Faults
  /\ Live(t) /\ task[t].group # t
  /\ LET g == task[t].group
         others == (Threads(g) \cup {g}) \ {t}
     IN /\ task' = [[u \in Tid |-> IF u \in Threads(g) THEN None ELSE task[u]]
                       EXCEPT ![g] = task[t]]
        /\ tracked' = tracked \ others
        /\ inside' = inside \ others
  /\ spoilt' = Spoilt(TRUE, "exec")
  /\ UNCHANGED <<root, reported, missed>>

\* on_execve, on_openat, on_newfstatat ...: in_rootfs decides, report reports.
Touch(t) ==
  /\ Live(t)
  /\ IF t \in inside
     THEN /\ reported' = reported \cup {[job |-> task[t].job, root |-> Sees(t)]}
          /\ UNCHANGED missed
     ELSE /\ missed' = (missed \/ (task[t].job /\ Sees(t) = "image"))
          /\ UNCHANGED reported
  /\ UNCHANGED <<task, root, tracked, inside, spoilt>>

Next ==
  \E t \in Tid :
    \/ \E c \in Tid : Fork(t, c)
    \/ HostStart(t) \/ Exit(t) \/ Chroot(t) \/ ExecThread(t) \/ Touch(t)

Spec == Init /\ [][Next]_vars

-----------------------------------------------------------------------------
(* Properties *)

\* "Everything reported below this line happened after the process stopped being
\* able to see the host filesystem" (on_chroot): nothing is reported but calls of
\* the job, made inside its root, though ids are reused and the maps may be full.
\* It takes a chroot that works: the probe is on the entry of the call.  And it
\* takes execve in leaders only: the id of another thread stays in the maps.
HostUnseen ==
  spoilt \cap {"chroot", "exec"} = {} => \A e \in reported : e.job /\ e.root = "image"

\* "The tracer follows a process and its descendants" (src/trace.rs): no call of
\* the job inside its root is missed, as long as everybody fits in the maps.  An
\* execve in a thread loses the job: the leader's exit clears the id it goes on
\* under.
JobSeen == spoilt \cap {"overflow", "exec"} = {} => ~missed

\* Whatever happens, short of an overflow: an id that is reported is an id whose
\* children will be reported ("Both the membership and the 'already chrooted'
\* state have to reach children", on_fork).
ReportedFollowed == "overflow" \notin spoilt => inside \subseteq tracked
=============================================================================
