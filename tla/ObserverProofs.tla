--------------------------- MODULE ObserverProofs ---------------------------
(***************************************************************************)
(* Theorems about Observer for any number of ids, any map size, any job and  *)
(* any faults: what holds until which of them has happened.                  *)
(***************************************************************************)
EXTENDS Observer, TLAPS

USE FirstAssumption, NoneAssumption

\* Until a thread calls execve, an entry of a map is a live task of the job; until a
\* chroot fails, too, one in `inside` sees the image.
MapsSound ==
  "exec" \notin spoilt =>
    /\ \A t \in tracked \cup inside : Live(t) /\ task[t].job
    /\ "chroot" \notin spoilt => \A t \in inside : Sees(t) = "image"

\* A process of the job that still sees the host has one thread.
Alone ==
  \A t, u \in Tid : Live(t) /\ Live(u) /\ task[t].job /\ Sees(t) = "host"
                    /\ task[u].group = task[t].group => u = t

\* While everybody fits and no thread calls execve, every task of the job is in the
\* maps it belongs to.
MapsComplete ==
  spoilt \cap {"overflow", "exec"} = {} =>
    \A t \in Tid : Live(t) /\ task[t].job =>
      /\ t \in tracked
      /\ Sees(t) = "image" => t \in inside

IInv ==
  /\ Typed /\ MapsSound /\ Alone /\ MapsComplete
  /\ HostUnseen /\ JobSeen /\ ReportedFollowed

\* An update of a map adds the entry or nothing.
LEMMA InsertOne ==
  ASSUME NEW map, NEW t
  PROVE  Insert(map, t) \in {map, map \cup {t}}
  BY DEF Insert

\* What has gone wrong stays.
LEMMA SpoiltGrows ==
  ASSUME Typed, NEW P, NEW w \in {"overflow", "chroot", "exec"}
  PROVE  /\ Spoilt(P, w) \in {spoilt, spoilt \cup {w}}
         /\ Spoilt(P, w) \subseteq {"overflow", "chroot", "exec"}
         /\ w \notin Spoilt(P, w) => ~P
  BY DEF Spoilt, Typed

\* The invariant holds when the tracer has just been seeded.
LEMMA IInvInit == Init => IInv
<1> SUFFICES ASSUME Init  PROVE IInv
  OBVIOUS
<1>a. [group |-> First, job |-> TRUE] \in Task /\ None \notin Task
  BY Zenon DEF Task
<1>1. /\ task[First] = [group |-> First, job |-> TRUE]
      /\ \A t \in Tid : Live(t) <=> t = First
  BY <1>a DEF Init, Live
<1>2. Typed  BY DEF Init, Typed, Task, Root
<1>3. MapsSound  BY <1>1 DEF Init, MapsSound
<1>4. Alone  BY <1>1 DEF Alone
<1>5. MapsComplete  BY <1>1 DEF Init, MapsComplete, Sees
<1>6. HostUnseen /\ JobSeen /\ ReportedFollowed
  BY DEF Init, HostUnseen, JobSeen, ReportedFollowed
<1> QED  BY <1>2, <1>3, <1>4, <1>5, <1>6 DEF IInv

\* A new task, of the job or not, is in the maps exactly if it belongs there.
LEMMA ForkInv ==
  ASSUME IInv, NEW p \in Tid, NEW c \in Tid, Fork(p, c)
  PROVE  IInv'
<1> USE DEF IInv
<1>1. PICK g \in {c, task[p].group} :
        /\ g # c /\ task[p].job => Sees(p) = "image"
        /\ task' = [task EXCEPT ![c] = [group |-> g, job |-> task[p].job]]
        /\ root' = [root EXCEPT ![g] = Sees(p)]
  BY DEF Fork
<1>2. /\ Live(p) /\ ~Live(c) /\ p # c
      /\ \A t \in Tid : Live(t) => task[t].group # c
      /\ task[p] \in Task /\ g \in Tid
      /\ UNCHANGED <<reported, missed>>
  BY <1>1 DEF Fork, Free, Threads, Typed, Live, Task
<1>3. /\ tracked' \in {tracked, tracked \cup {c}}
      /\ inside' \in {inside, inside \cup {c}}
      /\ p \notin tracked => tracked' = tracked /\ inside' = inside
      /\ p \notin inside => inside' = inside
      /\ spoilt' \in {spoilt, spoilt \cup {"overflow"}}
      /\ spoilt' \subseteq {"overflow", "chroot", "exec"}
      /\ "overflow" \notin spoilt' /\ p \in tracked =>
           c \in tracked' /\ (p \in inside => c \in inside')
  <2>1. OnFork(p, c)  BY DEF Fork
  <2>2. "overflow" \notin spoilt' =>
          ~(p \in tracked /\ (c \notin tracked' \/ (p \in inside /\ c \notin inside')))
    BY <2>1, SpoiltGrows DEF OnFork
  <2>3. /\ spoilt' \in {spoilt, spoilt \cup {"overflow"}}
        /\ spoilt' \subseteq {"overflow", "chroot", "exec"}
    BY <2>1, SpoiltGrows DEF OnFork
  <2>4. /\ tracked' \in {tracked, tracked \cup {c}}
        /\ inside' \in {inside, inside \cup {c}}
        /\ p \notin tracked => tracked' = tracked /\ inside' = inside
        /\ p \notin inside => inside' = inside
    BY <2>1, InsertOne DEF OnFork
  <2> QED  BY <2>2, <2>3, <2>4
<1>4. /\ task' \in [Tid -> Task \cup {None}] /\ root' \in [Tid -> Root]
      /\ \A t \in Tid \ {c} : task'[t] = task[t]
      /\ task'[c] = [group |-> g, job |-> task[p].job]
  BY <1>1, <1>2 DEF Typed, Task, Sees
<1>5. /\ \A t \in Tid \ {c} : Live(t) => Sees(t)' = Sees(t)
      /\ Sees(c)' = Sees(p)
  BY <1>1, <1>2, <1>4 DEF Typed, Task, Sees, Live
<1>6. Live(c)' /\ \A t \in Tid \ {c} : Live(t)' <=> Live(t)
  BY <1>2, <1>4 DEF Live, Task
<1>7. Typed'
  BY <1>2, <1>3, <1>4 DEF Typed
<1>8. MapsSound'
  BY <1>2, <1>3, <1>4, <1>5, <1>6 DEF MapsSound, Typed
<1>9. Alone'
  <2> SUFFICES ASSUME NEW t \in Tid, NEW u \in Tid, Live(t)', Live(u)', task'[t].job,
                      Sees(t)' = "host", task'[u].group = task'[t].group
               PROVE  u = t
    BY DEF Alone
  <2>1. CASE t # c /\ u # c
    BY <2>1, <1>4, <1>5, <1>6 DEF Alone
  <2>2. CASE t = c /\ u # c
    BY <2>2, <1>1, <1>2, <1>4, <1>5, <1>6 DEF Alone
  <2>3. CASE t # c /\ u = c
    BY <2>3, <1>1, <1>2, <1>4, <1>5, <1>6 DEF Alone
  <2> QED  BY <2>1, <2>2, <2>3
<1>10. MapsComplete'
  BY <1>2, <1>3, <1>4, <1>5, <1>6 DEF MapsComplete, Typed
<1>11. HostUnseen' /\ JobSeen' /\ ReportedFollowed'
  BY <1>2, <1>3 DEF HostUnseen, JobSeen, ReportedFollowed
<1> QED  BY <1>7, <1>8, <1>9, <1>10, <1>11

\* A process of the host is in no map.
LEMMA HostStartInv ==
  ASSUME IInv, NEW t \in Tid, HostStart(t)
  PROVE  IInv'
<1> USE DEF IInv
<1>1. /\ ~Live(t) /\ \A u \in Tid : Live(u) => task[u].group # t
      /\ task' = [task EXCEPT ![t] = [group |-> t, job |-> FALSE]]
      /\ root' = [root EXCEPT ![t] = "host"]
      /\ UNCHANGED <<tracked, inside, spoilt, reported, missed>>
  BY DEF HostStart, Free, Threads
<1>2. /\ task' \in [Tid -> Task \cup {None}] /\ root' \in [Tid -> Root]
      /\ \A u \in Tid \ {t} : task'[u] = task[u]
      /\ task'[t] = [group |-> t, job |-> FALSE]
  BY <1>1 DEF Typed, Task, Root
<1>3. \A u \in Tid \ {t} : (Live(u)' <=> Live(u)) /\ (Live(u) => Sees(u)' = Sees(u))
  BY <1>1, <1>2 DEF Live, Sees, Typed, Task
<1>4. Typed'  BY <1>1, <1>2 DEF Typed
<1>5. MapsSound'  BY <1>1, <1>2, <1>3 DEF MapsSound, Typed
<1>6. Alone'  BY <1>1, <1>2, <1>3 DEF Alone, Live
<1>7. MapsComplete'  BY <1>1, <1>2, <1>3 DEF MapsComplete
<1>8. HostUnseen' /\ JobSeen' /\ ReportedFollowed'
  BY <1>1 DEF HostUnseen, JobSeen, ReportedFollowed
<1> QED  BY <1>4, <1>5, <1>6, <1>7, <1>8

\* The dead leave the maps.
LEMMA ExitInv ==
  ASSUME IInv, NEW t \in Tid, Exit(t)
  PROVE  IInv'
<1> USE DEF IInv
<1>1. /\ task' = [task EXCEPT ![t] = None]
      /\ tracked' = tracked \ {t} /\ inside' = inside \ {t}
      /\ UNCHANGED <<root, spoilt, reported, missed>>
  BY DEF Exit
<1>2. /\ task' \in [Tid -> Task \cup {None}] /\ task'[t] = None
      /\ \A u \in Tid \ {t} : task'[u] = task[u]
  BY <1>1 DEF Typed
<1>3. ~Live(t)' /\ \A u \in Tid \ {t} : (Live(u)' <=> Live(u)) /\ Sees(u)' = Sees(u)
  BY <1>1, <1>2 DEF Live, Sees
<1>4. Typed'  BY <1>1, <1>2 DEF Typed
<1>5. MapsSound'  BY <1>1, <1>2, <1>3 DEF MapsSound, Typed
<1>6. Alone'  BY <1>1, <1>2, <1>3 DEF Alone
<1>7. MapsComplete'  BY <1>1, <1>2, <1>3 DEF MapsComplete
<1>8. HostUnseen' /\ JobSeen' /\ ReportedFollowed'
  BY <1>1 DEF HostUnseen, JobSeen, ReportedFollowed
<1> QED  BY <1>4, <1>5, <1>6, <1>7, <1>8

\* A chroot takes its only thread inside, or spoils the boundary.
LEMMA ChrootInv ==
  ASSUME IInv, NEW t \in Tid, Chroot(t)
  PROVE  IInv'
<1> USE DEF IInv
<1> DEFINE g == task[t].group
<1>1. /\ Live(t) /\ task[t].job /\ task[t] \in Task /\ g \in Tid /\ Sees(t) \in Root
      /\ UNCHANGED <<task, tracked, reported, missed>>
  BY DEF Chroot, Typed, Live, Task, Sees
<1>2. /\ inside' \in {inside, inside \cup {t}}
      /\ t \notin tracked => inside' = inside
  BY InsertOne DEF Chroot
<1>3. /\ spoilt \subseteq spoilt' /\ spoilt' \subseteq {"overflow", "chroot", "exec"}
      /\ "exec" \in spoilt' => "exec" \in spoilt
  BY SpoiltGrows DEF Chroot
<1>4. \/ /\ root' = [root EXCEPT ![g] = "image"]
         /\ "overflow" \notin spoilt' /\ t \in tracked => t \in inside'
      \/ /\ root' = root
         /\ "chroot" \notin spoilt' => Sees(t) = "image"
  <2>1. CASE /\ root' = [root EXCEPT ![g] = "image"]
             /\ spoilt' = Spoilt(t \in tracked /\ t \notin inside', "overflow")
    BY <2>1, SpoiltGrows
  <2>2. CASE /\ spoilt' = Spoilt(Sees(t) = "host", "chroot")
             /\ UNCHANGED root
    <3>1. "chroot" \notin spoilt' => Sees(t) # "host"  BY <2>2, SpoiltGrows
    <3> QED  BY <1>1, <2>2, <3>1 DEF Root
  <2> QED  BY <2>1, <2>2 DEF Chroot
<1>5. \A u \in Tid : /\ Live(u)' <=> Live(u)
                     /\ Live(u) => Sees(u)' \in {Sees(u), "image"}
                     /\ Live(u) /\ task[u].group # g => Sees(u)' = Sees(u)
  BY <1>1, <1>4 DEF Live, Sees, Typed, Task
<1>6. "chroot" \notin spoilt' => Sees(t)' = "image"
  BY <1>1, <1>4 DEF Sees, Typed
<1>7. Typed'  BY <1>1, <1>2, <1>3, <1>4 DEF Typed, Root
<1>8. MapsSound'
  <2> SUFFICES ASSUME "exec" \notin spoilt'
               PROVE  /\ \A u \in tracked' \cup inside' : Live(u)' /\ task'[u].job
                      /\ "chroot" \notin spoilt' => \A u \in inside' : Sees(u)' = "image"
    BY DEF MapsSound
  <2>1. /\ \A u \in tracked \cup inside : Live(u) /\ task[u].job
        /\ "chroot" \notin spoilt => \A u \in inside : Sees(u) = "image"
    BY <1>3 DEF MapsSound
  <2>2. \A u \in inside : u \in Tid  BY DEF Typed
  <2>3. \A u \in tracked' \cup inside' : Live(u)' /\ task'[u].job
    BY <1>1, <1>2, <1>5, <2>1 DEF Typed
  <2>4. ASSUME "chroot" \notin spoilt', NEW u \in inside'  PROVE Sees(u)' = "image"
    <3>1. CASE u = t  BY <3>1, <1>6, <2>4
    <3>2. CASE u # t  BY <3>2, <1>2, <1>3, <1>5, <2>1, <2>2, <2>4
    <3> QED  BY <3>1, <3>2
  <2> QED  BY <2>3, <2>4
<1>9. Alone'  BY <1>1, <1>5 DEF Alone
<1>10. MapsComplete'
  <2> SUFFICES ASSUME spoilt' \cap {"overflow", "exec"} = {}, NEW u \in Tid,
                      Live(u), task[u].job
               PROVE  /\ u \in tracked
                      /\ Sees(u)' = "image" => u \in inside'
    BY <1>1, <1>5 DEF MapsComplete
  <2>1. u \in tracked /\ (Sees(u) = "image" => u \in inside)
    BY <1>3 DEF MapsComplete
  <2>2. Sees(u) \in {"host", "image"}
    BY DEF Sees, Typed, Task, Root, Live
  <2>3. CASE task[u].group = g /\ root' # root
    <3>1. Sees(u) = "host" => t = u
      BY <1>1, <2>3 DEF Alone
    <3>2. t = u => u \in inside'  BY <1>4, <2>1, <2>3
    <3> QED  BY <1>2, <2>1, <2>2, <3>1, <3>2
  <2>4. CASE task[u].group # g \/ root' = root
    <3>1. Sees(u)' = Sees(u)  BY <1>1, <1>5, <2>4 DEF Sees
    <3> QED  BY <1>2, <2>1, <3>1
  <2> QED  BY <2>3, <2>4
<1>11. HostUnseen' /\ JobSeen' /\ ReportedFollowed'
  BY <1>1, <1>2, <1>3 DEF HostUnseen, JobSeen, ReportedFollowed
<1> QED  BY <1>7, <1>8, <1>9, <1>10, <1>11

\* An execve in a thread leaves one thread, and spoils the maps.
LEMMA ExecThreadInv ==
  ASSUME IInv, NEW t \in Tid, ExecThread(t)
  PROVE  IInv'
<1> USE DEF IInv
<1> DEFINE g == task[t].group
           others == (Threads(g) \cup {g}) \ {t}
<1>1. /\ Live(t) /\ task[t] \in Task /\ g \in Tid
      /\ task' = [[u \in Tid |-> IF u \in Threads(g) THEN None ELSE task[u]]
                     EXCEPT ![g] = task[t]]
      /\ tracked' = tracked \ others /\ inside' = inside \ others
      /\ spoilt' = Spoilt(TRUE, "exec")
      /\ UNCHANGED <<root, reported, missed>>
  BY DEF ExecThread, Typed, Live, Task
<1>2. /\ "exec" \in spoilt' /\ spoilt \subseteq spoilt'
      /\ spoilt' \subseteq {"overflow", "chroot", "exec"}
  BY <1>1, SpoiltGrows
<1>3. /\ task' \in [Tid -> Task \cup {None}] /\ task'[g] = task[t]
      /\ \A u \in Tid \ {g} : task'[u] = IF u \in Threads(g) THEN None ELSE task[u]
  BY <1>1 DEF Typed
<1>4. Typed'  BY <1>1, <1>2, <1>3 DEF Typed
<1>5. Alone'
  <2> SUFFICES ASSUME NEW v \in Tid, NEW u \in Tid, Live(v)', Live(u)', task'[v].job,
                      Sees(v)' = "host", task'[u].group = task'[v].group
               PROVE  u = v
    BY DEF Alone
  <2>1. \A w \in Tid \ {g} : Live(w)' => Live(w) /\ task'[w] = task[w] /\ task[w].group # g
    BY <1>3 DEF Live, Threads
  <2>2. task'[g].group = g  BY <1>3
  <2>3. CASE u = g \/ v = g  BY <2>1, <2>2, <2>3
  <2>4. CASE u # g /\ v # g
    <3>1. Sees(v) = "host"  BY <1>1, <2>1, <2>4 DEF Sees
    <3> QED  BY <2>1, <2>4, <3>1 DEF Alone
  <2> QED  BY <2>3, <2>4
<1>6. MapsSound' /\ MapsComplete' /\ HostUnseen' /\ JobSeen'
  BY <1>2 DEF MapsSound, MapsComplete, HostUnseen, JobSeen
<1>7. ReportedFollowed'
  BY <1>1, <1>2 DEF ReportedFollowed
<1> QED  BY <1>4, <1>5, <1>6, <1>7

\* What is reported, and what is not.
LEMMA TouchInv ==
  ASSUME IInv, NEW t \in Tid, Touch(t)
  PROVE  IInv'
<1> USE DEF IInv
<1>1. /\ Live(t) /\ task[t] \in Task /\ Sees(t) \in Root
      /\ UNCHANGED <<task, root, tracked, inside, spoilt>>
  BY DEF Touch, Typed, Live, Sees, Task
<1>2. MapsSound' /\ Alone' /\ MapsComplete' /\ ReportedFollowed'
  BY <1>1 DEF MapsSound, Alone, MapsComplete, ReportedFollowed, Live, Sees
<1>3. CASE t \in inside
  <2>1. spoilt \cap {"chroot", "exec"} = {} => task[t].job /\ Sees(t) = "image"
    BY <1>3 DEF MapsSound
  <2>2. /\ reported' = reported \cup {[job |-> task[t].job, root |-> Sees(t)]}
        /\ missed' = missed
    BY <1>3 DEF Touch
  <2>3. Typed'  BY <1>1, <2>2 DEF Typed, Task
  <2>4. HostUnseen' /\ JobSeen'  BY <1>1, <2>1, <2>2 DEF HostUnseen, JobSeen
  <2> QED  BY <1>2, <2>3, <2>4
<1>4. CASE t \notin inside
  <2>1. /\ missed' = (missed \/ (task[t].job /\ Sees(t) = "image"))
        /\ reported' = reported
    BY <1>4 DEF Touch
  <2>2. spoilt \cap {"overflow", "exec"} = {} => ~(task[t].job /\ Sees(t) = "image")
    BY <1>1, <1>4 DEF MapsComplete
  <2>3. Typed'  BY <1>1, <2>1 DEF Typed
  <2>4. HostUnseen' /\ JobSeen'  BY <1>1, <2>1, <2>2 DEF HostUnseen, JobSeen
  <2> QED  BY <1>2, <2>3, <2>4
<1> QED  BY <1>3, <1>4

\* IInv is an invariant: the maps say exactly who is in the job and who of it is in
\* its root, until something goes wrong that breaks one side or the other.
THEOREM MapsExact == Spec => []IInv
<1>1. IInv /\ [Next]_vars => IInv'
  <2> SUFFICES ASSUME IInv, [Next]_vars  PROVE IInv'
    OBVIOUS
  <2>1. CASE UNCHANGED vars
    BY <2>1 DEF vars, IInv, Typed, MapsSound, Alone, MapsComplete, HostUnseen, JobSeen,
                ReportedFollowed, Live, Sees
  <2> QED
    BY <2>1, ForkInv, HostStartInv, ExitInv, ChrootInv, ExecThreadInv, TouchInv DEF Next
<1> QED  BY IInvInit, <1>1, PTL DEF Spec

\* Every reachable state of the maps and of the tasks is well typed.
THEOREM Typing == Spec => []TypeOK
<1>1. IInv => TypeOK  BY DEF IInv, TypeOK, MapsSound
<1> QED  BY MapsExact, <1>1, PTL

\* Nothing but the job's calls inside its root is ever reported, however ids are
\* reused and however small the maps are, until a chroot fails or a thread execs.
THEOREM OnlyTheJobReported == Spec => []HostUnseen
<1>1. IInv => HostUnseen  BY DEF IInv
<1> QED  BY MapsExact, <1>1, PTL

\* While everybody fits in the maps and no thread execs, no call of the job inside
\* its root is missed, also when a chroot fails on the way.
THEOREM WholeJobReported == Spec => []JobSeen
<1>1. IInv => JobSeen  BY DEF IInv
<1> QED  BY MapsExact, <1>1, PTL

\* Short of an overflow, who is reported is followed to its children, whatever
\* chroots fail and whoever execs.
THEOREM ReportedAreFollowed == Spec => []ReportedFollowed
<1>1. IInv => ReportedFollowed  BY DEF IInv
<1> QED  BY MapsExact, <1>1, PTL
=============================================================================
