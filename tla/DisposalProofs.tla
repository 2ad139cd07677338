--------------------------- MODULE DisposalProofs ---------------------------
(***************************************************************************)
(* Theorems about Disposal for any number of executions and workspaces and   *)
(* any faults.                                                              *)
(***************************************************************************)
EXTENDS Disposal, TLAPS

\* Executions begin in the order of their numbers.
Numbered == \A e, f \in Execution : f < e /\ pc[e] # "new" => pc[f] # "new"

\* A workspace has one live execution at a time, and it is the latest.
Turns ==
  \A e, f \in Execution : Live(e) /\ dir[f] = dir[e] /\ f # e => f < e /\ pc[f] = "over"

\* Files and mounts are where their execution had its workspace.
OfName ==
  \A d \in Dir :
    /\ \A e \in lower[d] : dir[e] = d
    /\ \A k \in Kind, e \in Execution : <<k, e>> \in mounted[d] => dir[e] = d

\* Flags are set in the order of the mounts.
Flags ==
  \A e \in Execution :
    /\ "proc" \in claims[e] => "overlay" \in claims[e]
    /\ "overlay" \in claims[e] => "tmpfs" \in claims[e]
    /\ pc[e] \in {"new", "prepare", "tmpfs"} => claims[e] = {}
    /\ pc[e] = "overlay" => claims[e] = {"tmpfs"}
    /\ pc[e] = "proc" => claims[e] = {"tmpfs", "overlay"}
    /\ pc[e] \in {"dev", "job"} => claims[e] = Kind

\* A live execution has mounted what it claims, as far as it has not unmounted it; its
\* proc may have stayed or not while the overlay is there.
Holds(e, k) == <<k, e>> \in mounted[dir[e]]
HeldBy(e) ==
  /\ \A k \in Kind : Holds(e, k) => k \in claims[e]
  /\ pc[e] \notin {"unoverlay", "untmpfs", "remove"} =>
       \A k \in Kind : k \in claims[e] => Holds(e, k)
  /\ pc[e] = "unoverlay" => \A k \in Kind \ {"proc"} : k \in claims[e] => Holds(e, k)
  /\ pc[e] = "untmpfs" => \A k \in Kind : Holds(e, k) <=> k \in claims[e] \cap {"tmpfs"}
  /\ pc[e] = "remove" => \A k \in Kind : ~Holds(e, k)
Held == \A e \in Execution : Live(e) => HeldBy(e)

\* What there is, is a live execution's or one that could not clean up left it; lower
\* layers can also stay in a workspace in which another one left something.
Left ==
  /\ \A d \in there : \E e \in Execution : dir[e] = d /\ (Live(e) \/ e \in spoilt)
  /\ \A d \in Dir, k \in Kind, e \in Execution :
       <<k, e>> \in mounted[d] => Live(e) \/ e \in spoilt
  /\ \A d \in Dir : \A e \in lower[d] : Live(e) \/ Spoilers(d) # {}

Filled ==
  \A e \in Execution :
    pc[e] \in {"tmpfs", "overlay", "proc", "dev", "job"} => e \in lower[dir[e]]

IInv == Typed /\ Numbered /\ Turns /\ OfName /\ Flags /\ Held /\ Left /\ Filled

LEMMA IInvInit == Init => IInv
<1> SUFFICES ASSUME Init  PROVE IInv
  OBVIOUS
<1> USE DisposalAssumption DEF Init
<1>1. Typed  BY DEF Typed, Pc, Kind, Execution
<1>2. Numbered /\ Turns /\ Flags /\ Filled  BY DEF Numbered, Turns, Flags, Filled, Live
<1>3. OfName /\ Held /\ Left  BY DEF OfName, Held, HeldBy, Left, Live
<1> QED  BY <1>1, <1>2, <1>3 DEF IInv

\* Unmounting a kind that is claimed meets the execution's own mount: nobody came after.
LEMMA AtOwn ==
  ASSUME IInv, NEW e \in Execution, NEW k \in Kind, k \in claims[e],
         <<pc[e], k>> \in {<<"unproc", "proc">>, <<"unoverlay", "overlay">>,
                           <<"untmpfs", "tmpfs">>}
  PROVE  /\ Holds(e, k)
         /\ At(dir[e], k) = {e}
<1> DEFINE on == IF k = "proc" THEN "overlay" ELSE k
<1>1. Live(e) /\ dir[e] \in Dir  BY DEF IInv, Typed, Live, Kind
<1>2. on \in Kind /\ Holds(e, on) /\ Holds(e, k)
  BY <1>1 DEF IInv, Held, HeldBy, Flags, Kind
<1>3. \A f \in Execution : <<on, f>> \in mounted[dir[e]] => f <= e
  BY <1>1, <1>2 DEF IInv, OfName, Turns, Execution
<1>4. At(dir[e], k) \subseteq {e}
  BY <1>2, <1>3 DEF At, Execution, Holds
<1> QED  BY <1>2, <1>3, <1>4 DEF At, Execution, Holds

\* The mounts of other executions, and what they do, are out of reach of a step that goes
\* on from one place to another and leaves the mounts alone.
LEMMA MoveInv ==
  ASSUME IInv, NEW e \in Execution, NEW l \in Pc \ {"new"}, Live(e), Goto(e, l),
         UNCHANGED <<dir, claims, mounted>>,
         there' \subseteq there,
         \A d \in there' : d = dir[e] => l # "over" \/ e \in spoilt' \/ mounted[d] # {},
         spoilt' \in {spoilt, spoilt \cup {e}},
         NEW files \in SUBSET Execution, lower' = [lower EXCEPT ![dir[e]] = files],
         files \subseteq lower[dir[e]] \cup {e},
         files # {} => l # "over" \/ e \in spoilt' \/ mounted[dir[e]] # {},
         pc[e] = "remove" \/ l # "over" \/ e \in spoilt',
         l \in {"tmpfs", "overlay", "proc", "dev", "job"} => e \in files,
         (Flags /\ Held)'
  PROVE  IInv'
<1> USE DisposalAssumption
<1>1. /\ pc' = [pc EXCEPT ![e] = l] /\ dir[e] \in Dir
      /\ \A f \in Execution : f # e => (Live(f)' <=> Live(f))
      /\ \A f \in Execution : pc'[f] = "new" <=> pc[f] = "new"
  BY DEF IInv, Typed, Live, Goto
<1>2. Typed'  BY <1>1 DEF IInv, Typed
<1>3. Numbered'  BY <1>1 DEF IInv, Numbered
<1>4. Turns'
  BY <1>1 DEF IInv, Turns, Typed, Live
<1>5. OfName'  BY <1>1 DEF IInv, OfName, Typed
<1>6. Filled'  BY <1>1 DEF IInv, Filled, Typed, Turns, Live
<1>7. mounted[dir[e]] # {} => e \in spoilt' \/ l # "over" \/ Spoilers(dir[e]) # {}
  <2> SUFFICES ASSUME mounted[dir[e]] # {}, l = "over", e \notin spoilt'
               PROVE  Spoilers(dir[e]) # {}
    OBVIOUS
  <2>1. PICK k \in Kind, f \in Execution : <<k, f>> \in mounted[dir[e]]
    <3>1. mounted[dir[e]] \in SUBSET (Kind \X Execution)  BY <1>1 DEF IInv, Typed
    <3> QED  BY <3>1
  <2>2. dir[f] = dir[e] /\ f # e
    BY <2>1, <1>1 DEF IInv, OfName, Held, HeldBy, Holds
  <2>3. f \in spoilt  BY <2>1, <2>2, <1>1 DEF IInv, Left, Turns, Live
  <2> QED  BY <2>2, <2>3 DEF Spoilers
<1>8. \A d \in Dir : Spoilers(d) \subseteq Spoilers(d)'
  BY DEF Spoilers
<1>9. Left'
  <2>1. ASSUME NEW d \in there'
        PROVE  \E f \in Execution : dir[f] = d /\ (Live(f)' \/ f \in spoilt')
    <3>1. CASE d = dir[e]
      <4>1. l # "over" \/ e \in spoilt' \/ Spoilers(d) # {}  BY <1>7, <3>1
      <4>2. l # "over" => Live(e)'  BY <1>1 DEF Live, IInv, Typed
      <4>3. Spoilers(d) # {} => \E f \in Execution : dir[f] = d /\ f \in spoilt'
        BY DEF Spoilers, IInv, Typed
      <4> QED  BY <3>1, <4>1, <4>2, <4>3
    <3>2. CASE d # dir[e]
      BY <3>2, <1>1 DEF IInv, Left
    <3> QED  BY <3>1, <3>2
  <2>2. ASSUME NEW d \in Dir, NEW k \in Kind, NEW f \in Execution, <<k, f>> \in mounted[d]
        PROVE  Live(f)' \/ f \in spoilt'
    <3>1. CASE f = e
      BY <2>2, <3>1, <1>1 DEF IInv, OfName, Held, HeldBy, Holds, Typed, Live
    <3>2. CASE f # e
      BY <2>2, <3>2, <1>1 DEF IInv, Left
    <3> QED  BY <3>1, <3>2
  <2>3. ASSUME NEW d \in Dir, NEW f \in lower'[d]
        PROVE  Live(f)' \/ Spoilers(d)' # {}
    <3>1. CASE d = dir[e]
      <4>1. e \in spoilt' => Spoilers(d)' # {}  BY <3>1 DEF Spoilers
      <4>2. CASE f = e
        <5>1. f \in files  BY <2>3, <3>1, <1>1 DEF IInv, Typed
        <5>2. l # "over" => Live(e)'  BY <1>1 DEF Live, IInv, Typed
        <5> QED  BY <4>1, <4>2, <5>1, <5>2, <1>7, <1>8, <3>1
      <4>3. CASE f # e
        BY <4>3, <2>3, <3>1, <1>1, <1>8 DEF IInv, Typed, Left
      <4> QED  BY <4>2, <4>3
    <3>2. CASE d # dir[e]
      <4>1. f \in lower[d] /\ f \in Execution /\ f # e
        BY <3>2, <2>3, <1>1 DEF IInv, Typed, OfName
      <4> QED  BY <4>1, <1>1, <1>8 DEF IInv, Left
    <3> QED  BY <3>1, <3>2
  <2> QED  BY <2>1, <2>2, <2>3 DEF Left
<1> QED  BY <1>2, <1>3, <1>4, <1>5, <1>6, <1>9 DEF IInv

\* A directory that is taken over keeps what lies in it.
LEMMA CreateInv ==
  ASSUME IInv, NEW e \in Execution, NEW d \in Dir, Create(e, d)
  PROVE  IInv'
<1> USE DisposalAssumption
<1>1. /\ pc[e] = "new" /\ pc' = [pc EXCEPT ![e] = "prepare"]
      /\ dir' = [dir EXCEPT ![e] = d] /\ there' = there \cup {d}
      /\ \A f \in Execution : (f < e => pc[f] # "new") /\ (dir[f] = d => ~Live(f))
      /\ UNCHANGED <<claims, lower, mounted, spoilt>>
      /\ dir[e] = None
  BY DEF Create, Goto, IInv, Typed
<1>2. /\ \A f \in Execution : f # e => (Live(f)' <=> Live(f)) /\ dir'[f] = dir[f]
      /\ Live(e)' /\ dir'[e] = d
  BY <1>1 DEF IInv, Typed, Live
<1>3. Typed'  BY <1>1 DEF IInv, Typed, Pc
<1>4. Numbered'  BY <1>1 DEF IInv, Numbered, Typed
<1>5. Turns'
  <2> SUFFICES ASSUME NEW g \in Execution, NEW f \in Execution,
                      Live(g)', dir'[f] = dir'[g], f # g
               PROVE  f < g /\ pc'[f] = "over"
    BY DEF Turns
  <2>1. CASE g = e
    <3>1. dir[f] = d /\ ~Live(f) /\ pc[f] # "new"  BY <2>1, <1>1, <1>2 DEF IInv, Typed
    <3>2. ~(e < f)  BY <3>1, <1>1 DEF IInv, Numbered
    <3> QED  BY <2>1, <3>1, <3>2, <1>1 DEF Live, Execution, IInv, Typed
  <2>2. CASE f = e
    BY <2>2, <1>1, <1>2 DEF IInv, Typed
  <2>3. CASE g # e /\ f # e
    BY <2>3, <1>1, <1>2 DEF IInv, Turns, Typed
  <2> QED  BY <2>1, <2>2, <2>3
<1>6. \A c \in Dir : /\ e \notin lower[c]
                     /\ \A k \in Kind : <<k, e>> \notin mounted[c]
  BY <1>1 DEF IInv, OfName
<1>7. OfName'  BY <1>1, <1>2, <1>6 DEF IInv, OfName, Typed
<1>8. Flags'  BY <1>1 DEF IInv, Flags, Typed
<1>9. Held'
  <2>1. \A f \in Execution \ {e}, k \in Kind : Holds(f, k)' <=> Holds(f, k)
    BY <1>1, <1>2 DEF Holds
  <2>2. \A k \in Kind : ~Holds(e, k)'  BY <1>1, <1>2, <1>6 DEF Holds
  <2>3. claims[e] = {}  BY <1>1 DEF IInv, Flags
  <2> QED  BY <1>1, <1>2, <2>1, <2>2, <2>3 DEF IInv, Held, HeldBy, Typed
<1>10. Left'
  <2>1. \A c \in Dir : Spoilers(c) # {} => Spoilers(c)' # {}
    <3> SUFFICES ASSUME NEW c \in Dir, NEW s \in Spoilers(c)  PROVE s \in Spoilers(c)'
      OBVIOUS
    <3> QED  BY <1>1, <1>2 DEF Spoilers, IInv, Typed
  <2>2. \A c \in there' : \E f \in Execution : dir'[f] = c /\ (Live(f)' \/ f \in spoilt')
    BY <1>1, <1>2 DEF IInv, Left, Typed
  <2>3. \A c \in Dir, k \in Kind, f \in Execution :
          <<k, f>> \in mounted'[c] => Live(f)' \/ f \in spoilt'
    BY <1>1, <1>2, <1>6 DEF IInv, Left
  <2>4. \A c \in Dir : \A f \in lower'[c] : Live(f)' \/ Spoilers(c)' # {}
    BY <1>1, <1>2, <1>6, <2>1 DEF IInv, Left, Typed
  <2> QED  BY <2>2, <2>3, <2>4 DEF Left
<1>11. Filled'  BY <1>1, <1>2 DEF IInv, Filled, Typed, Live
<1> QED  BY <1>3, <1>4, <1>5, <1>7, <1>8, <1>9, <1>10, <1>11 DEF IInv

\* The mounts and flags of the others, when those of one execution change.
LEMMA MountsInv ==
  ASSUME IInv, NEW e \in Execution, NEW l \in Pc \ {"new", "over"}, Live(e), Goto(e, l),
         UNCHANGED <<dir, there, lower, spoilt>>,
         claims' \in [Execution -> SUBSET Kind],
         NEW ms \in SUBSET (Kind \X Execution), mounted' = [mounted EXCEPT ![dir[e]] = ms],
         \A m \in ms : m \in mounted[dir[e]] \/ m[2] = e,
         l \in {"tmpfs", "overlay", "proc", "dev", "job"} => pc[e] # "prepare"
           /\ pc[e] \in {"tmpfs", "overlay", "proc", "dev", "job"},
         (Flags /\ Held)'
  PROVE  IInv'
<1> USE DisposalAssumption
<1>1. /\ pc' = [pc EXCEPT ![e] = l] /\ dir[e] \in Dir
      /\ \A f \in Execution : Live(f)' <=> Live(f)
      /\ \A f \in Execution : pc'[f] = "new" <=> pc[f] = "new"
  BY DEF IInv, Typed, Live, Goto
<1>2. Typed'  BY <1>1 DEF IInv, Typed
<1>3. Numbered'  BY <1>1 DEF IInv, Numbered
<1>4. Turns'  BY <1>1 DEF IInv, Turns, Typed, Live
<1>5. \A d \in Dir, k \in Kind, f \in Execution :
        <<k, f>> \in mounted'[d] => <<k, f>> \in mounted[d] \/ (f = e /\ d = dir[e])
  BY <1>1 DEF IInv, Typed
<1>6. OfName'  BY <1>1, <1>5 DEF IInv, OfName, Typed
<1>7. Left'  BY <1>1, <1>5 DEF IInv, Left, Typed, Spoilers
<1>8. Filled'  BY <1>1 DEF IInv, Filled, Typed
<1> QED  BY <1>2, <1>3, <1>4, <1>6, <1>7, <1>8 DEF IInv

\* While an execution moves on, the others hold and claim what they did.
LEMMA OthersHeld ==
  ASSUME IInv, NEW e \in Execution, Live(e), UNCHANGED dir,
         NEW l \in Pc, Goto(e, l), NEW ms, mounted' = [mounted EXCEPT ![dir[e]] = ms],
         NEW cs, claims' = [claims EXCEPT ![e] = cs]
  PROVE  /\ pc'[e] = l /\ claims'[e] = cs /\ mounted'[dir[e]] = ms
         /\ \A f \in Execution \ {e} :
              /\ pc'[f] = pc[f] /\ claims'[f] = claims[f]
              /\ Live(f) => mounted'[dir[f]] = mounted[dir[f]]
<1>1. dir[e] \in Dir  BY DEF IInv, Typed, Live
<1>2. \A f \in Execution \ {e} : Live(f) => dir[f] # dir[e]
  BY DEF IInv, Turns, Live
<1>3. \A f \in Execution \ {e} : Live(f) => dir[f] \in Dir
  BY DEF IInv, Typed, Live
<1> QED  BY <1>1, <1>2, <1>3 DEF IInv, Typed, Goto

\* An execution that only goes on, or ends where the environment keeps it from cleaning up.
LEMMA GoOnInv ==
  ASSUME IInv, NEW e \in Execution, NEW l \in Pc \ {"new"}, Live(e), Goto(e, l),
         UNCHANGED <<dir, claims, there, lower, mounted>>,
         spoilt' \in {spoilt, spoilt \cup {e}}, l = "over" => e \in spoilt',
         l = "over" \/ <<pc[e], l>> \in
           {<<"dev", "job">>, <<"tmpfs", "unproc">>, <<"overlay", "unproc">>,
            <<"proc", "unproc">>, <<"dev", "unproc">>, <<"job", "unproc">>,
            <<"unproc", "unoverlay">>}
         \/ (<<pc[e], l>> = <<"unoverlay", "untmpfs">> /\ "overlay" \notin claims[e])
         \/ (<<pc[e], l>> = <<"untmpfs", "remove">> /\ "tmpfs" \notin claims[e])
  PROVE  IInv'
<1> USE DisposalAssumption
<1>1. pc' = [pc EXCEPT ![e] = l] /\ dir[e] \in Dir
  BY DEF Goto, IInv, Typed, Live
<1>2. Flags'  BY <1>1 DEF IInv, Flags, Typed
<1>3. Held'
  <2>1. \A f \in Execution, k \in Kind : Holds(f, k)' <=> Holds(f, k)
    BY DEF Holds
  <2>2. \A k \in Kind : Holds(e, k) => k \in claims[e]  BY DEF IInv, Held, HeldBy
  <2>3. \A f \in Execution \ {e} : pc'[f] = pc[f] /\ (Live(f)' <=> Live(f))
    BY <1>1 DEF IInv, Typed, Live
  <2>4. pc'[e] = l  BY <1>1 DEF IInv, Typed
  <2> QED  BY <2>1, <2>2, <2>3, <2>4 DEF IInv, Held, HeldBy, Flags, Live, Kind, Typed
<1>4. lower' = [lower EXCEPT ![dir[e]] = lower[dir[e]]] /\ lower[dir[e]] \in SUBSET Execution
  BY <1>1 DEF IInv, Typed
<1>5. l \in {"tmpfs", "overlay", "proc", "dev", "job"} => e \in lower[dir[e]]
  BY DEF IInv, Filled
<1> QED  BY <1>2, <1>3, <1>4, <1>5, MoveInv

\* An execution that ends or leaves its preparation, when its files change.
LEMMA FilesInv ==
  ASSUME IInv, NEW e \in Execution, NEW l \in {"tmpfs", "over"},
         pc[e] \in {"prepare", "remove"}, pc[e] = "remove" => l = "over", Goto(e, l),
         UNCHANGED <<dir, claims, mounted>>, there' \subseteq there,
         spoilt' \in {spoilt, spoilt \cup {e}},
         NEW files \in SUBSET Execution, lower' = [lower EXCEPT ![dir[e]] = files],
         files \subseteq lower[dir[e]] \cup {e}, l = "tmpfs" => e \in files,
         pc[e] = "remove" \/ l # "over" \/ e \in spoilt',
         l # "over" \/ e \in spoilt' \/ mounted[dir[e]] # {}
           \/ (files = {} /\ dir[e] \notin there')
  PROVE  IInv'
<1> USE DisposalAssumption
<1>1. pc' = [pc EXCEPT ![e] = l] /\ dir[e] \in Dir /\ Live(e) /\ l \in Pc \ {"new"}
  BY DEF Goto, IInv, Typed, Live, Pc
<1>2. Flags'  BY <1>1 DEF IInv, Flags, Typed
<1>3. Held'
  <2>1. \A f \in Execution, k \in Kind : Holds(f, k)' <=> Holds(f, k)
    BY DEF Holds
  <2>2. \A k \in Kind : ~Holds(e, k)  BY DEF IInv, Held, HeldBy, Flags, Live
  <2>3. \A f \in Execution \ {e} : pc'[f] = pc[f] /\ (Live(f)' <=> Live(f))
    BY <1>1 DEF IInv, Typed, Live
  <2>4. pc'[e] = l  BY <1>1 DEF IInv, Typed
  <2>5. pc[e] = "prepare" => claims[e] = {}  BY DEF IInv, Flags
  <2>6. claims' = claims  OBVIOUS
  <2>7. Held  BY DEF IInv
  <2> SUFFICES ASSUME NEW f \in Execution, Live(f)'
               PROVE  HeldBy(f)'
    BY DEF Held
  <2>8. CASE f = e
    BY <2>1, <2>2, <2>4, <2>5, <2>6, <2>8 DEF HeldBy, Live
  <2>9. CASE f # e
    BY <2>1, <2>3, <2>6, <2>7, <2>9 DEF Held, HeldBy
  <2> QED  BY <2>8, <2>9
<1> QED  BY <1>1, <1>2, <1>3, MoveInv

\* A mount is claimed at once; the next one is due.
LEMMA MountInv ==
  ASSUME IInv, NEW e \in Execution, NEW k \in Kind, Mount(e, k)
  PROVE  IInv'
<1> USE DisposalAssumption
<1> DEFINE ms == mounted[dir[e]] \cup {<<k, e>>}
           cs == claims[e] \cup {k}
           l == IF k = "tmpfs" THEN "overlay" ELSE IF k = "overlay" THEN "proc" ELSE "dev"
<1>1. /\ pc[e] = k /\ Live(e) /\ Goto(e, l) /\ dir[e] \in Dir
      /\ UNCHANGED <<dir, there, lower, spoilt>>
      /\ mounted' = [mounted EXCEPT ![dir[e]] = ms]
      /\ claims' = [claims EXCEPT ![e] = cs]
      /\ l \in Pc \ {"new", "over"}
  BY DEF Mount, MountAt, After, Kind, Live, Pc, IInv, Typed
<1>2. /\ ms \in SUBSET (Kind \X Execution) /\ claims' \in [Execution -> SUBSET Kind]
      /\ \A m \in ms : m \in mounted[dir[e]] \/ m[2] = e
  BY <1>1 DEF IInv, Typed
<1>3. /\ pc'[e] = l /\ claims'[e] = cs /\ mounted'[dir[e]] = ms
      /\ \A f \in Execution \ {e} :
           /\ pc'[f] = pc[f] /\ claims'[f] = claims[f]
           /\ Live(f) => mounted'[dir[f]] = mounted[dir[f]]
  <2> HIDE DEF ms, cs, l
  <2> QED  BY <1>1, OthersHeld
<1>4. /\ k = "tmpfs" => claims[e] = {}
      /\ k = "overlay" => claims[e] = {"tmpfs"}
      /\ k = "proc" => claims[e] = {"tmpfs", "overlay"}
  BY <1>1 DEF IInv, Flags
<1>5. Flags'
  <2>1. /\ k = "tmpfs" => cs = {"tmpfs"}
        /\ k = "overlay" => cs = {"tmpfs", "overlay"}
        /\ k = "proc" => cs = Kind
    BY <1>4 DEF Kind
  <2>2. k \in {"tmpfs", "overlay", "proc"}  BY DEF Kind
  <2> QED  BY <1>3, <2>1, <2>2 DEF IInv, Flags, Kind
<1>6. Held'
  <2>1. \A f \in Execution \ {e} : Live(f)' <=> Live(f)  BY <1>3 DEF Live
  <2>2. \A f \in Execution \ {e}, j \in Kind : Live(f) => (Holds(f, j)' <=> Holds(f, j))
    BY <1>1, <1>3 DEF Holds
  <2>3. \A j \in Kind : Holds(e, j)' <=> j \in cs
    <3>1. \A j \in Kind : Holds(e, j) <=> j \in claims[e]
      BY <1>1, <1>2 DEF IInv, Held, HeldBy, Kind, Typed
    <3> QED  BY <1>1, <1>3, <3>1 DEF Holds
  <2>4. pc'[e] \in {"overlay", "proc", "dev"}  BY <1>3
  <2>5. Held  BY DEF IInv
  <2>6. cs \subseteq Kind  BY <1>1 DEF IInv, Typed
  <2> HIDE DEF cs, l
  <2> SUFFICES ASSUME NEW f \in Execution, Live(f)'
               PROVE  HeldBy(f)'
    BY DEF Held
  <2>7. CASE f = e
    BY <1>3, <2>3, <2>4, <2>6, <2>7 DEF HeldBy
  <2>8. CASE f # e
    BY <1>3, <2>1, <2>2, <2>5, <2>8 DEF Held, HeldBy
  <2> QED  BY <2>7, <2>8
<1>7. l \in {"overlay", "proc", "dev"} /\ pc[e] \in {"tmpfs", "overlay", "proc"}
  BY <1>1 DEF Kind
<1> HIDE DEF ms, cs, l
<1>8. l \in {"tmpfs", "overlay", "proc", "dev", "job"} => pc[e] # "prepare"
        /\ pc[e] \in {"tmpfs", "overlay", "proc", "dev", "job"}
  BY <1>7
<1> QED  BY <1>1, <1>2, <1>5, <1>6, <1>8, MountsInv

\* Unmounting takes off the execution's own mount, and with the overlay its proc.
LEMMA UmountInv ==
  ASSUME IInv, NEW e \in Execution,
         NEW at, NEW k, NEW next,
         <<at, k, next>> \in {<<"unproc", "proc", "unoverlay">>,
                              <<"unoverlay", "overlay", "untmpfs">>,
                              <<"untmpfs", "tmpfs", "remove">>},
         Umount(e, at, k, next)
  PROVE  IInv'
<1> USE DisposalAssumption
<1> DEFINE gone == IF k = "overlay" THEN {"overlay", "proc"} ELSE {k}
           ms == mounted[dir[e]] \ (gone \X {e})
<1>1. /\ pc[e] = at /\ k \in claims[e] /\ k \in Kind /\ Live(e) /\ Goto(e, next)
      /\ UNCHANGED <<dir, claims, there, lower, spoilt>> /\ dir[e] \in Dir
      /\ next \in Pc \ {"new", "over"}
  BY DEF Umount, Kind, Live, Pc, IInv, Typed
<1>2. At(dir[e], k) = {e}  BY <1>1, AtOwn
<1>3. mounted' = [mounted EXCEPT ![dir[e]] = ms]
  BY <1>2 DEF Umount, UmountAt
<1>4. /\ ms \in SUBSET (Kind \X Execution) /\ claims' \in [Execution -> SUBSET Kind]
      /\ \A m \in ms : m \in mounted[dir[e]] \/ m[2] = e
  BY <1>1 DEF IInv, Typed
<1>5. claims' = [claims EXCEPT ![e] = claims[e]]  BY <1>1 DEF IInv, Typed
<1>a. next \in Pc  BY <1>1
<1>6. /\ pc'[e] = next /\ claims' = claims /\ mounted'[dir[e]] = ms
      /\ \A f \in Execution \ {e} :
           /\ pc'[f] = pc[f]
           /\ Live(f) => mounted'[dir[f]] = mounted[dir[f]]
  <2> HIDE DEF ms
  <2>1. /\ pc'[e] = next /\ mounted'[dir[e]] = ms
        /\ \A f \in Execution \ {e} :
             /\ pc'[f] = pc[f] /\ claims'[f] = claims[f]
             /\ Live(f) => mounted'[dir[f]] = mounted[dir[f]]
    <3>1. UNCHANGED dir /\ Live(e) /\ Goto(e, next)  BY <1>1
    <3> QED  BY <3>1, <1>3, <1>5, <1>a, OthersHeld
  <2> QED  BY <1>1, <2>1
<1>7. Flags'  BY <1>6 DEF IInv, Flags
<1>8. Held'
  <2>1. \A f \in Execution \ {e} : Live(f)' <=> Live(f)  BY <1>6 DEF Live
  <2>2. \A f \in Execution \ {e}, j \in Kind : Live(f) => (Holds(f, j)' <=> Holds(f, j))
    BY <1>1, <1>6 DEF Holds
  <2>3. \A j \in Kind : Holds(e, j)' <=> Holds(e, j) /\ j \notin gone
    BY <1>1, <1>6 DEF Holds
  <2>4. Held /\ Flags  BY DEF IInv
  <2>5. /\ \A j \in Kind : Holds(e, j) => j \in claims[e]
        /\ at = "unproc" => \A j \in Kind : j \in claims[e] => Holds(e, j)
        /\ at = "unoverlay" =>
             \A j \in Kind \ {"proc"} : j \in claims[e] => Holds(e, j)
        /\ at = "untmpfs" => \A j \in Kind : Holds(e, j) <=> j \in claims[e] \cap {"tmpfs"}
    BY <1>1, <2>4 DEF Held, HeldBy
  <2>6. claims[e] \subseteq Kind  BY DEF IInv, Typed
  <2> SUFFICES ASSUME NEW f \in Execution, Live(f)'
               PROVE  HeldBy(f)'
    BY DEF Held
  <2>7. CASE f = e
    <3>1. /\ "proc" \in claims[e] => "overlay" \in claims[e]
          /\ "overlay" \in claims[e] => "tmpfs" \in claims[e]
      BY <2>4 DEF Flags
    <3>2. CASE at = "unproc"
      BY <1>6, <2>3, <2>5, <2>6, <2>7, <3>1, <3>2 DEF HeldBy, Kind
    <3>3. CASE at = "unoverlay"
      BY <1>6, <2>3, <2>5, <2>6, <2>7, <3>1, <3>3 DEF HeldBy, Kind
    <3>4. CASE at = "untmpfs"
      BY <1>6, <2>3, <2>5, <2>6, <2>7, <3>1, <3>4 DEF HeldBy, Kind
    <3> QED  BY <3>2, <3>3, <3>4
  <2>8. CASE f # e
    BY <1>6, <2>1, <2>2, <2>4, <2>8 DEF Held, HeldBy
  <2> QED  BY <2>7, <2>8
<1>9. next \notin {"tmpfs", "overlay", "proc", "dev", "job"}
  OBVIOUS
<1>10. /\ next \in Pc \ {"new", "over"} /\ Live(e) /\ Goto(e, next)
       /\ UNCHANGED <<dir, there, lower, spoilt>>
  BY <1>1
<1> HIDE DEF ms
<1> QED  BY <1>3, <1>4, <1>7, <1>8, <1>9, <1>10, MountsInv

LEMMA StepInv ==
  ASSUME IInv, NEW e \in Execution, Step(e)
  PROVE  IInv'
<1> USE DisposalAssumption
<1>a. \A l \in {"tmpfs", "unproc", "unoverlay", "untmpfs", "remove", "job", "over"} :
        l \in Pc \ {"new"}
  BY DEF Pc
<1>1. CASE \E d \in Dir : Create(e, d)  BY <1>1, CreateInv
<1>2. CASE Fill(e)
  <2> DEFINE files == lower[dir[e]] \cup {e}
  <2>1. dir[e] \in Dir  BY <1>2 DEF Fill, IInv, Typed
  <2>2. files \in SUBSET Execution  BY <2>1 DEF IInv, Typed
  <2>3. /\ pc[e] = "prepare" /\ Goto(e, "tmpfs") /\ e \in files
        /\ UNCHANGED <<dir, claims, there, mounted, spoilt>>
        /\ lower' = [lower EXCEPT ![dir[e]] = files]
    BY <1>2 DEF Fill
  <2> HIDE DEF files
  <2>4. files \subseteq lower[dir[e]] \cup {e}  BY DEF files
  <2> QED  BY <2>2, <2>3, <2>4, FilesInv
<1>3. CASE PrepareFails(e)
  <2>1. dir[e] \in Dir  BY <1>3 DEF PrepareFails, IInv, Typed
  <2>2. PICK files \in SUBSET Execution :
          /\ lower' = [lower EXCEPT ![dir[e]] = files]
          /\ files \subseteq lower[dir[e]] \cup {e}
    <3>1. PICK new \in {{}, {e}} : lower' = [lower EXCEPT ![dir[e]] = @ \cup new]
      BY <1>3 DEF PrepareFails
    <3>2. lower[dir[e]] \cup new \in SUBSET Execution  BY <2>1 DEF IInv, Typed
    <3> QED  BY <3>1, <3>2
  <2> QED  BY <1>3, <2>2, FilesInv DEF PrepareFails
<1>4. CASE \E k \in Kind : Mount(e, k)  BY <1>4, MountInv
<1>5. CASE \E k \in Kind : MountFails(e, k)
  <2>1. /\ pc[e] \in {"tmpfs", "overlay", "proc"} /\ Goto(e, "unproc") /\ Live(e)
        /\ UNCHANGED <<dir, claims, there, lower, mounted, spoilt>>
    BY <1>5 DEF MountFails, Kind, Live
  <2> QED  BY <2>1, <1>a, GoOnInv
<1>6. CASE PopulateDev(e)
  <2>1. PICK l \in {"job", "unproc"} : Goto(e, l)  BY <1>6 DEF PopulateDev
  <2>2. /\ pc[e] = "dev" /\ Live(e)
        /\ UNCHANGED <<dir, claims, there, lower, mounted, spoilt>>
    BY <1>6 DEF PopulateDev, Live
  <2> QED  BY <2>1, <2>2, <1>a, GoOnInv
<1>7. CASE Job(e)
  BY <1>7, <1>a, GoOnInv DEF Job, Live
<1>8. CASE UmountProc(e)
  <2>1. CASE Skip(e, "unproc", "proc", "unoverlay")
    BY <2>1, <1>a, GoOnInv DEF Skip, Live
  <2>2. CASE Umount(e, "unproc", "proc", "unoverlay")  BY <2>2, UmountInv
  <2>3. CASE ProcStays(e)
    BY <2>3, <1>a, GoOnInv DEF ProcStays, UmountFailing, Live
  <2> QED  BY <1>8, <2>1, <2>2, <2>3 DEF UmountProc
<1>9. CASE UmountOverlay(e)
  <2>1. CASE Skip(e, "unoverlay", "overlay", "untmpfs")
    BY <2>1, <1>a, GoOnInv DEF Skip, Live
  <2>2. CASE Umount(e, "unoverlay", "overlay", "untmpfs")  BY <2>2, UmountInv
  <2>3. CASE GiveUp(e, "unoverlay", "overlay")
    BY <2>3, <1>a, GoOnInv DEF GiveUp, UmountFailing, Live
  <2> QED  BY <1>9, <2>1, <2>2, <2>3 DEF UmountOverlay
<1>10. CASE UmountTmpfs(e)
  <2>1. CASE Skip(e, "untmpfs", "tmpfs", "remove")
    BY <2>1, <1>a, GoOnInv DEF Skip, Live
  <2>2. CASE Umount(e, "untmpfs", "tmpfs", "remove")  BY <2>2, UmountInv
  <2>3. CASE GiveUp(e, "untmpfs", "tmpfs")
    BY <2>3, <1>a, GoOnInv DEF GiveUp, UmountFailing, Live
  <2> QED  BY <1>10, <2>1, <2>2, <2>3 DEF UmountTmpfs
<1>11. CASE Remove(e)
  <2>1. /\ pc[e] = "remove" /\ Goto(e, "over") /\ there' = there \ {dir[e]}
        /\ lower' = [lower EXCEPT ![dir[e]] = {}]
        /\ UNCHANGED <<dir, claims, mounted, spoilt>>
    BY <1>11 DEF Remove
  <2>2. {} \in SUBSET Execution /\ {} \subseteq lower[dir[e]] \cup {e} /\ dir[e] \notin there'
    BY <2>1
  <2> QED  BY <2>1, <2>2, FilesInv
<1>12. CASE RemoveFails(e)
  <2>1. dir[e] \in Dir  BY <1>12 DEF RemoveFails, IInv, Typed
  <2>2. PICK files \in SUBSET Execution :
          /\ lower' = [lower EXCEPT ![dir[e]] = files]
          /\ files \subseteq lower[dir[e]]
    BY <1>12, <2>1 DEF RemoveFails, IInv, Typed
  <2>3. /\ pc[e] = "remove" /\ Goto(e, "over")
        /\ UNCHANGED <<dir, claims, there, mounted>>
        /\ spoilt' \in {spoilt, spoilt \cup {e}}
        /\ e \in spoilt' \/ mounted[dir[e]] # {}
    BY <1>12 DEF RemoveFails
  <2> QED  BY <2>2, <2>3, FilesInv
<1>13. CASE Kill(e)
  BY <1>13, <1>a, GoOnInv DEF Kill
<1> QED
  BY <1>1, <1>2, <1>3, <1>4, <1>5, <1>6, <1>7, <1>8, <1>9, <1>10, <1>11, <1>12, <1>13
  DEF Step

LEMMA StutterInv ==
  ASSUME IInv, UNCHANGED vars  PROVE IInv'
  BY DEF vars, IInv, Typed, Numbered, Turns, OfName, Flags, Held, HeldBy, Holds, Left,
         Filled, Live, Spoilers

LEMMA IInvNext == IInv /\ [Next]_vars => IInv'
  BY StepInv, StutterInv DEF Next, Rest

\* Every execution has what it claims and nobody else's: flags, mounts, files and names
\* agree in every reachable state.
THEOREM MountsClaimed == Spec => []IInv
<1>1. Init => IInv  BY IInvInit
<1>2. IInv /\ [Next]_vars => IInv'  BY IInvNext
<1> QED  BY <1>1, <1>2, PTL DEF Spec

\* Every reachable state is well typed.
THEOREM Typing == Spec => []TypeOK
<1>1. IInv => TypeOK  BY DEF IInv, TypeOK, Flags
<1> QED  BY <1>1, MountsClaimed, PTL

\* Whoever had the name of a workspace before, a job runs on its own execution's files under
\* its own mounts, unless the environment kept one of them from cleaning up.
THEOREM RootsFresh == Spec => []FreshRoot
<1>1. IInv => FreshRoot
  <2> SUFFICES ASSUME IInv, NEW e \in Execution, pc[e] = "job", Spoilers(dir[e]) = {}
               PROVE  lower[dir[e]] = {e} /\ mounted[dir[e]] = Kind \X {e}
    BY DEF FreshRoot
  <2>1. Live(e) /\ dir[e] \in Dir /\ \A f \in spoilt : dir[f] # dir[e]
    BY DEF Live, IInv, Typed, Spoilers
  <2>2. \A f \in Execution : Live(f) /\ dir[f] = dir[e] => f = e
    BY <2>1 DEF IInv, Turns, Live
  <2>3. lower[dir[e]] = {e}
    BY <2>1, <2>2 DEF IInv, Left, Filled, OfName, Typed
  <2>4. \A k \in Kind : <<k, e>> \in mounted[dir[e]]
    BY <2>1 DEF IInv, Held, HeldBy, Holds, Flags
  <2>5. \A k \in Kind, f \in Execution : <<k, f>> \in mounted[dir[e]] => f = e
    BY <2>1, <2>2 DEF IInv, Left, OfName
  <2>6. mounted[dir[e]] \in SUBSET (Kind \X Execution)
    BY <2>1 DEF IInv, Typed
  <2> QED  BY <2>3, <2>4, <2>5, <2>6
<1> QED  BY <1>1, MountsClaimed, PTL

\* Wherever among the mounts an execution failed, it leaves nothing: what is left is of one
\* that the environment kept from cleaning up.
THEOREM NothingLeftBehind == Spec => []NothingLeft
<1>1. IInv => NothingLeft
  <2> SUFFICES ASSUME IInv, NEW d \in Dir
               PROVE  /\ d \in there =>
                           \E e \in Execution : dir[e] = d /\ (Live(e) \/ e \in spoilt)
                      /\ \A m \in mounted[d] :
                           dir[m[2]] = d /\ (Live(m[2]) \/ m[2] \in spoilt)
    BY DEF NothingLeft
  <2>1. mounted[d] \in SUBSET (Kind \X Execution)  BY DEF IInv, Typed
  <2>2. \A k \in Kind, e \in Execution :
          <<k, e>> \in mounted[d] => dir[e] = d /\ (Live(e) \/ e \in spoilt)
    BY DEF IInv, OfName, Left
  <2>3. \A m \in mounted[d] : dir[m[2]] = d /\ (Live(m[2]) \/ m[2] \in spoilt)
    <3> TAKE m \in mounted[d]
    <3>1. PICK k \in Kind, e \in Execution : m = <<k, e>>  BY <2>1
    <3> QED  BY <2>2, <3>1
  <2> QED  BY <2>3 DEF IInv, Left
<1> QED  BY <1>1, MountsClaimed, PTL

\* What remove_dir_all deletes is not below a mount of its own execution.
THEOREM RemovalBare == Spec => []BareRemoval
<1>1. IInv => BareRemoval
  <2> SUFFICES ASSUME IInv, NEW e \in Execution, pc[e] = "remove",
                      NEW m \in mounted[dir[e]]
               PROVE  m[2] # e
    BY DEF BareRemoval
  <2>1. Live(e) /\ dir[e] \in Dir  BY DEF Live, IInv, Typed
  <2>2. mounted[dir[e]] \in SUBSET (Kind \X Execution)  BY <2>1 DEF IInv, Typed
  <2>3. PICK k \in Kind, f \in Execution : m = <<k, f>>  BY <2>2
  <2> QED  BY <2>1, <2>3 DEF IInv, Held, HeldBy, Holds
<1> QED  BY <1>1, MountsClaimed, PTL

\* Unmounting by path only takes off what the same execution mounted.
THEOREM OnlyOwnUnmounted == Spec => OwnMountsOnly
<1>1. IInv /\ [Next]_vars =>
        [\A e \in Execution : Live(e) /\ pc'[e] # pc[e] =>
           mounted[dir[e]] \ mounted'[dir[e]] \subseteq Kind \X {e}]_vars
  <2> SUFFICES ASSUME IInv, NEW e \in Execution, Step(e),
                      NEW f \in Execution, Live(f), pc'[f] # pc[f]
               PROVE  mounted[dir[f]] \ mounted'[dir[f]] \subseteq Kind \X {f}
    BY DEF Next, Rest
  <2>1. f = e /\ dir[f] \in Dir
    <3>1. \E l : Goto(e, l)
      BY DEF Step, Create, Fill, PrepareFails, Mount, MountFails, PopulateDev, Job, UmountProc,
             UmountOverlay, UmountTmpfs, Skip, Umount, ProcStays, GiveUp, Remove,
             RemoveFails, Kill
    <3> QED  BY <3>1 DEF Goto, IInv, Typed, Live
  <2>2. CASE mounted[dir[f]] \subseteq mounted'[dir[f]]  BY <2>2
  <2>3. CASE ~(mounted[dir[f]] \subseteq mounted'[dir[f]])
    <3>1. ~UNCHANGED mounted  BY <2>3
    <3>2. \A k \in Kind : ~Mount(e, k)
      BY <2>1, <2>3 DEF Mount, MountAt, IInv, Typed
    <3>3. PICK at, k, next :
            /\ <<at, k, next>> \in {<<"unproc", "proc", "unoverlay">>,
                                    <<"unoverlay", "overlay", "untmpfs">>,
                                    <<"untmpfs", "tmpfs", "remove">>}
            /\ Umount(e, at, k, next)
      BY <3>1, <3>2 DEF Step, Create, Fill, PrepareFails, MountFails, PopulateDev, Job,
           UmountProc, UmountOverlay, UmountTmpfs, Skip, UmountFailing, ProcStays, GiveUp,
           Remove, RemoveFails, Kill
    <3>4. k \in Kind /\ At(dir[e], k) = {e}
      BY <3>3, AtOwn DEF Umount, Kind
    <3>5. mounted'[dir[e]] =
            mounted[dir[e]] \ ((IF k = "overlay" THEN {"overlay", "proc"} ELSE {k}) \X {e})
      BY <2>1, <3>3, <3>4 DEF Umount, UmountAt, IInv, Typed
    <3> QED  BY <2>1, <3>4, <3>5 DEF Kind
  <2> QED  BY <2>2, <2>3
<1> QED  BY <1>1, MountsClaimed, PTL DEF Spec, OwnMountsOnly
=============================================================================
