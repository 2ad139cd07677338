---------------------------- MODULE TracerProofs ----------------------------
(***************************************************************************)
(* Theorems about Tracer for any set of paths and probes, any ring and any   *)
(* number of events, whether or not attaching fails or the job is killed.    *)
(***************************************************************************)
EXTENDS Tracer, TLAPS

USE ProbeAssumption, GarbledAssumption, RingAssumption

\* The gate stays shut until every probe is attached to a seeded job, so whoever
\* runs behind it is seen.
Gated ==
  /\ main \in {"attach", "gate", "write", "wait", "stop", "join", "collect", "done"} => seeded
  /\ main \in {"gate", "write", "wait", "stop", "join", "collect", "done"} =>
       attached = Probe
  /\ job \in {"host", "image"} \/ orphan => seeded /\ attached = Probe
  /\ job = "image" \/ orphan => inside
  /\ ~unseen

\* A step of the main thread keeps the gate.
LEMMA GatedMain ==
  ASSUME TypeOK, Gated, MainStep \/ StartFails
  PROVE  Gated'
<1> USE DEF Gated, TypeOK
<1>1. CASE Spawn  BY <1>1 DEF Spawn, readerVars
<1>2. CASE Seed  BY <1>2 DEF Seed, jobVars, readerVars
<1>3. ASSUME NEW p \in Probe, Attach(p)  PROVE Gated'
  BY <1>3 DEF Attach, jobVars, readerVars
<1>4. CASE StartReader  BY <1>4 DEF StartReader, jobVars
<1>5. CASE OpenGate  BY <1>5 DEF OpenGate, readerVars
<1>6. CASE WriteGate  BY <1>6 DEF WriteGate, readerVars
<1>7. CASE GateBroken  BY <1>7 DEF GateBroken, jobVars
<1>8. CASE Wait \/ Stop \/ Join \/ Collected
  BY <1>8 DEF Wait, Stop, Join, Collected, jobVars
<1>9. ASSUME NEW path \in sent, Collect(path)  PROVE Gated'
  BY <1>9 DEF Collect, jobVars
<1>10. CASE StartFails  BY <1>10 DEF StartFails, jobVars
<1> QED
  BY <1>1, <1>2, <1>3, <1>4, <1>5, <1>6, <1>7, <1>8, <1>9, <1>10 DEF MainStep

\* A step of the job or of the reader keeps the gate.
LEMMA GatedOthers ==
  ASSUME TypeOK, Gated, JobStep \/ ReaderStep \/ Kill \/ End \/ OrphanEnds \/ Rest
  PROVE  Gated'
<1> USE DEF Gated, TypeOK
<1>1. CASE Park  BY <1>1 DEF Park, mainVars
<1>2. CASE Chroot  BY <1>2 DEF Chroot, mainVars
<1>3. ASSUME NEW path \in Path, NEW p \in Probe, Touch(path, p)  PROVE Gated'
  <2>1. inside /\ p \in attached  BY <1>3 DEF Touch
  <2>2. ~unseen'  BY <1>3, <2>1, Zenon DEF Touch
  <2> QED  BY <1>3, <2>2 DEF Touch, mainVars
<1>4. CASE Kill  BY <1>4 DEF Kill, mainVars
<1>5. CASE End  BY <1>5 DEF End, mainVars
<1>6. CASE OrphanEnds  BY <1>6 DEF OrphanEnds, mainVars
<1>7. CASE Take  BY <1>7 DEF Take, mainVars, jobVars
<1>8. CASE Empty  BY <1>8 DEF Empty, mainVars, jobVars
<1>9. CASE Check  BY <1>9 DEF Check, mainVars, jobVars
<1>10. CASE Rest  BY <1>10 DEF Rest, vars, mainVars, jobVars
<1> QED
  BY <1>1, <1>2, <1>3, <1>4, <1>5, <1>6, <1>7, <1>8, <1>9, <1>10 DEF JobStep, ReaderStep

-----------------------------------------------------------------------------
(* Types *)

\* A step of the main thread keeps the types.
LEMMA TypeMain ==
  ASSUME TypeOK, MainStep \/ StartFails
  PROVE  TypeOK'
<1> USE DEF TypeOK
<1>1. CASE Spawn  BY <1>1 DEF Spawn, readerVars
<1>2. CASE Seed  BY <1>2 DEF Seed, jobVars, readerVars
<1>3. ASSUME NEW p \in Probe, Attach(p)  PROVE TypeOK'
  BY <1>3 DEF Attach, jobVars, readerVars
<1>4. CASE StartReader  BY <1>4 DEF StartReader, jobVars
<1>5. CASE OpenGate  BY <1>5 DEF OpenGate, readerVars
<1>6. CASE WriteGate  BY <1>6 DEF WriteGate, readerVars
<1>7. CASE GateBroken  BY <1>7 DEF GateBroken, jobVars, readerVars
<1>8. CASE Wait \/ Stop \/ Join \/ Collected
  BY <1>8 DEF Wait, Stop, Join, Collected, jobVars, readerVars
<1>9. ASSUME NEW path \in sent, Collect(path)  PROVE TypeOK'
  BY <1>9 DEF Collect, jobVars
<1>10. CASE StartFails  BY <1>10 DEF StartFails, jobVars, readerVars
<1> QED
  BY <1>1, <1>2, <1>3, <1>4, <1>5, <1>6, <1>7, <1>8, <1>9, <1>10 DEF MainStep

\* A step of the job or of the reader keeps the types.
LEMMA TypeOthers ==
  ASSUME TypeOK, JobStep \/ ReaderStep \/ Kill \/ End \/ OrphanEnds \/ Rest
  PROVE  TypeOK'
<1> USE DEF TypeOK
<1>1. CASE Park  BY <1>1 DEF Park, mainVars, readerVars
<1>2. CASE Chroot
  <2>1. inside' \in BOOLEAN  BY <1>2, Zenon DEF Chroot
  <2> QED  BY <1>2, <2>1 DEF Chroot, mainVars, readerVars
<1>3. ASSUME NEW path \in Path, NEW p \in Probe, Touch(path, p)  PROVE TypeOK'
  <2>1. ring' \in Seq(Path) /\ Len(ring') <= RingSize
    <3>1. /\ Append(ring, path) \in Seq(Path)
          /\ Len(Append(ring, path)) = Len(ring) + 1 /\ Len(ring) \in Nat
      OBVIOUS
    <3>2. \/ ring' = ring
          \/ ring' = Append(ring, path) /\ Len(ring) < RingSize
      BY <1>3 DEF Touch, Room
    <3> QED  BY <3>1, <3>2
  <2>2. owed' \subseteq Path  BY <1>3 DEF Touch
  <2>3. unseen' \in BOOLEAN
    BY <1>3, Zenon DEF Touch
  <2> QED  BY <1>3, <2>1, <2>2, <2>3 DEF Touch, mainVars, readerVars
<1>4. CASE Kill  BY <1>4 DEF Kill, mainVars, readerVars
<1>5. CASE End
  <2>1. orphan' \in BOOLEAN  BY <1>5, Zenon DEF End
  <2> QED  BY <1>5, <2>1 DEF End, mainVars, readerVars
<1>6. CASE OrphanEnds
  <2>1. orphan' \in BOOLEAN  BY <1>6, Zenon DEF OrphanEnds
  <2> QED  BY <1>6, <2>1 DEF OrphanEnds, mainVars, readerVars
<1>7. CASE Take
  <2>1. /\ Head(ring) \in Path /\ Tail(ring) \in Seq(Path)
        /\ Len(Tail(ring)) = Len(ring) - 1
    BY <1>7 DEF Take
  <2>2. sent' \subseteq Path \ Garbled  BY <1>7, <2>1 DEF Take
  <2>3. reader' \in [pc : {"none", "drain", "check", "gone"}, drained : BOOLEAN]
    BY <1>7 DEF Take
  <2>4. ring' \in Seq(Path) /\ Len(ring') <= RingSize
    BY <1>7, <2>1 DEF Take
  <2> QED  BY <1>7, <2>2, <2>3, <2>4 DEF Take, mainVars, jobVars
<1>8. CASE Empty  BY <1>8 DEF Empty, mainVars, jobVars
<1>9. CASE Check
  <2>1. looked' \in BOOLEAN  BY <1>9, Zenon DEF Check
  <2>2. reader' \in [pc : {"none", "drain", "check", "gone"}, drained : BOOLEAN]
    <3>1. CASE reader' = [reader EXCEPT !.pc = "gone"]  BY <3>1
    <3>2. CASE reader' = [pc |-> "drain", drained |-> FALSE]  BY <3>2
    <3> QED  BY <1>9, <3>1, <3>2, Zenon DEF Check
  <2> QED  BY <1>9, <2>1, <2>2 DEF Check, mainVars, jobVars
<1>10. CASE Rest  BY <1>10 DEF Rest, vars, mainVars, jobVars, readerVars
<1> QED
  BY <1>1, <1>2, <1>3, <1>4, <1>5, <1>6, <1>7, <1>8, <1>9, <1>10 DEF JobStep, ReaderStep

\* Every step keeps the types and the gate.
LEMMA GatedNext == TypeOK /\ Gated /\ [Next]_vars => TypeOK' /\ Gated'
<1> SUFFICES ASSUME TypeOK, Gated, [Next]_vars  PROVE TypeOK' /\ Gated'
  OBVIOUS
<1>1. CASE UNCHANGED vars
  BY <1>1 DEF vars, mainVars, jobVars, readerVars, TypeOK, Gated
<1> QED  BY <1>1, GatedMain, GatedOthers, TypeMain, TypeOthers DEF Next

\* The types and the gate hold initially.
LEMMA GatedInit == Init => TypeOK /\ Gated
<1>1. Init => Gated  BY DEF Init, Gated
<1>2. ASSUME Init  PROVE TypeOK
  <2>1. ring \in Seq(Path) /\ Len(ring) <= RingSize
    BY <1>2 DEF Init
  <2>2. reader \in [pc : {"none", "drain", "check", "gone"}, drained : BOOLEAN]
    BY <1>2 DEF Init
  <2>3. /\ seeded \in BOOLEAN /\ orphan \in BOOLEAN /\ inside \in BOOLEAN
        /\ stopping \in BOOLEAN /\ unseen \in BOOLEAN /\ looked \in BOOLEAN
    BY <1>2, Zenon DEF Init
  <2>4. /\ main = "spawn" /\ job = "none" /\ attached = {} /\ owed = {}
        /\ sent = {} /\ result = {}
    BY <1>2 DEF Init
  <2> QED  BY <2>1, <2>2, <2>3, <2>4 DEF TypeOK
<1> QED  BY <1>1, <1>2

\* Every variable keeps its type: the ring never holds more than its size, and what
\* does not decode never gets to the channel.
THEOREM Typing == Spec => []TypeOK
  BY GatedInit, GatedNext, PTL DEF Spec

\* No call the job makes inside its root escapes the tracer, whatever the order in
\* which probes attach and whatever fails on the way.
THEOREM NoBlindSpot == Spec => []NothingUnseen
<1>1. Gated => NothingUnseen  BY DEF Gated, NothingUnseen
<1> QED  BY GatedInit, GatedNext, <1>1, PTL DEF Spec

-----------------------------------------------------------------------------
(* What reaches the result *)

\* What is owed is on its way: in the ring, in the channel or in the result; and a
\* reader that looked when the job was over leaves nothing of it in the ring.
Delivered ==
  /\ owed \ Garbled \subseteq result \cup sent \cup ToSet(ring)
  /\ looked => job = "over" /\ reader.pc # "none"
  /\ looked /\ reader.pc \in {"check", "gone"} => owed \ Garbled \subseteq result \cup sent
  /\ main \in {"collect", "done"} => reader.pc = "gone"
  /\ main \in {"spawn", "seed", "attach"} => reader.pc = "none"
  /\ main = "done" => sent = {}

\* Appending adds one element.
LEMMA ToSetAppend ==
  ASSUME NEW s \in Seq(Path), NEW x \in Path
  PROVE  ToSet(Append(s, x)) = ToSet(s) \cup {x}
<1>1. /\ Len(s) \in Nat /\ DOMAIN s = 1..Len(s)
      /\ DOMAIN Append(s, x) = 1..(Len(s) + 1)
      /\ \A i \in 1..Len(s) : Append(s, x)[i] = s[i]
      /\ Append(s, x)[Len(s) + 1] = x
  OBVIOUS
<1>2. ASSUME NEW i \in DOMAIN Append(s, x)  PROVE Append(s, x)[i] \in ToSet(s) \cup {x}
  BY <1>1 DEF ToSet
<1>3. ASSUME NEW i \in DOMAIN s  PROVE s[i] \in ToSet(Append(s, x))
  BY <1>1 DEF ToSet
<1>4. x \in ToSet(Append(s, x))  BY <1>1 DEF ToSet
<1> QED  BY <1>2, <1>3, <1>4 DEF ToSet

\* A sequence is its head and its tail.
LEMMA ToSetTail ==
  ASSUME NEW s \in Seq(Path), s # <<>>
  PROVE  ToSet(s) = {Head(s)} \cup ToSet(Tail(s))
<1>1. /\ Len(s) \in Nat \ {0} /\ Head(s) = s[1]
      /\ Tail(s) \in Seq(Path) /\ Len(Tail(s)) = Len(s) - 1
      /\ DOMAIN s = 1..Len(s) /\ DOMAIN Tail(s) = 1..(Len(s) - 1)
      /\ \A i \in 1..(Len(s) - 1) : Tail(s)[i] = s[i + 1]
  OBVIOUS
<1>2. ASSUME NEW i \in DOMAIN s  PROVE s[i] \in {Head(s)} \cup ToSet(Tail(s))
  <2>1. CASE i = 1  BY <1>1, <2>1
  <2>2. CASE i # 1
    <3>1. i - 1 \in DOMAIN Tail(s) /\ Tail(s)[i - 1] = s[i]  BY <1>1, <2>2
    <3> QED  BY <3>1 DEF ToSet
  <2> QED  BY <2>1, <2>2
<1>3. ASSUME NEW i \in DOMAIN Tail(s)  PROVE Tail(s)[i] \in ToSet(s)
  BY <1>1 DEF ToSet
<1>4. Head(s) \in ToSet(s)  BY <1>1 DEF ToSet
<1> QED  BY <1>1, <1>2, <1>3, <1>4 DEF ToSet

\* A step of the main thread delivers what it takes from the channel.
LEMMA DeliveredMain ==
  ASSUME TypeOK, Delivered, MainStep \/ StartFails
  PROVE  Delivered'
<1> USE DEF Delivered, TypeOK
<1>1. CASE Spawn  BY <1>1 DEF Spawn, readerVars
<1>2. CASE Seed  BY <1>2 DEF Seed, jobVars, readerVars
<1>3. ASSUME NEW p \in Probe, Attach(p)  PROVE Delivered'
  BY <1>3 DEF Attach, jobVars, readerVars
<1>4. CASE StartReader  BY <1>4 DEF StartReader, jobVars
<1>5. CASE OpenGate  BY <1>5 DEF OpenGate, readerVars
<1>6. CASE WriteGate  BY <1>6 DEF WriteGate, readerVars
<1>7. CASE GateBroken  BY <1>7 DEF GateBroken, jobVars, readerVars
<1>8. CASE Wait \/ Stop \/ Join \/ Collected
  BY <1>8 DEF Wait, Stop, Join, Collected, jobVars, readerVars
<1>9. ASSUME NEW path \in sent, Collect(path)  PROVE Delivered'
  BY <1>9 DEF Collect, jobVars
<1>10. CASE StartFails  BY <1>10 DEF StartFails, jobVars, readerVars
<1> QED
  BY <1>1, <1>2, <1>3, <1>4, <1>5, <1>6, <1>7, <1>8, <1>9, <1>10 DEF MainStep

\* A step of the job or of the reader.
LEMMA DeliveredOthers ==
  ASSUME TypeOK, Gated, Delivered,
         JobStep \/ ReaderStep \/ Kill \/ End \/ OrphanEnds \/ Rest
  PROVE  Delivered'
<1> USE DEF Delivered, TypeOK
<1>1. CASE Park  BY <1>1 DEF Park, mainVars, readerVars
<1>2. CASE Chroot  BY <1>2 DEF Chroot, mainVars, readerVars
<1>3. ASSUME NEW path \in Path, NEW p \in Probe, Touch(path, p)  PROVE Delivered'
  <2>1. inside /\ p \in attached  BY <1>3 DEF Touch, Gated
  <2>2. \/ ring' = ring /\ owed' = owed
        \/ /\ ring' = Append(ring, path)
           /\ owed' = owed \/ (job = "image" /\ owed' = owed \cup {path})
    BY <1>3, <2>1 DEF Touch
  <2>3. ToSet(Append(ring, path)) = ToSet(ring) \cup {path}
    BY ToSetAppend
  <2>4. (owed \ Garbled \subseteq result \cup sent \cup ToSet(ring))'
    BY <1>3, <2>2, <2>3 DEF Touch, mainVars, readerVars
  <2>5. looked => owed' = owed  BY <2>2
  <2> QED  BY <1>3, <2>4, <2>5 DEF Touch, mainVars, readerVars
<1>4. CASE Kill  BY <1>4 DEF Kill, mainVars, readerVars
<1>5. CASE End  BY <1>5 DEF End, mainVars, readerVars
<1>6. CASE OrphanEnds  BY <1>6 DEF OrphanEnds, mainVars, readerVars
<1>7. CASE Take
  <2>1. ToSet(ring) = {Head(ring)} \cup ToSet(ring')
    BY <1>7, ToSetTail DEF Take
  <2>2. (owed \ Garbled \subseteq result \cup sent \cup ToSet(ring))'
    BY <1>7, <2>1 DEF Take, mainVars, jobVars
  <2> QED  BY <1>7, <2>2 DEF Take, mainVars, jobVars
<1>8. CASE Empty
  <2>1. ToSet(ring) = {}  BY <1>8 DEF Empty, ToSet
  <2> QED  BY <1>8, <2>1 DEF Empty, mainVars, jobVars
<1>9. CASE Check  BY <1>9 DEF Check, mainVars, jobVars
<1>10. CASE Rest  BY <1>10 DEF Rest, vars, mainVars, jobVars, readerVars
<1> QED
  BY <1>1, <1>2, <1>3, <1>4, <1>5, <1>6, <1>7, <1>8, <1>9, <1>10 DEF JobStep, ReaderStep

\* If the reader began to look after the job was over, every event the job had
\* submitted and that decodes is in the result.
THEOREM LookedKeepsAll == Spec => []KeptIfLooked
<1>1. Init => Delivered
  BY DEF Init, Delivered
<1>2. TypeOK /\ Gated /\ Delivered /\ [Next]_vars => Delivered'
  <2> SUFFICES ASSUME TypeOK, Gated, Delivered, [Next]_vars  PROVE Delivered'
    OBVIOUS
  <2>1. CASE UNCHANGED vars
    BY <2>1 DEF vars, mainVars, jobVars, readerVars, Delivered
  <2> QED  BY <2>1, DeliveredMain, DeliveredOthers DEF Next
<1>3. Delivered => KeptIfLooked
  BY DEF Delivered, KeptIfLooked, AllKept
<1> QED  BY GatedInit, GatedNext, <1>1, <1>2, <1>3, PTL DEF Spec
=============================================================================
