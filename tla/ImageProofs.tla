---------------------------- MODULE ImageProofs ----------------------------
(***************************************************************************)
(* Theorems about what becomes of an image: Layers, for any paths, entries    *)
(* and images; and PullCommand, for any registry, archive and socket.         *)
(***************************************************************************)
EXTENDS Layers, PullCommand, SequenceTheorems, TLAPS

-----------------------------------------------------------------------------
(* The layers of an image and the union of them *)

File(p) == [kind |-> "file", path |-> p]

\* A file comes from its layer, a directory from an entry at or below it, and nothing has
\* taken them away since.
Origin ==
  \A p \in Path :
    /\ \A l \in 1 .. layer : tree[p] = <<"file", l>> =>
         /\ File(p) \in Entries(l) /\ ~TakenAway(p, l, layer)
         /\ \A k \in l + 1 .. layer : File(p) \notin Entries(k)
    /\ tree[p] = Dir =>
         \E l \in 1 .. layer : \E g \in Entries(l) :
           Gives(g, p) /\ g # File(p) /\ ~TakenAway(p, l, layer)

\* What is not there, though a layer gave it, has been taken away, or has met a file.
Excused(p) == Late(p) \/ \E q \in Above[p] \cup {p} : Conflict(q)
Lost ==
  \A p \in Path : tree[p] = Nothing =>
    \A l \in 1 .. layer : \A g \in Entries(l) :
      Gives(g, p) => TakenAway(p, l, layer) \/ Excused(p)

IInv == TypeOK /\ Origin /\ Lost

LEMMA Nodes == \A l : Dir # Nothing /\ <<"file", l>> # Nothing /\ <<"file", l>> # Dir
BY DEF Dir, Nothing

LEMMA IInvInit == Init => IInv
<1> SUFFICES ASSUME Init  PROVE IInv
  OBVIOUS
<1>1. image = <<<<>>>> /\ layer = 1 /\ Entries(1) = {} /\ pc = "layers"
      /\ \A p \in Path : tree[p] = Nothing
  BY DEF Init, layer, Entries
<1>2. TypeOK
  <2>1. <<>> \in Seq(Entry)  OBVIOUS
  <2>2. image \in Seq(Seq(Entry))  BY <1>1, <2>1
  <2> QED  BY <1>1, <2>2 DEF TypeOK, Init
<1>3. Origin  BY <1>1, Nodes DEF Origin
<1>4. Lost  BY <1>1 DEF Lost
<1> QED  BY <1>2, <1>3, <1>4 DEF IInv

-----------------------------------------------------------------------------
(* Reading an entry *)

LEMMA ReadImage ==
  ASSUME TypeOK, NEW e \in Entry, Read(e)
  PROVE  /\ layer' = layer /\ layer \in Nat \ {0} /\ image' \in Seq(Seq(Entry))
         /\ image[layer] \in Seq(Entry)
         /\ image'[layer] = Append(image[layer], e)
         /\ \A l \in 1 .. layer : l # layer => image'[l] = image[l]
<1>1. layer \in Nat \ {0} /\ image \in Seq(Seq(Entry)) /\ image[layer] \in Seq(Entry)
  BY DEF TypeOK, layer
<1>2. image' = [image EXCEPT ![layer] = Append(@, e)]  BY DEF Read
<1>3. layer' = layer  BY <1>1, <1>2 DEF layer
<1>4. Append(image[layer], e) \in Seq(Entry)  BY <1>1
<1>5. image' \in Seq(Seq(Entry))  BY <1>1, <1>2, <1>4 DEF layer
<1>6. image'[layer] = Append(image[layer], e)
      /\ \A l \in 1 .. layer : l # layer => image'[l] = image[l]
  BY <1>1, <1>2 DEF layer
<1> QED  BY <1>1, <1>3, <1>5, <1>6

LEMMA ReadEntry ==
  ASSUME TypeOK, NEW e \in Entry, Read(e)
  PROVE  /\ Entries(layer)' = Entries(layer) \cup {e}
         /\ \A l \in 1 .. layer : l # layer => Entries(l)' = Entries(l)
<1>1. \A l \in 1 .. layer : l # layer => Entries(l)' = Entries(l)
  BY ReadImage DEF Entries
<1>2. Entries(layer)' = {image'[layer][i] : i \in DOMAIN image'[layer]}
  BY ReadImage DEF Entries
<1>3. DOMAIN image'[layer] = 1 .. Len(image[layer]) + 1  BY ReadImage
<1>4. DOMAIN image[layer] = 1 .. Len(image[layer]) /\ Len(image[layer]) \in Nat
  BY ReadImage
<1>5. \A i \in 1 .. Len(image[layer]) : image'[layer][i] = image[layer][i]
  BY ReadImage
<1>6. image'[layer][Len(image[layer]) + 1] = e
  BY ReadImage
<1>7. DOMAIN image'[layer] = DOMAIN image[layer] \cup {Len(image[layer]) + 1}
  BY <1>3, <1>4
<1>8. \A x : x \in Entries(layer)' <=> x \in Entries(layer) \/ x = e
  BY <1>2, <1>4, <1>5, <1>6, <1>7 DEF Entries
<1> QED  BY <1>1, <1>8

\* A path the entry does not take away.
LEMMA ReadOver ==
  ASSUME TypeOK, NEW e \in Entry, Read(e), NEW p \in Path, ~Takes(e, p)
  PROVE  /\ \A l, k \in 1 .. layer : TakenAway(p, l, k)' <=> TakenAway(p, l, k)
         /\ Conflict(p) => Conflict(p)'
<1>1. /\ layer' = layer /\ layer \in Nat \ {0}
      /\ \A l \in 1 .. layer : Entries(l) \subseteq Entries(l)'
      /\ \A l \in 1 .. layer : Entries(l)' \subseteq Entries(l) \cup {e}
  BY ReadEntry, ReadImage
<1>2. \A l, k \in 1 .. layer : TakenAway(p, l, k)' <=> TakenAway(p, l, k)
  BY <1>1 DEF TakenAway
<1>3. Conflict(p) => Conflict(p)'
  <2> HAVE Conflict(p)
  <2>1. PICK l \in 1 .. layer : \E k \in l .. layer : \E a \in Entries(l), g \in Entries(k) :
          /\ Gives(a, p) /\ Gives(g, p) /\ (a = File(p)) # (g = File(p))
          /\ ~TakenAway(p, l, k)
    BY DEF Conflict, File
  <2>2. PICK k \in l .. layer : \E a \in Entries(l), g \in Entries(k) :
          /\ Gives(a, p) /\ Gives(g, p) /\ (a = File(p)) # (g = File(p))
          /\ ~TakenAway(p, l, k)
    BY <2>1
  <2>3. ~TakenAway(p, l, k)'  BY <1>1, <1>2, <2>2
  <2> QED  BY <1>1, <2>2, <2>3 DEF Conflict, File
<1> QED  BY <1>2, <1>3

LEMMA ReadLate ==
  ASSUME TypeOK, NEW e \in Entry, Read(e), NEW p \in Path
  PROVE  /\ Late(p) => Late(p)'
         /\ \A g \in Entries(layer) : Gives(g, p) /\ Takes(e, p) => Late(p)'
         /\ \A l \in 1 .. layer : TakenAway(p, l, layer) => TakenAway(p, l, layer)'
<1>1. layer' = layer /\ layer \in Nat \ {0} /\ image[layer] \in Seq(Entry)
  BY ReadImage
<1>3. image'[layer] = Append(image[layer], e)
      /\ \A l \in 1 .. layer : l # layer => image'[l] = image[l]
  BY ReadImage
<1>4. /\ \A i \in DOMAIN image[layer] :
           i \in DOMAIN image'[layer] /\ image'[layer][i] = image[layer][i]
      /\ \A i \in DOMAIN image[layer] : i < Len(image[layer]) + 1
      /\ Len(image[layer]) + 1 \in DOMAIN image'[layer]
      /\ image'[layer][Len(image[layer]) + 1] = e
  BY <1>1, <1>3
<1>5. Late(p) => Late(p)'
  <2> HAVE Late(p)
  <2>1. PICK l \in 1 .. layer : \E i, j \in DOMAIN image[l] :
          i < j /\ Gives(image[l][i], p) /\ Takes(image[l][j], p)
    BY DEF Late
  <2>2. \A i \in DOMAIN image[l] : i \in DOMAIN image'[l] /\ image'[l][i] = image[l][i]
    BY <1>3, <1>4, <2>1
  <2> QED  BY <1>1, <2>1, <2>2 DEF Late
<1>6. \A g \in Entries(layer) : Gives(g, p) /\ Takes(e, p) => Late(p)'
  BY <1>1, <1>4 DEF Entries, Late
<1>7. \A l \in 1 .. layer : Entries(l) \subseteq Entries(l)'  BY ReadEntry, ReadImage
<1>8. \A l \in 1 .. layer : TakenAway(p, l, layer) => TakenAway(p, l, layer)'
  BY <1>1, <1>7 DEF TakenAway
<1> QED  BY <1>5, <1>6, <1>8

-----------------------------------------------------------------------------
(* What gives a path, and what takes it away *)

LEMMA EntryFields ==
  ASSUME NEW e \in Entry
  PROVE  e.path \in Path /\ e.kind \in {"dir", "file", "whiteout", "opaque"}
BY LayersAssumption DEF AnyEntry

LEMMA Reach ==
  ASSUME NEW e \in Entry, NEW p \in Path
  PROVE  /\ e = File(p) <=> e.kind = "file" /\ e.path = p
         /\ ~(Gives(e, p) /\ \E q \in Path : Takes(e, q))
         /\ e.kind = "whiteout" => (Takes(e, p) <=> p \in {e.path} \cup Below(e.path))
         /\ e.kind = "opaque" => (Takes(e, p) <=> p \in Below(e.path))
         /\ \A q \in Above[p] : Takes(e, q) => Takes(e, p)
         /\ \A q \in Above[p] : Gives(e, p) => Gives(e, q) /\ e # File(q)
<1>1. e \in AnyEntry  BY LayersAssumption
<1>2. e.path \in Path /\ e.kind \in {"dir", "file", "whiteout", "opaque"}
  BY EntryFields
<1>3. e = File(p) <=> e.kind = "file" /\ e.path = p
  BY <1>1 DEF AnyEntry, File
<1>4. \A q \in Above[p] :
        /\ q \in Path /\ p \notin Above[p] /\ p \notin Above[q]
        /\ Above[q] \subseteq Above[p]
        /\ \A r \in Path : p \in Above[r] => q \in Above[r]
  BY LayersAssumption
<1>5. \A q \in Above[p] : e = File(q) <=> e.kind = "file" /\ e.path = q
  BY <1>1, <1>4 DEF AnyEntry, File
<1> QED  BY <1>2, <1>3, <1>4, <1>5 DEF Gives, Takes, Below

\* The parts of the invariant that concern a path an unpacked or skipped entry leaves alone.
LEMMA SamePath ==
  ASSUME IInv, NEW e \in Entry, Read(e), e.kind \in {"dir", "file"},
         NEW p \in Path, tree'[p] = tree[p]
  PROVE  /\ \A l \in 1 .. layer' : tree'[p] = <<"file", l>> /\ e # File(p) =>
              /\ File(p) \in Entries(l)' /\ ~TakenAway(p, l, layer)'
              /\ \A k \in l + 1 .. layer' : File(p) \notin Entries(k)'
         /\ tree'[p] = Dir => \E l \in 1 .. layer' : \E g \in Entries(l)' :
              Gives(g, p) /\ g # File(p) /\ ~TakenAway(p, l, layer)'
         /\ Excused(p) => Excused(p)'
         /\ tree'[p] = Nothing /\ ~Gives(e, p) => \A l \in 1 .. layer' : \A g \in Entries(l)' :
              Gives(g, p) => TakenAway(p, l, layer)' \/ Excused(p)'
<1>1. TypeOK /\ layer' = layer /\ layer \in Nat \ {0}  BY ReadImage DEF IInv
<1>2. \A q \in Path : ~Takes(e, q)  BY DEF Takes
<1>3. \A l \in 1 .. layer : Entries(l) \subseteq Entries(l)'
                            /\ Entries(l)' \subseteq Entries(l) \cup {e}
  BY <1>1, ReadEntry
<1>4. \A q \in Path : \A l, k \in 1 .. layer : TakenAway(q, l, k)' <=> TakenAway(q, l, k)
  BY <1>1, <1>2, ReadOver
<1>5. \A q \in Path : Conflict(q) => Conflict(q)'  BY <1>1, <1>2, ReadOver
<1>6. Late(p) => Late(p)'  BY <1>1, ReadLate
<1>7. Above[p] \subseteq Path  BY LayersAssumption
<1>8. Excused(p) => Excused(p)'  BY <1>5, <1>6, <1>7 DEF Excused
<1>9. \A l \in 1 .. layer : ~TakenAway(p, l, layer) => ~TakenAway(p, l, layer)'
  BY <1>1, <1>4
<1>10. ASSUME NEW l \in 1 .. layer', tree'[p] = <<"file", l>>, e # File(p)
       PROVE  /\ File(p) \in Entries(l)' /\ ~TakenAway(p, l, layer)'
              /\ \A k \in l + 1 .. layer' : File(p) \notin Entries(k)'
  <2>1. l \in 1 .. layer /\ File(p) \in Entries(l) /\ ~TakenAway(p, l, layer)
        /\ \A k \in l + 1 .. layer : File(p) \notin Entries(k)
    BY <1>1, <1>10 DEF IInv, Origin
  <2> QED  BY <1>1, <1>3, <1>9, <1>10, <2>1
<1>11. ASSUME tree'[p] = Dir
       PROVE  \E l \in 1 .. layer' : \E g \in Entries(l)' :
                Gives(g, p) /\ g # File(p) /\ ~TakenAway(p, l, layer)'
  <2>1. PICK l \in 1 .. layer : \E g \in Entries(l) :
               Gives(g, p) /\ g # File(p) /\ ~TakenAway(p, l, layer)
    BY <1>11 DEF IInv, Origin
  <2> QED  BY <1>1, <1>3, <1>9, <2>1
<1>12. ASSUME tree'[p] = Nothing, ~Gives(e, p),
              NEW l \in 1 .. layer', NEW g \in Entries(l)', Gives(g, p)
       PROVE  TakenAway(p, l, layer)' \/ Excused(p)'
  <2>1. l \in 1 .. layer /\ g \in Entries(l)  BY <1>1, <1>3, <1>12
  <2>2. TakenAway(p, l, layer) \/ Excused(p)  BY <2>1, <1>12 DEF IInv, Lost
  <2> QED  BY <1>1, <1>8, <2>1, <2>2, ReadLate
<1> QED  BY <1>8, <1>10, <1>11, <1>12

-----------------------------------------------------------------------------
(* Each step *)

LEMMA UnpackInv ==
  ASSUME IInv, NEW e \in Entry, UnpackDir(e) \/ UnpackFile(e)
  PROVE  IInv'
<1> DEFINE node == IF e.kind = "dir" THEN Dir ELSE <<"file", layer>>
<1>1. /\ Read(e) /\ Fits(e) /\ e.kind \in {"dir", "file"} /\ e.path \in Path
      /\ tree' = [q \in Path |->
                    IF q = e.path THEN node ELSE IF q \in Above[e.path] THEN Dir ELSE tree[q]]
  BY EntryFields DEF UnpackDir, UnpackFile, WithParents
<1>2. TypeOK /\ layer' = layer /\ layer \in Nat \ {0} /\ image' \in Seq(Seq(Entry))
      /\ pc' = pc
  BY <1>1, ReadImage DEF IInv, Read
<1>3. \A q \in Above[e.path] : q \in Path /\ q # e.path /\ Above[q] \subseteq Above[e.path]
  BY <1>1, LayersAssumption
<1>4. \A p \in Path : p # e.path /\ p \notin Above[e.path] => tree'[p] = tree[p]
  BY <1>1
<1>5. e \in Entries(layer)' /\ \A p \in Path, l \in 1 .. layer :
        l = layer => ~TakenAway(p, l, layer)'
  BY <1>1, <1>2, ReadEntry DEF TakenAway
<1>6. TypeOK'
  <2>1. tree' \in [Path -> {Nothing, Dir} \cup ({"file"} \X (1 .. layer))]
    BY <1>1, <1>2 DEF TypeOK
  <2>2. ASSUME NEW p \in Path, tree'[p] # Nothing, NEW q \in Above[p]
        PROVE  tree'[q] = Dir
    <3>1. q \in Path /\ q # p /\ (p \in Above[e.path] => q \in Above[e.path])
      BY <1>3, LayersAssumption
    <3>2. CASE p = e.path \/ p \in Above[e.path]
      BY <1>1, <1>3, <3>1, <3>2
    <3>3. CASE p # e.path /\ p \notin Above[e.path]
      <4>1. tree[q] = Dir  BY <1>2, <1>4, <2>2, <3>3 DEF TypeOK
      <4>2. q = e.path => node = Dir
        BY <1>1, <4>1, Nodes DEF Fits
      <4> QED  BY <1>1, <3>1, <4>1, <4>2
    <3> QED  BY <3>2, <3>3
  <2> QED  BY <1>2, <2>1, <2>2 DEF TypeOK
<1>7. Origin'
  <2> SUFFICES ASSUME NEW p \in Path
               PROVE  /\ \A l \in 1 .. layer' : tree'[p] = <<"file", l>> =>
                           /\ File(p) \in Entries(l)' /\ ~TakenAway(p, l, layer)'
                           /\ \A k \in l + 1 .. layer' : File(p) \notin Entries(k)'
                      /\ tree'[p] = Dir => \E l \in 1 .. layer' : \E g \in Entries(l)' :
                           Gives(g, p) /\ g # File(p) /\ ~TakenAway(p, l, layer)'
    BY DEF Origin, File
  <2>1. CASE p = e.path /\ e.kind = "file"
    <3>1. e = File(p)  BY <1>1, <2>1, Reach
    <3>2. tree'[p] = <<"file", layer>> /\ tree'[p] # Dir  BY <1>1, <2>1, Nodes
    <3>3. \A l : tree'[p] = <<"file", l>> => l = layer  BY <3>2
    <3> QED  BY <1>2, <1>5, <3>1, <3>2, <3>3
  <2>2. CASE (p = e.path /\ e.kind = "dir") \/ p \in Above[e.path]
    <3>1. tree'[p] = Dir  BY <1>1, <1>3, <2>2
    <3>2. Gives(e, p) /\ e # File(p)  BY <1>1, <1>3, <2>2, Reach DEF Gives
    <3> QED  BY <1>2, <1>5, <3>1, <3>2, Nodes
  <2>3. CASE p # e.path /\ p \notin Above[e.path]
    <3>1. e # File(p)  BY <2>3, Reach
    <3> QED  BY <1>1, <1>4, <2>3, <3>1, SamePath
  <2> QED  BY <1>1, <2>1, <2>2, <2>3
<1>8. Lost'
  <2> SUFFICES ASSUME NEW p \in Path, tree'[p] = Nothing
               PROVE  \A l \in 1 .. layer' : \A g \in Entries(l)' :
                        Gives(g, p) => TakenAway(p, l, layer)' \/ Excused(p)'
    BY DEF Lost
  <2>1. p # e.path /\ p \notin Above[e.path]  BY <1>1, <1>3, Nodes
  <2>2. ~Gives(e, p)  BY <2>1 DEF Gives
  <2> QED  BY <1>1, <1>4, <2>1, <2>2, SamePath
<1> QED  BY <1>6, <1>7, <1>8 DEF IInv

LEMMA SkipInv ==
  ASSUME IInv, NEW e \in Entry, Skip(e)
  PROVE  IInv'
<1>1. /\ Read(e) /\ ~Fits(e) /\ e.kind \in {"dir", "file"} /\ e.path \in Path
      /\ tree' = tree
  BY EntryFields DEF Skip
<1>2. TypeOK /\ layer' = layer /\ layer \in Nat \ {0} /\ image' \in Seq(Seq(Entry))
      /\ pc' = pc
  BY <1>1, ReadImage DEF IInv, Read
<1>3. TypeOK'  BY <1>1, <1>2 DEF TypeOK
<1>4. Origin'
  <2> SUFFICES ASSUME NEW p \in Path
               PROVE  /\ \A l \in 1 .. layer' : tree'[p] = <<"file", l>> =>
                           /\ File(p) \in Entries(l)' /\ ~TakenAway(p, l, layer)'
                           /\ \A k \in l + 1 .. layer' : File(p) \notin Entries(k)'
                      /\ tree'[p] = Dir => \E l \in 1 .. layer' : \E g \in Entries(l)' :
                           Gives(g, p) /\ g # File(p) /\ ~TakenAway(p, l, layer)'
    BY DEF Origin, File
  <2>1. ASSUME NEW l \in 1 .. layer', tree[p] = <<"file", l>>
        PROVE  e # File(p)
    <3> SUFFICES ASSUME e.kind = "file", e.path = p  PROVE FALSE
      BY Reach
    <3>1. \A q \in Above[p] : tree[q] = Dir  BY <1>2, <2>1, Nodes DEF TypeOK
    <3> QED  BY <1>1, <2>1, <3>1, Nodes DEF Fits
  <2> QED  BY <1>1, <2>1, SamePath
<1>5. Lost'
  <2> SUFFICES ASSUME NEW p \in Path, tree[p] = Nothing
               PROVE  \A l \in 1 .. layer' : \A g \in Entries(l)' :
                        Gives(g, p) => TakenAway(p, l, layer)' \/ Excused(p)'
    BY <1>1 DEF Lost
  <2>1. CASE ~Gives(e, p)  BY <1>1, <2>1, SamePath
  <2>2. CASE Gives(e, p)
    <3>1. p = e.path \/ p \in Above[e.path]  BY <2>2 DEF Gives
    <3>2. Above[e.path] \subseteq Path
      BY <1>1, LayersAssumption
    <3>3. tree[e.path] = Nothing
      BY <1>1, <1>2, <3>1, Nodes DEF TypeOK
    <3>4. PICK q \in Above[e.path] : tree[q] \notin {Nothing, Dir}
      BY <1>1, <3>3 DEF Fits
    <3>5. PICK l \in 1 .. layer : tree[q] = <<"file", l>>
      BY <1>2, <3>2, <3>4 DEF TypeOK
    <3>6. q \in Path /\ q # p /\ p \notin Above[q]
      BY <1>2, <3>2, <3>4, Nodes DEF TypeOK
    <3>7. q \in Above[p]  BY <1>1, <3>1, <3>4, <3>6, LayersAssumption
    <3>8. File(q) \in Entries(l) /\ ~TakenAway(q, l, layer)
      BY <3>5, <3>6 DEF IInv, Origin
    <3>9. Gives(e, q) /\ e # File(q) /\ Gives(File(q), q)
      BY <2>2, <3>7, Reach DEF Gives, File
    <3>10. ~Takes(e, q)  BY <1>1 DEF Takes
    <3>11. e \in Entries(layer)' /\ File(q) \in Entries(l)' /\ ~TakenAway(q, l, layer)'
      BY <1>1, <1>2, <3>6, <3>8, <3>10, ReadEntry, ReadOver
    <3>12. layer' \in l .. layer' /\ l \in 1 .. layer'  BY <1>2
    <3>13. \E a \in Entries(l)', g \in Entries(layer)' :
             Gives(a, q) /\ Gives(g, q) /\ (a = File(q)) # (g = File(q))
      BY <3>9, <3>11
    <3>14. Conflict(q)'
      BY <1>2, <3>11, <3>12, <3>13 DEF Conflict, File
    <3> QED  BY <3>7, <3>14 DEF Excused
  <2> QED  BY <2>1, <2>2
<1> QED  BY <1>3, <1>4, <1>5 DEF IInv

LEMMA ClearInv ==
  ASSUME IInv, NEW e \in Entry, Whiteout(e) \/ Opaque(e)
  PROVE  IInv'
<1>1. /\ Read(e) /\ e.path \in Path /\ \A p \in Path : ~Gives(e, p)
      /\ tree' = [p \in Path |-> IF Takes(e, p) THEN Nothing ELSE tree[p]]
  <2>1. CASE Whiteout(e)
    BY <2>1, EntryFields, Reach DEF Whiteout, Clear, Gives
  <2>2. CASE Opaque(e)
    BY <2>2, EntryFields, Reach DEF Opaque, Clear, Gives
  <2> QED  BY <2>1, <2>2
<1>2. TypeOK /\ layer' = layer /\ layer \in Nat \ {0} /\ image' \in Seq(Seq(Entry))
      /\ pc' = pc
  BY <1>1, ReadImage DEF IInv, Read
<1>3. \A l \in 1 .. layer : Entries(l) \subseteq Entries(l)'
                            /\ Entries(l)' \subseteq Entries(l) \cup {e}
  BY <1>1, <1>2, ReadEntry
<1>4. e \in Entries(layer)' /\ \A p \in Path : e # File(p)
  <2>1. e \in Entries(layer)'  BY <1>1, <1>2, ReadEntry
  <2>2. \A p \in Path : Gives(File(p), p)  BY DEF Gives, File
  <2> QED  BY <1>1, <2>1, <2>2
<1>5. TypeOK'
  <2>1. \A p \in Path : \A q \in Above[p] : q \in Path /\ (Takes(e, q) => Takes(e, p))
    BY Reach, LayersAssumption
  <2> QED  BY <1>1, <1>2, <2>1 DEF TypeOK
<1>6. Origin'
  <2> SUFFICES ASSUME NEW p \in Path, tree'[p] # Nothing
               PROVE  /\ \A l \in 1 .. layer' : tree'[p] = <<"file", l>> =>
                           /\ File(p) \in Entries(l)' /\ ~TakenAway(p, l, layer)'
                           /\ \A k \in l + 1 .. layer' : File(p) \notin Entries(k)'
                      /\ tree'[p] = Dir => \E l \in 1 .. layer' : \E g \in Entries(l)' :
                           Gives(g, p) /\ g # File(p) /\ ~TakenAway(p, l, layer)'
    BY Nodes DEF Origin, File
  <2>1. ~Takes(e, p) /\ tree'[p] = tree[p]  BY <1>1
  <2>2. \A l \in 1 .. layer : TakenAway(p, l, layer)' <=> TakenAway(p, l, layer)
    <3>1. \A l, k \in 1 .. layer : TakenAway(p, l, k)' <=> TakenAway(p, l, k)
      BY <1>1, <1>2, <2>1, ReadOver
    <3> QED  BY <1>2, <3>1
  <2>3. ASSUME NEW l \in 1 .. layer, tree'[p] = <<"file", l>>
        PROVE  /\ File(p) \in Entries(l)' /\ ~TakenAway(p, l, layer)'
               /\ \A k \in l + 1 .. layer : File(p) \notin Entries(k)'
    <3>1. File(p) \in Entries(l) /\ ~TakenAway(p, l, layer)
          /\ \A k \in l + 1 .. layer : File(p) \notin Entries(k)
      BY <2>1, <2>3 DEF IInv, Origin
    <3> QED  BY <1>2, <1>3, <1>4, <2>2, <3>1
  <2>4. ASSUME tree'[p] = Dir
        PROVE  \E l \in 1 .. layer : \E g \in Entries(l)' :
                 Gives(g, p) /\ g # File(p) /\ ~TakenAway(p, l, layer)'
    <3>1. PICK l \in 1 .. layer : \E g \in Entries(l) :
                 Gives(g, p) /\ g # File(p) /\ ~TakenAway(p, l, layer)
      BY <2>1, <2>4 DEF IInv, Origin
    <3> QED  BY <1>3, <2>2, <3>1
  <2> QED  BY <1>2, <2>3, <2>4
<1>7. Lost'
  <2> SUFFICES ASSUME NEW p \in Path, tree'[p] = Nothing,
                      NEW l \in 1 .. layer, NEW g \in Entries(l)', Gives(g, p)
               PROVE  TakenAway(p, l, layer)' \/ Excused(p)'
    BY <1>2 DEF Lost
  <2>1. g \in Entries(l)  BY <1>1, <1>3
  <2>2. CASE Takes(e, p)
    <3>1. l = layer => Late(p)'  BY <1>1, <1>2, <2>1, <2>2, ReadLate
    <3>2. l # layer => TakenAway(p, l, layer)'
      BY <1>2, <1>4, <2>2 DEF TakenAway
    <3> QED  BY <3>1, <3>2 DEF Excused
  <2>3. CASE ~Takes(e, p)
    <3>1. tree[p] = Nothing  BY <1>1, <2>3
    <3>2. TakenAway(p, l, layer) \/ Excused(p)  BY <2>1, <3>1 DEF IInv, Lost
    <3>3. \A q \in Above[p] \cup {p} : q \in Path /\ ~Takes(e, q)
      BY <2>3, Reach, LayersAssumption
    <3>4. \A q \in Above[p] \cup {p} : Conflict(q) => Conflict(q)'
      BY <1>1, <1>2, <3>3, ReadOver
    <3> QED  BY <1>1, <1>2, <3>2, <3>4, ReadLate DEF Excused
  <2> QED  BY <2>2, <2>3
<1> QED  BY <1>5, <1>6, <1>7 DEF IInv

LEMMA NextLayerInv ==
  ASSUME IInv, NextLayer
  PROVE  IInv'
<1>1. TypeOK /\ layer \in Nat \ {0} /\ image \in Seq(Seq(Entry))
  BY DEF IInv, TypeOK, layer
<1>2. tree' = tree /\ pc' = pc /\ image' = Append(image, <<>>)  BY DEF NextLayer
<1>3. <<>> \in Seq(Entry)  OBVIOUS
<1>4. image' \in Seq(Seq(Entry))  BY <1>1, <1>2, <1>3
<1>5. layer' = layer + 1  BY <1>1, <1>2, <1>3 DEF layer
<1>6. image'[layer + 1] = <<>>  BY <1>1, <1>2, <1>3 DEF layer
<1>7. \A l \in 1 .. layer : image'[l] = image[l]  BY <1>1, <1>2, <1>3 DEF layer
<1>8. \A l \in 1 .. layer : Entries(l)' = Entries(l)  BY <1>7 DEF Entries
<1>9. \A m : m = layer + 1 => Entries(m)' = {}
  <2>1. DOMAIN image'[layer + 1] = {}  BY <1>6
  <2> QED  BY <2>1 DEF Entries
<1>10. \A p \in Path, l \in 1 .. layer, k \in 1 .. layer :
         TakenAway(p, l, k)' <=> TakenAway(p, l, k)
  BY <1>1, <1>8 DEF TakenAway
<1>11. \A p \in Path, l \in 1 .. layer : TakenAway(p, l, layer)' <=> TakenAway(p, l, layer)
  <2> SUFFICES ASSUME NEW p \in Path, NEW l \in 1 .. layer
               PROVE  (\E m \in l + 1 .. layer + 1 : \E e \in Entries(m)' : Takes(e, p))
                        <=> \E m \in l + 1 .. layer : \E e \in Entries(m) : Takes(e, p)
    BY <1>5 DEF TakenAway
  <2>1. \A m \in l + 1 .. layer + 1 : m \in l + 1 .. layer \/ Entries(m)' = {}
    BY <1>1, <1>9
  <2>2. \A m \in l + 1 .. layer : m \in l + 1 .. layer + 1 /\ Entries(m)' = Entries(m)
    BY <1>1, <1>8
  <2> QED  BY <2>1, <2>2
<1>12. \A p \in Path : Conflict(p) => Conflict(p)'
  <2> SUFFICES ASSUME NEW p \in Path, Conflict(p)  PROVE Conflict(p)'
    OBVIOUS
  <2>1. PICK l \in 1 .. layer : \E k \in l .. layer : \E a \in Entries(l), g \in Entries(k) :
          /\ Gives(a, p) /\ Gives(g, p) /\ (a = File(p)) # (g = File(p))
          /\ ~TakenAway(p, l, k)
    BY DEF Conflict, File
  <2>2. PICK k \in l .. layer : \E a \in Entries(l), g \in Entries(k) :
          /\ Gives(a, p) /\ Gives(g, p) /\ (a = File(p)) # (g = File(p))
          /\ ~TakenAway(p, l, k)
    BY <2>1
  <2>3. ~TakenAway(p, l, k)'  BY <1>1, <1>10, <2>2
  <2>4. l \in 1 .. layer' /\ k \in l .. layer'  BY <1>1, <1>5
  <2>5. \E a \in Entries(l)', g \in Entries(k)' :
          Gives(a, p) /\ Gives(g, p) /\ (a = File(p)) # (g = File(p))
    BY <1>1, <1>8, <2>2
  <2> QED  BY <2>3, <2>4, <2>5 DEF Conflict, File
<1>13. \A p \in Path : Late(p) => Late(p)'
  <2> SUFFICES ASSUME NEW p \in Path, Late(p)  PROVE Late(p)'
    OBVIOUS
  <2>1. PICK l \in 1 .. layer : \E i, j \in DOMAIN image[l] :
          i < j /\ Gives(image[l][i], p) /\ Takes(image[l][j], p)
    BY DEF Late
  <2>2. image'[l] = image[l] /\ l \in 1 .. layer'  BY <1>1, <1>5, <1>7
  <2> QED  BY <2>1, <2>2 DEF Late
<1>14. \A p \in Path : Excused(p) => Excused(p)'
  BY <1>12, <1>13, LayersAssumption DEF Excused
<1>15. TypeOK'  BY <1>1, <1>2, <1>4, <1>5 DEF TypeOK
<1>16. Origin'
  <2> SUFFICES ASSUME NEW p \in Path
               PROVE  /\ \A l \in 1 .. layer' : tree'[p] = <<"file", l>> =>
                           /\ File(p) \in Entries(l)' /\ ~TakenAway(p, l, layer)'
                           /\ \A k \in l + 1 .. layer' : File(p) \notin Entries(k)'
                      /\ tree'[p] = Dir => \E l \in 1 .. layer' : \E g \in Entries(l)' :
                           Gives(g, p) /\ g # File(p) /\ ~TakenAway(p, l, layer)'
    BY DEF Origin, File
  <2>1. ASSUME NEW l \in 1 .. layer', tree'[p] = <<"file", l>>
        PROVE  /\ File(p) \in Entries(l)' /\ ~TakenAway(p, l, layer)'
               /\ \A k \in l + 1 .. layer' : File(p) \notin Entries(k)'
    <3>1. l \in 1 .. layer
      <4>1. tree[p] \in {"file"} \X (1 .. layer)
        BY <1>1, <1>2, <2>1, Nodes DEF TypeOK
      <4> QED  BY <1>2, <2>1, <4>1
    <3>2. File(p) \in Entries(l) /\ ~TakenAway(p, l, layer)
          /\ \A k \in l + 1 .. layer : File(p) \notin Entries(k)
      BY <1>2, <2>1, <3>1 DEF IInv, Origin
    <3>3. File(p) \in Entries(l)' /\ ~TakenAway(p, l, layer)'
      BY <1>8, <1>11, <3>1, <3>2
    <3>4. ASSUME NEW k \in l + 1 .. layer'  PROVE File(p) \notin Entries(k)'
      <4>1. k = layer + 1 \/ (k \in l + 1 .. layer /\ k \in 1 .. layer)
        BY <1>1, <1>5, <3>1, <3>4
      <4> QED  BY <1>8, <1>9, <3>2, <4>1
    <3> QED  BY <3>3, <3>4
  <2>2. ASSUME tree'[p] = Dir
        PROVE  \E l \in 1 .. layer' : \E g \in Entries(l)' :
                 Gives(g, p) /\ g # File(p) /\ ~TakenAway(p, l, layer)'
    <3>1. PICK l \in 1 .. layer : \E g \in Entries(l) :
                 Gives(g, p) /\ g # File(p) /\ ~TakenAway(p, l, layer)
      BY <1>2, <2>2 DEF IInv, Origin
    <3> QED  BY <1>1, <1>5, <1>8, <1>11, <3>1
  <2> QED  BY <2>1, <2>2
<1>17. Lost'
  <2> SUFFICES ASSUME NEW p \in Path, tree[p] = Nothing,
                      NEW l \in 1 .. layer', NEW g \in Entries(l)', Gives(g, p)
               PROVE  TakenAway(p, l, layer)' \/ Excused(p)'
    BY <1>2 DEF Lost
  <2>1. l \in 1 .. layer /\ g \in Entries(l)  BY <1>1, <1>5, <1>8, <1>9
  <2> QED  BY <1>11, <1>14, <2>1 DEF IInv, Lost
<1> QED  BY <1>15, <1>16, <1>17 DEF IInv

LEMMA IInvNext == IInv /\ [Next]_vars => IInv'
<1> SUFFICES ASSUME IInv, [Next]_vars  PROVE IInv'
  OBVIOUS
<1>1. CASE UNCHANGED <<image, tree>> /\ pc' \in {"layers", "unpacked", "failed"}
  <2>1. layer' = layer /\ \A l : Entries(l)' = Entries(l)  BY <1>1 DEF layer, Entries
  <2>2. \A p : \A l, k : TakenAway(p, l, k)' <=> TakenAway(p, l, k)
    BY <2>1 DEF TakenAway
  <2>3. \A p : \A l : TakenAway(p, l, layer)' <=> TakenAway(p, l, layer)
    BY <2>1 DEF TakenAway
  <2>4. \A p : Conflict(p)' <=> Conflict(p)  BY <2>1, <2>2 DEF Conflict
  <2>5. \A p : Late(p)' <=> Late(p)  BY <1>1, <2>1 DEF Late
  <2>6. \A p : Excused(p)' <=> Excused(p)  BY <2>4, <2>5 DEF Excused
  <2>7. TypeOK'  BY <1>1, <2>1 DEF IInv, TypeOK
  <2>8. Origin'  BY <1>1, <2>1, <2>3 DEF IInv, Origin
  <2>9. Lost'  BY <1>1, <2>1, <2>3, <2>6 DEF IInv, Lost
  <2> QED  BY <2>7, <2>8, <2>9 DEF IInv
<1>2. ASSUME NEW e \in Entry, UnpackDir(e) \/ UnpackFile(e)  PROVE IInv'
  BY <1>2, UnpackInv
<1>3. ASSUME NEW e \in Entry, Skip(e)  PROVE IInv'  BY <1>3, SkipInv
<1>4. ASSUME NEW e \in Entry, Whiteout(e) \/ Opaque(e)  PROVE IInv'  BY <1>4, ClearInv
<1>5. CASE NextLayer  BY <1>5, NextLayerInv
<1>6. CASE Unpacked \/ LayerFails \/ UNCHANGED vars
  BY <1>1, <1>6 DEF Unpacked, LayerFails, vars, IInv, TypeOK
<1> QED  BY <1>2, <1>3, <1>4, <1>5, <1>6 DEF Next, Rest

-----------------------------------------------------------------------------
(* Theorems *)

\* A root is a tree at all times: what is there has nothing but directories above it.
THEOREM Typing == Spec => []TypeOK
<1>1. IInv => TypeOK  BY DEF IInv
<1> QED  BY <1>1, IInvInit, IInvNext, PTL DEF Spec

LEMMA InvDeclared == IInv => AsDeclared
<1> SUFFICES ASSUME IInv, NEW p \in Path, ~Excused(p)
             PROVE  tree[p] = Declared(p)
  BY DEF AsDeclared, Excused
<1> DEFINE givers == {l \in 1 .. layer :
                        (\E e \in Entries(l) : Gives(e, p)) /\ ~TakenAway(p, l, layer)}
           last(l) == \A k \in givers : k <= l
<1>1. Declared(p) =
        IF givers = {} THEN Nothing
        ELSE IF \E l \in givers : last(l) /\ File(p) \in Entries(l)
             THEN <<"file", CHOOSE l \in givers : last(l)>>
             ELSE Dir
  BY DEF Declared, File
<1>2. Gives(File(p), p)  BY DEF Gives, File
<1>3. ~Conflict(p) /\ layer \in Nat  BY DEF Excused, IInv, TypeOK, layer
<1>4. tree[p] = Nothing => givers = {}  BY DEF IInv, Lost
<1>5. ASSUME NEW l \in 1 .. layer, NEW k \in l .. layer,
             NEW a \in Entries(l), NEW g \in Entries(k),
             Gives(a, p), Gives(g, p), (a = File(p)) # (g = File(p)), l \in givers
      PROVE  FALSE
  <2>1. ~TakenAway(p, l, k)  BY <1>3, <1>5 DEF TakenAway
  <2> QED  BY <1>3, <1>5, <2>1 DEF Conflict, File
<1>6. ASSUME NEW l \in 1 .. layer, tree[p] = <<"file", l>>
      PROVE  tree[p] = Declared(p)
  <2>1. File(p) \in Entries(l) /\ l \in givers
        /\ \A k \in l + 1 .. layer : File(p) \notin Entries(k)
    BY <1>2, <1>6 DEF IInv, Origin
  <2>2. last(l)
    <3> SUFFICES ASSUME NEW k \in givers, k > l  PROVE FALSE
      BY <1>3
    <3>1. PICK g \in Entries(k) : Gives(g, p)  OBVIOUS
    <3>2. k \in l + 1 .. layer /\ k \in l .. layer  BY <1>3
    <3>3. g # File(p)  BY <2>1, <3>1, <3>2
    <3> QED  BY <1>2, <1>5, <2>1, <3>1, <3>2, <3>3
  <2>3. (CHOOSE k \in givers : last(k)) = l
    <3>1. \A k \in givers : last(k) => k = l  BY <1>3, <2>1, <2>2
    <3> QED  BY <2>1, <2>2, <3>1
  <2> QED  BY <1>1, <1>6, <2>1, <2>2, <2>3
<1>7. ASSUME tree[p] = Dir  PROVE tree[p] = Declared(p)
  <2>1. PICK l \in 1 .. layer : \E g \in Entries(l) :
               Gives(g, p) /\ g # File(p) /\ ~TakenAway(p, l, layer)
    BY <1>7 DEF IInv, Origin
  <2>2. PICK g \in Entries(l) : Gives(g, p) /\ g # File(p) /\ ~TakenAway(p, l, layer)
    BY <2>1
  <2>3. l \in givers  BY <2>2
  <2>4. ASSUME NEW k \in givers, last(k)  PROVE File(p) \notin Entries(k)
    <3>1. k \in l .. layer  BY <1>3, <2>3, <2>4
    <3> QED  BY <1>2, <1>5, <2>2, <2>3, <3>1
  <2> QED  BY <1>1, <1>7, <2>3, <2>4
<1>8. tree[p] \in {Nothing, Dir} \cup ({"file"} \X (1 .. layer))  BY DEF IInv, TypeOK
<1>9. CASE tree[p] \in {"file"} \X (1 .. layer)
  <2>1. PICK l \in 1 .. layer : tree[p] = <<"file", l>>  BY <1>9
  <2> QED  BY <1>6, <2>1
<1>10. CASE tree[p] = Nothing  BY <1>1, <1>4, <1>10
<1> QED  BY <1>7, <1>8, <1>9, <1>10

\* For any image, a root is what its layers declare: what a whiteout covers is gone until
\* a later layer brings it back, and nothing else is, unless a whiteout comes late in its
\* own layer or a directory and a file meet.
THEOREM RootsAsDeclared == Spec => []AsDeclared
BY InvDeclared, IInvInit, IInvNext, PTL DEF Spec

-----------------------------------------------------------------------------
(* A pull: what holds at any time of it.  The parts of the invariant say of each stage  *)
(* of the pull what the next one relies on: what was asked of the registry, what was     *)
(* sent to the engine, what the engine has done, what of its answer is still unread.     *)

Word == {"200", "200 chunked", "500", "line", "half", "rest", "zero"}

Typed ==
  /\ client \in {"off", "stream", "abandon", "head", "refused", "progress", "ok", "err"}
  /\ archive \in Seq(Item) /\ sent \in Seq(Item) /\ onDisk \subseteq Item /\ lost \subseteq Item
  /\ torn \subseteq Item
  /\ req \in Seq(Item) /\ Len(req) <= ReqCap /\ got \in Seq(Item)
  /\ resp \in Seq(Seq(Word)) /\ Len(resp) <= RespCap /\ out \in Seq(Seq(Word))
  /\ engine \in {"reading", "answering", "refusing", "closed"}
  /\ early \in 0 .. MaxEarly /\ head \in {None, "200", "200 chunked", "500"}
  /\ loaded \in Manifest \cup {None} /\ pending \in Seq({"line", "half", "rest"})
  /\ broken \subseteq {"connect", "refuse", "die", "cache", "load"}

\* What the client has not read yet of what the engine has said.
Reply == resp \o out

Line == {<<"line">>, <<"half">>, <<"rest">>, D!Zero}

\* It has not read the status, or is in the middle of an answer of success.
Unheard == client \in {"off", "stream", "abandon", "head"}
Hears == Unheard \/ client = "progress"

\* After the first half of an error comes nothing but the other half and the end, and
\* after the end nothing.
Ordered(a) ==
  \A i, j \in DOMAIN a : i < j =>
    a[i] # D!Zero /\ (a[i] = <<"half">> => a[j] \in {<<"rest">>, D!Zero})

\* An error is on its way, or has come in part.
Faulty ==
  \/ {<<"half">>, <<"rest">>} \cap Range(Reply) # {}
  \/ {"half", "rest"} \cap Range(pending) # {}

\* Every token is for one request; what becomes of an answer, and why a request fails.
Asked ==
  /\ R!TypeOK
  /\ \A r \in R!Request :
       /\ stage[r] \in {"idle", "sent", "challenged"} => token[r] = None
       /\ stage[r] = "retried" /\ token[r] = "expired" => hurt # {}
       /\ stage[r] = "failed" => hurt # {}
  /\ index # None => stage["tag"] = "answered"
  /\ stage["manifest"] \in {"sent", "challenged", "retried", "answered"} =>
       index \in List /\ SelectOf[index] # None
  /\ plan # None =>
       /\ index # None /\ Chosen(index) \in Manifest
       /\ plan = [descriptor |-> Chosen(index), manifest |-> Chosen(index)]

\* How much of the archive is written: some of it; all of it and the end of the body; or
\* some of it and the end of an archive, because a blob was lost.
Partly == Len(sent) <= Len(archive) /\ sent = SubSeq(archive, 1, Len(sent))
Ended == archive # <<>> /\ sent = Append(archive, D!Zero)
Cut ==
  /\ lost # {}
  /\ \E n \in 0..Len(archive) : n < Len(archive) /\ sent = Append(SubSeq(archive, 1, n), D!End)

Sent ==
  /\ got \o req = sent
  /\ lost # {} => broken # {}
  /\ archive = <<>> \/ (plan # None /\ archive = D!Archive(Chosen(index), Chosen(index)))
  /\ client = "off" => sent = <<>> /\ archive = <<>> /\ engine = "reading"
  /\ client \in {"stream", "abandon"} => archive # <<>> /\ Partly
  /\ client = "abandon" => lost # {} /\ Len(sent) < Len(archive)
  /\ client \in {"head", "refused", "progress", "ok"} => Ended
  /\ client = "err" => Partly \/ Ended \/ Cut

\* What the engine has done, and for what reason it is gone.
Served ==
  /\ engine = "closed" => out = <<>>
  /\ engine = "reading" => loaded = None
  /\ loaded # None => D!Good(loaded) /\ {D!End, D!Zero} \cap Range(got) # {}
  /\ engine \in {"answering", "refusing"} => head # None /\ got # <<>>
  /\ "die" \in broken => engine = "closed"
  /\ head = None => Reply = <<>>
  /\ head = "500" => engine \in {"refusing", "closed"}
  /\ engine = "refusing" \/ head = "500" => "refuse" \in broken
  /\ engine = "closed" /\ D!Open /\ broken = {} =>
       head # None /\ got # <<>> /\ Last(got) = D!Zero

\* The answer, as far as the client has not read it.
Answered ==
  /\ Unheard =>
       /\ pending = <<>>
       /\ Reply # <<>> => Head(Reply) = <<head>> /\ Range(Tail(Reply)) \subseteq Line
       /\ head # None /\ "die" \notin broken => Reply # <<>>
  /\ client = "progress" => head \in {"200", "200 chunked"} /\ Range(Reply) \subseteq Line
  /\ client = "refused" => head = "500"
  /\ Hears =>
       /\ Ordered(Reply)
       /\ engine = "reading" => ~Faulty /\ D!Zero \notin Range(Reply)
       /\ D!Zero \in Range(Reply) => head = "200 chunked"
       /\ "half" \in Range(pending) =>
            Last(pending) \in {"half", "rest"} /\ Range(Reply) \subseteq {<<"rest">>, D!Zero}
       /\ head = "200 chunked" => Range(pending) \subseteq {"half"}
       /\ \/ engine # "reading" /\ "die" \notin broken /\ head # "500"
          \/ D!Zero \in Range(Reply)
          => loaded # None \/ Faulty
       /\ Faulty => broken # {} \/ torn # {}
       /\ head = "200 chunked" /\ engine \in {"answering", "closed"} /\ broken = {} =>
            D!Zero \in Range(Reply)

PullInv ==
  /\ Typed /\ Asked /\ Sent /\ Served /\ Answered
  /\ OkMeansLoaded
  /\ client = "err" => broken # {} \/ torn # {}

-----------------------------------------------------------------------------
(* Sequences *)

LEMMA RangeAppend ==
  ASSUME NEW S, NEW s \in Seq(S), NEW x \in S
  PROVE  Range(Append(s, x)) = Range(s) \cup {x}
<1>1. Append(s, x) \in Seq(S) /\ Len(Append(s, x)) = Len(s) + 1 /\ Append(s, x)[Len(s) + 1] = x
      /\ \A i \in 1..Len(s) : Append(s, x)[i] = s[i]
  OBVIOUS
<1>2. DOMAIN s = 1..Len(s) /\ DOMAIN Append(s, x) = 1..(Len(s) + 1) /\ Len(s) \in Nat
  BY <1>1
<1>3. DOMAIN Append(s, x) = DOMAIN s \cup {Len(s) + 1}
  BY <1>2
<1> QED
  BY <1>1, <1>2, <1>3 DEF Range

LEMMA RangeTail ==
  ASSUME NEW S, NEW s \in Seq(S), s # <<>>
  PROVE  /\ Range(s) = {Head(s)} \cup Range(Tail(s))
         /\ Head(s) \in S /\ Tail(s) \in Seq(S)
<1>1. /\ Len(s) \in Nat \ {0} /\ DOMAIN s = 1..Len(s) /\ Head(s) = s[1] /\ Tail(s) \in Seq(S)
      /\ DOMAIN Tail(s) = 1..(Len(s) - 1) /\ \A i \in 1..(Len(s) - 1) : Tail(s)[i] = s[i + 1]
  BY EmptySeq
<1>2. Head(s) \in S /\ 1 \in DOMAIN s
  BY <1>1
<1>3. Range(s) \subseteq {Head(s)} \cup Range(Tail(s))
  <2> SUFFICES ASSUME NEW i \in DOMAIN s PROVE s[i] = Head(s) \/ s[i] \in Range(Tail(s))
    BY DEF Range
  <2>1. CASE i = 1
    BY <1>1, <2>1
  <2>2. CASE i # 1
    <3>1. i - 1 \in DOMAIN Tail(s) /\ Tail(s)[i - 1] = s[i]
      BY <1>1, <2>2
    <3> QED
      BY <3>1 DEF Range
  <2> QED
    BY <2>1, <2>2
<1>4. ASSUME NEW i \in DOMAIN Tail(s) PROVE Tail(s)[i] \in Range(s)
  <2>1. i + 1 \in DOMAIN s /\ Tail(s)[i] = s[i + 1]
    BY <1>1
  <2> QED
    BY <2>1 DEF Range
<1> QED
  BY <1>1, <1>2, <1>3, <1>4 DEF Range

\* What goes from the front of one queue to the back of the next stays in line.
LEMMA Shift ==
  ASSUME NEW S, NEW s \in Seq(S), NEW t \in Seq(S), t # <<>>
  PROVE  Append(s, Head(t)) \o Tail(t) = s \o t
<1>1. /\ Head(t) \in S /\ Tail(t) \in Seq(S) /\ Len(t) \in Nat \ {0}
      /\ Len(Tail(t)) = Len(t) - 1 /\ Head(t) = t[1]
      /\ \A i \in 1..(Len(t) - 1) : Tail(t)[i] = t[i + 1]
  BY EmptySeq
<1> DEFINE u == Append(s, Head(t)) \o Tail(t)
           v == s \o t
<1>2. /\ u \in Seq(S) /\ v \in Seq(S) /\ Len(u) = Len(s) + Len(t) /\ Len(v) = Len(s) + Len(t)
  BY <1>1
<1>3. ASSUME NEW i \in 1..(Len(s) + Len(t)) PROVE u[i] = v[i]
  <2>1. CASE i <= Len(s)
    BY <1>1, <2>1
  <2>2. CASE i = Len(s) + 1
    BY <1>1, <2>2
  <2>3. CASE i > Len(s) + 1
    <3>1. u[i] = Tail(t)[i - (Len(s) + 1)]
      BY <1>1, <2>3
    <3>2. v[i] = t[i - Len(s)]
      BY <1>1, <2>3
    <3>3. i - (Len(s) + 1) \in 1..(Len(t) - 1)
      BY <1>1, <2>3
    <3> QED
      BY <1>1, <3>1, <3>2, <3>3
  <2> QED
    BY <1>1, <2>1, <2>2, <2>3
<1> HIDE DEF u, v
<1> QED
  BY <1>2, <1>3, SeqEqual DEF u, v

\* Adding to the end, and taking from the front.
LEMMA HeadOfConcat ==
  ASSUME NEW S, NEW s \in Seq(S), NEW t \in Seq(S), s # <<>>
  PROVE  Head(s \o t) = Head(s) /\ Tail(s \o t) = Tail(s) \o t /\ s \o t # <<>>
<1>1. /\ Tail(s) \in Seq(S) /\ Len(s) \in Nat \ {0} /\ Len(Tail(s)) = Len(s) - 1
      /\ Head(s) = s[1] /\ \A i \in 1..(Len(s) - 1) : Tail(s)[i] = s[i + 1]
  BY EmptySeq
<1>2. /\ s \o t \in Seq(S) /\ Len(s \o t) = Len(s) + Len(t) /\ Len(t) \in Nat
      /\ \A i \in 1..(Len(s) + Len(t)) :
           (s \o t)[i] = IF i <= Len(s) THEN s[i] ELSE t[i - Len(s)]
  BY <1>1
<1>3. s \o t # <<>> /\ Head(s \o t) = (s \o t)[1]
  BY <1>1, <1>2
<1>4. Head(s \o t) = Head(s)
  BY <1>1, <1>2, <1>3
<1> DEFINE u == Tail(s \o t)
           v == Tail(s) \o t
<1>5. /\ u \in Seq(S) /\ v \in Seq(S)
      /\ Len(u) = Len(s) + Len(t) - 1 /\ Len(v) = Len(s) + Len(t) - 1
  BY <1>1, <1>2, <1>3
<1>6. ASSUME NEW i \in 1..(Len(s) + Len(t) - 1) PROVE u[i] = v[i]
  <2>1. u[i] = (s \o t)[i + 1]
    BY <1>2, <1>3
  <2>2. CASE i <= Len(s) - 1
    BY <1>1, <1>2, <2>1, <2>2
  <2>3. CASE ~(i <= Len(s) - 1)
    <3>1. v[i] = t[i - (Len(s) - 1)]
      BY <1>1, <1>2, <2>3
    <3>2. u[i] = t[(i + 1) - Len(s)]
      BY <1>1, <1>2, <2>1, <2>3
    <3> QED
      BY <1>1, <3>1, <3>2
  <2> QED
    BY <2>2, <2>3
<1> HIDE DEF u, v
<1>7. u = v
  BY <1>5, <1>6, SeqEqual
<1> QED
  BY <1>3, <1>4, <1>7 DEF u, v

LEMMA LastFacts ==
  ASSUME NEW S, NEW s \in Seq(S)
  PROVE  /\ s # <<>> => Last(s) \in Range(s)
         /\ \A x \in S : Last(Append(s, x)) = x
<1>1. s # <<>> => Len(s) \in DOMAIN s /\ Last(s) = s[Len(s)]
  BY EmptySeq DEF Last
<1>2. \A x \in S : Last(Append(s, x)) = x
  BY DEF Last
<1> QED
  BY <1>1, <1>2 DEF Range

-----------------------------------------------------------------------------
(* Short sequences, and what the engine says *)

LEMMA Empty == Range(<<>>) = {} /\ \A S : <<>> \in Seq(S)
<1>1. \A S : <<>> \in Seq(S)
  OBVIOUS
<1>2. DOMAIN <<>> = {}
  OBVIOUS
<1> QED
  BY <1>1, <1>2 DEF Range

LEMMA Single ==
  ASSUME NEW S, NEW x \in S
  PROVE  /\ <<x>> \in Seq(S) /\ Range(<<x>>) = {x} /\ <<x>> # <<>>
         /\ Head(<<x>>) = x /\ Tail(<<x>>) = <<>>
<1>1. <<x>> \in Seq(S) /\ <<x>> # <<>> /\ Head(<<x>>) = x /\ Tail(<<x>>) = <<>>
  OBVIOUS
<1>2. DOMAIN <<x>> = {1} /\ <<x>>[1] = x
  OBVIOUS
<1> QED
  BY <1>1, <1>2 DEF Range

\* A status line.
LEMMA Status ==
  ASSUME NEW h \in Word
  PROVE  /\ <<<<h>>>> \in Seq(Seq(Word)) /\ Range(<<<<h>>>>) = {<<h>>} /\ <<<<h>>>> # <<>>
         /\ Head(<<<<h>>>>) = <<h>> /\ Tail(<<<<h>>>>) = <<>>
BY Single

\* Sequences of what the engine says.
Answers == Seq(Seq(Word))

LEMMA Joined ==
  /\ \A s, t \in Answers : s \o t \in Answers /\ Range(s \o t) = Range(s) \cup Range(t)
  /\ \A s, t, u \in Answers : (s \o t) \o u = s \o (t \o u)
<1> DEFINE S == Seq(Word)
<1> HIDE DEF S
<1>1. \A s, t \in Seq(S) : s \o t \in Seq(S) /\ Range(s \o t) = Range(s) \cup Range(t)
  BY RangeConcatenation, ConcatProperties
<1>2. \A s, t, u \in Seq(S) : (s \o t) \o u = s \o (t \o u)
  BY ConcatAssociative
<1> QED
  BY <1>1, <1>2 DEF S, Answers

LEMMA Wrapped ==
  /\ \A x, y : <<x>> = <<y>> => x = y
  /\ \A x : <<x>>[1] = x
  /\ D!Zero = <<"zero">>
BY DEF D!Zero

-----------------------------------------------------------------------------
(* The order of an answer *)

LEMMA OrderedConcat ==
  ASSUME NEW S, NEW a \in Seq(S), NEW b \in Seq(S), Ordered(b),
         <<"half">> \notin Range(a), D!Zero \notin Range(a)
  PROVE  Ordered(a \o b)
<1>1. /\ a \o b \in Seq(S) /\ Len(a \o b) = Len(a) + Len(b) /\ Len(a) \in Nat /\ Len(b) \in Nat
      /\ \A i \in 1..(Len(a) + Len(b)) :
           (a \o b)[i] = IF i <= Len(a) THEN a[i] ELSE b[i - Len(a)]
  OBVIOUS
<1>d. DOMAIN (a \o b) = 1..(Len(a) + Len(b))
  BY <1>1, LenProperties
<1> SUFFICES ASSUME NEW i \in 1..(Len(a) + Len(b)), NEW j \in 1..(Len(a) + Len(b)), i < j
             PROVE  /\ (a \o b)[i] # D!Zero
                    /\ (a \o b)[i] = <<"half">> => (a \o b)[j] \in {<<"rest">>, D!Zero}
  BY <1>d, Zenon DEF Ordered
<1>2. CASE i <= Len(a)
  <2>1. (a \o b)[i] = a[i] /\ i \in DOMAIN a
    BY <1>1, <1>2
  <2> QED
    BY <2>1 DEF Range
<1>3. CASE ~(i <= Len(a))
  <2>1. /\ (a \o b)[i] = b[i - Len(a)] /\ (a \o b)[j] = b[j - Len(a)]
        /\ i - Len(a) \in DOMAIN b /\ j - Len(a) \in DOMAIN b /\ i - Len(a) < j - Len(a)
    BY <1>1, <1>3
  <2> QED
    BY <2>1 DEF Ordered
<1> QED
  BY <1>2, <1>3

LEMMA OrderedEnd ==
  ASSUME NEW S, NEW a \in Seq(S), D!Zero \in S, Ordered(a), D!Zero \notin Range(a)
  PROVE  Ordered(a \o <<D!Zero>>)
<1>1. /\ Len(a) \in Nat /\ DOMAIN (a \o <<D!Zero>>) = 1..(Len(a) + 1) /\ DOMAIN a = 1..Len(a)
      /\ \A i \in 1..Len(a) : (a \o <<D!Zero>>)[i] = a[i]
      /\ (a \o <<D!Zero>>)[Len(a) + 1] = D!Zero
  OBVIOUS
<1> SUFFICES ASSUME NEW i \in 1..(Len(a) + 1), NEW j \in 1..(Len(a) + 1), i < j
             PROVE  /\ (a \o <<D!Zero>>)[i] # D!Zero
                    /\ (a \o <<D!Zero>>)[i] = <<"half">> =>
                         (a \o <<D!Zero>>)[j] \in {<<"rest">>, D!Zero}
  BY <1>1 DEF Ordered
<1>2. i \in DOMAIN a /\ (a \o <<D!Zero>>)[i] = a[i] /\ a[i] # D!Zero
  <2>1. i \in 1..Len(a)
    BY <1>1
  <2> QED
    BY <1>1, <2>1 DEF Range
<1>3. CASE j = Len(a) + 1
  BY <1>1, <1>2, <1>3
<1>4. CASE j # Len(a) + 1
  <2>1. j \in DOMAIN a /\ (a \o <<D!Zero>>)[j] = a[j]
    BY <1>1, <1>4
  <2> QED
    BY <1>2, <2>1 DEF Ordered
<1> QED
  BY <1>3, <1>4

LEMMA OrderedTail ==
  ASSUME NEW S, NEW a \in Seq(S), a # <<>>, Ordered(a)
  PROVE  /\ Ordered(Tail(a))
         /\ Head(a) = <<"half">> => Range(Tail(a)) \subseteq {<<"rest">>, D!Zero}
         /\ Head(a) = D!Zero => Tail(a) = <<>>
<1>1. /\ Len(a) \in Nat \ {0} /\ DOMAIN a = 1..Len(a) /\ Head(a) = a[1] /\ Tail(a) \in Seq(S)
      /\ DOMAIN Tail(a) = 1..(Len(a) - 1) /\ Len(Tail(a)) = Len(a) - 1
      /\ \A i \in 1..(Len(a) - 1) : Tail(a)[i] = a[i + 1]
  BY EmptySeq
<1>2. \A i, j \in DOMAIN a : i < j =>
        a[i] # D!Zero /\ (a[i] = <<"half">> => a[j] \in {<<"rest">>, D!Zero})
  BY DEF Ordered
<1>3. Ordered(Tail(a))
  <2> SUFFICES ASSUME NEW i \in DOMAIN Tail(a), NEW j \in DOMAIN Tail(a), i < j
               PROVE  /\ Tail(a)[i] # D!Zero
                      /\ Tail(a)[i] = <<"half">> => Tail(a)[j] \in {<<"rest">>, D!Zero}
    BY DEF Ordered
  <2>1. /\ i + 1 \in DOMAIN a /\ j + 1 \in DOMAIN a /\ i + 1 < j + 1
        /\ Tail(a)[i] = a[i + 1] /\ Tail(a)[j] = a[j + 1]
    BY <1>1
  <2> QED
    BY <1>2, <2>1
<1>4. ASSUME Head(a) = <<"half">>, NEW i \in DOMAIN Tail(a)
      PROVE  Tail(a)[i] \in {<<"rest">>, D!Zero}
  <2>1. 1 \in DOMAIN a /\ i + 1 \in DOMAIN a /\ 1 < i + 1 /\ Tail(a)[i] = a[i + 1]
    BY <1>1
  <2> QED
    BY <1>1, <1>2, <1>4, <2>1
<1>5. ASSUME Head(a) = D!Zero PROVE Tail(a) = <<>>
  <2>1. ~(Len(a) > 1)
    <3>1. Len(a) > 1 => 1 \in DOMAIN a /\ 2 \in DOMAIN a /\ 1 < 2
      BY <1>1
    <3> QED
      BY <1>1, <1>2, <1>5, <3>1
  <2>2. Len(Tail(a)) = 0
    BY <1>1, <2>1
  <2> QED
    BY <1>1, <2>2, EmptySeq
<1> QED
  BY <1>3, <1>4, <1>5 DEF Range

LEMMA OrderedPrefix ==
  ASSUME NEW S, NEW a \in Seq(S), NEW b \in Seq(S), Ordered(a \o b)
  PROVE  Ordered(a)
<1>1. /\ DOMAIN a \subseteq DOMAIN (a \o b) /\ DOMAIN a \subseteq Int
      /\ \A i \in DOMAIN a : (a \o b)[i] = a[i]
  OBVIOUS
<1> QED
  BY <1>1 DEF Ordered

-----------------------------------------------------------------------------
(* The requests of a pull *)

LEMMA AskedInit == PullInit => Asked
<1> SUFFICES ASSUME PullInit PROVE Asked
  OBVIOUS
<1>1. R!TypeOK
  BY DEF PullInit, R!Init, R!TypeOK
<1>2. \A r \in R!Request : stage[r] = "idle" /\ token[r] = None
  BY DEF PullInit, R!Init
<1> QED
  BY <1>1, <1>2 DEF PullInit, R!Init, R!Request, Asked

\* A request goes on.
LEMMA AskedGoto ==
  ASSUME Asked, NEW r \in R!Request, NEW s \in {"sent", "challenged", "retried", "failed"},
         R!Goto(r, s), UNCHANGED <<tag, index, plan, source>>,
         token' = token \/ (token' = [token EXCEPT ![r] = "good"] /\ s = "retried"),
         hurt' \subseteq R!Request, hurt \subseteq hurt',
         r = "tag" => stage[r] # "answered",
         s \in {"sent", "challenged"} => token[r] = None,
         s = "retried" => token'[r] = "good",
         s = "failed" => hurt' # {},
         r = "manifest" /\ s # "failed" => index \in List /\ SelectOf[index] # None
  PROVE  Asked'
<1>1. R!TypeOK
  BY DEF Asked
<1>2. /\ stage' = [stage EXCEPT ![r] = s]
      /\ stage \in [R!Request -> {"idle", "sent", "challenged", "retried", "answered", "failed"}]
  BY <1>1 DEF R!Goto, R!TypeOK
<1>3. stage'[r] = s /\ \A q \in R!Request : q # r => stage'[q] = stage[q] /\ token'[q] = token[q]
  BY <1>1, <1>2 DEF R!TypeOK
<1>4. R!TypeOK'
  BY <1>1, <1>2 DEF R!TypeOK
<1>5. {"tag", "manifest"} \subseteq R!Request
  BY DEF R!Request
<1>6. \A q \in R!Request :
        /\ stage'[q] \in {"idle", "sent", "challenged"} => token'[q] = None
        /\ stage'[q] = "retried" /\ token'[q] = "expired" => hurt' # {}
        /\ stage'[q] = "failed" => hurt' # {}
  BY <1>3 DEF Asked
<1>7. index' # None => stage'["tag"] = "answered"
  BY <1>3, <1>5 DEF Asked
<1>8. stage'["manifest"] \in {"sent", "challenged", "retried", "answered"} =>
        index' \in List /\ SelectOf[index'] # None
  BY <1>3, <1>5 DEF Asked
<1>9. plan' # None =>
        /\ index' # None /\ Chosen(index') \in Manifest
        /\ plan' = [descriptor |-> Chosen(index'), manifest |-> Chosen(index')]
  BY DEF Asked
<1> QED
  BY <1>4, <1>6, <1>7, <1>8, <1>9 DEF Asked, Chosen

\* What the registry and the requests do keeps the account of them.
LEMMA AskedNext ==
  ASSUME Asked, \/ \E r \in R!Request : R!Exchange(r) \/ R!RequestFails(r) \/ R!Expire(r)
                \/ R!Answer
                \/ \E t \in List \cup Manifest : R!Retag(t)
                \/ UNCHANGED registry
  PROVE  Asked'
<1>1. /\ R!TypeOK
      /\ \A r \in R!Request :
           stage[r] \in {"idle", "sent", "challenged", "retried", "answered", "failed"}
  BY DEF Asked, R!TypeOK
<1>2. {"tag", "manifest"} \subseteq R!Request /\ Blob \subseteq R!Request
  BY DEF R!Request
<1>3. ASSUME NEW r \in R!Request, R!Exchange(r) PROVE Asked'
  <2>1. CASE R!Send(r)
    <3>1. stage[r] = "idle" /\ R!Due(r) /\ R!Goto(r, "sent") /\ token[r] = None
      BY <2>1 DEF R!Send, Asked
    <3>2. r = "manifest" => index \in List /\ SelectOf[index] # None
      BY <3>1, PullAssumption DEF R!Due
    <3> QED
      BY <1>1, <2>1, <3>1, <3>2, AskedGoto DEF R!Send, R!TypeOK
  <2>2. CASE R!Challenge(r)
    <3>1. stage[r] = "sent" /\ R!Goto(r, "challenged") /\ token[r] = None
      BY <2>2 DEF R!Challenge, Asked
    <3> QED
      BY <1>1, <2>2, <3>1, AskedGoto DEF R!Challenge, R!TypeOK, Asked
  <2>3. CASE R!FetchToken(r)
    <3>1. stage[r] = "challenged" /\ R!Goto(r, "retried") /\ token' = [token EXCEPT ![r] = "good"]
      BY <2>3 DEF R!FetchToken
    <3>2. token'[r] = "good"
      BY <1>1, <3>1 DEF R!TypeOK
    <3> QED
      BY <1>1, <2>3, <3>1, <3>2, AskedGoto DEF R!FetchToken, R!TypeOK, Asked
  <2>4. CASE R!Refused(r)
    <3>1. stage[r] = "retried" /\ R!Goto(r, "failed") /\ hurt # {}
      BY <2>4 DEF R!Refused, Asked
    <3> QED
      BY <1>1, <2>4, <3>1, AskedGoto DEF R!Refused, R!TypeOK
  <2> QED
    BY <1>3, <2>1, <2>2, <2>3, <2>4 DEF R!Exchange
<1>4. ASSUME NEW r \in R!Request, R!RequestFails(r) PROVE Asked'
  <2>1. /\ stage[r] \in {"sent", "challenged", "retried"}
        /\ R!Goto(r, "failed") /\ hurt' = hurt \cup {r}
    BY <1>4 DEF R!RequestFails
  <2> QED
    BY <1>1, <1>4, <2>1, AskedGoto DEF R!RequestFails, R!TypeOK
<1>5. ASSUME NEW r \in R!Request, R!Expire(r) PROVE Asked'
  <2>1. /\ token[r] = "good" /\ token' = [token EXCEPT ![r] = "expired"]
        /\ hurt' = IF stage[r] = "retried" THEN hurt \cup {r} ELSE hurt
        /\ UNCHANGED <<tag, stage, index, plan, source>>
    BY <1>5 DEF R!Expire
  <2>2. R!TypeOK'
    BY <1>1, <2>1 DEF R!TypeOK
  <2>3. token'[r] = "expired" /\ \A q \in R!Request : q # r => token'[q] = token[q]
    BY <1>1, <2>1 DEF R!TypeOK
  <2>4. stage[r] \notin {"idle", "sent", "challenged"}
    BY <2>1, PullAssumption DEF Asked
  <2>5. \A q \in R!Request :
          /\ stage'[q] \in {"idle", "sent", "challenged"} => token'[q] = None
          /\ stage'[q] = "retried" /\ token'[q] = "expired" => hurt' # {}
          /\ stage'[q] = "failed" => hurt' # {}
    BY <2>1, <2>3, <2>4 DEF Asked
  <2> QED
    BY <2>1, <2>2, <2>5 DEF Asked, Chosen
<1>6. CASE R!TagAnswer
  <2>1. /\ stage["tag"] \in {"sent", "retried"} /\ stage' = [stage EXCEPT !["tag"] = "answered"]
        /\ index' = tag /\ UNCHANGED <<tag, token, source, hurt>>
        /\ plan' = IF tag \in Manifest THEN [descriptor |-> tag, manifest |-> tag] ELSE plan
    BY <1>6 DEF R!TagAnswer, R!Served, R!Goto
  <2>2. index = None /\ plan = None /\ tag \in List \cup Manifest
    BY <2>1 DEF Asked, R!TypeOK
  <2>3. /\ stage'["tag"] = "answered" /\ stage'["manifest"] = stage["manifest"]
        /\ \A q \in R!Request : q # "tag" => stage'[q] = stage[q]
    BY <1>1, <1>2, <2>1 DEF R!TypeOK
  <2>4. stage["manifest"] \notin {"sent", "challenged", "retried", "answered"}
    BY <2>2, PullAssumption DEF Asked
  <2>5. R!TypeOK'
    BY <1>1, <1>2, <2>1, <2>2 DEF R!TypeOK
  <2>6. plan' # None =>
          /\ index' # None /\ Chosen(index') \in Manifest
          /\ plan' = [descriptor |-> Chosen(index'), manifest |-> Chosen(index')]
    BY <2>1, <2>2, PullAssumption DEF Chosen
  <2>7. \A q \in R!Request :
          /\ stage'[q] \in {"idle", "sent", "challenged"} => token'[q] = None
          /\ stage'[q] = "retried" /\ token'[q] = "expired" => hurt' # {}
          /\ stage'[q] = "failed" => hurt' # {}
    BY <2>1, <2>3 DEF Asked
  <2> QED
    BY <2>3, <2>4, <2>5, <2>6, <2>7 DEF Asked, Chosen
<1>7. CASE R!ManifestAnswer
  <2>1. /\ stage["manifest"] \in {"sent", "retried"}
        /\ stage' = [stage EXCEPT !["manifest"] = "answered"]
        /\ plan' = [descriptor |-> SelectOf[index], manifest |-> SelectOf[index]]
        /\ UNCHANGED <<tag, token, index, source, hurt>>
    BY <1>7 DEF R!ManifestAnswer, R!Served, R!Goto
  <2>2. index \in List /\ SelectOf[index] # None
    BY <2>1 DEF Asked
  <2>3. SelectOf[index] \in Manifest /\ index # None /\ Chosen(index) = SelectOf[index]
    BY <2>2, PullAssumption DEF Chosen
  <2>4. \A q \in R!Request : IF q = "manifest" THEN stage'[q] = "answered" ELSE stage'[q] = stage[q]
    BY <1>1, <1>2, <2>1 DEF R!TypeOK
  <2>5. R!TypeOK'
    BY <1>1, <1>2, <2>1, <2>3 DEF R!TypeOK
  <2>6. \A q \in R!Request :
          /\ stage'[q] \in {"idle", "sent", "challenged"} => token'[q] = None
          /\ stage'[q] = "retried" /\ token'[q] = "expired" => hurt' # {}
          /\ stage'[q] = "failed" => hurt' # {}
    BY <2>1, <2>4 DEF Asked
  <2>7. index' # None => stage'["tag"] = "answered"
    BY <1>2, <2>1, <2>4 DEF Asked
  <2> QED
    BY <2>1, <2>2, <2>3, <2>5, <2>6, <2>7 DEF Asked, Chosen
<1>8. CASE R!NoPlatform
  <2>1. stage["manifest"] = "idle" /\ R!Goto("manifest", "failed") /\ hurt' = hurt \cup {"manifest"}
    BY <1>8 DEF R!NoPlatform
  <2> QED
    BY <1>1, <1>2, <1>8, <2>1, AskedGoto DEF R!NoPlatform, R!TypeOK
<1>9. ASSUME NEW b \in Blob, R!BlobAnswer(b) \/ R!BlobCached(b) PROVE Asked'
  <2>1. /\ stage' = [stage EXCEPT ![b] = "answered"] /\ UNCHANGED <<tag, token, index, plan, hurt>>
        /\ source' = [source EXCEPT ![b] = "memory"] \/ source' = [source EXCEPT ![b] = "file"]
    BY <1>9 DEF R!BlobAnswer, R!BlobCached, R!Goto
  <2>2. b \in R!Request /\ b # "tag" /\ b # "manifest"
    BY <1>2, PullAssumption
  <2>3. \A q \in R!Request : IF q = b THEN stage'[q] = "answered" ELSE stage'[q] = stage[q]
    BY <1>1, <2>1, <2>2 DEF R!TypeOK
  <2>4. R!TypeOK'
    BY <1>1, <2>1, <2>2 DEF R!TypeOK
  <2>5. \A q \in R!Request :
          /\ stage'[q] \in {"idle", "sent", "challenged"} => token'[q] = None
          /\ stage'[q] = "retried" /\ token'[q] = "expired" => hurt' # {}
          /\ stage'[q] = "failed" => hurt' # {}
    BY <2>1, <2>3 DEF Asked
  <2>6. stage'["tag"] = stage["tag"] /\ stage'["manifest"] = stage["manifest"]
    BY <1>2, <2>2, <2>3
  <2> QED
    BY <2>1, <2>4, <2>5, <2>6 DEF Asked, Chosen
<1>10. ASSUME NEW t \in List \cup Manifest, R!Retag(t) PROVE Asked'
  BY <1>10 DEF R!Retag, Asked, R!TypeOK, Chosen
<1>11. CASE UNCHANGED registry
  BY <1>11 DEF registry, Asked, R!TypeOK, Chosen
<1> QED
  BY <1>3, <1>4, <1>5, <1>6, <1>7, <1>8, <1>9, <1>10, <1>11 DEF R!Answer

-----------------------------------------------------------------------------
(* The archive *)

\* The marks are no entries.
LEMMA Marks ==
  /\ D!End # D!Zero
  /\ \A d : <<"index", d>> \notin {D!End, D!Zero, <<"layout">>}
  /\ \A d, e : <<"blob", d, e>> \notin {D!End, D!Zero, <<"layout">>, <<"index", d>>, <<"index", e>>}
  /\ \A d, e, f : <<"blob", d, e>> # <<"index", f>>
  /\ \A d, e : <<"index", d>> = <<"index", e>> => d = e
  /\ <<"layout">> \notin {D!End, D!Zero}
BY DEF D!End, D!Zero

\* One entry after another, and the end after the last.
LEMMA ArchiveEntries ==
  ASSUME NEW d \in Manifest
  PROVE  /\ D!Archive(d, d) \in Seq(Item) /\ D!Archive(d, d) # <<>>
         /\ \A i \in 1..Len(D!Archive(d, d)) :
              /\ D!Archive(d, d)[i] # D!Zero
              /\ D!Archive(d, d)[i] = D!End => i = Len(D!Archive(d, d))
              /\ \A e : D!Archive(d, d)[i] = <<"index", e>> => e = d
         /\ <<"index", d>> \in Range(D!Archive(d, d))
         /\ <<"blob", d, d>> \in Range(D!Archive(d, d))
         /\ \A b \in Range(BlobsOf[d]) : <<"blob", b, b>> \in Range(D!Archive(d, d))
<1> DEFINE h == <<<<"layout">>, <<"index", d>>, <<"blob", d, d>>>>
           n == Len(BlobsOf[d])
           c == [i \in DOMAIN BlobsOf[d] |-> <<"blob", BlobsOf[d][i], BlobsOf[d][i]>>]
           a == h \o c \o <<D!End>>
<1>1. BlobsOf[d] \in Seq(Blob) /\ n \in Nat /\ DOMAIN BlobsOf[d] = 1..n
      /\ \A i \in 1..n : BlobsOf[d][i] \in Blob
  <2>1. BlobsOf[d] \in Seq(Blob)
    BY PullAssumption
  <2> QED
    BY <2>1
<1>2. /\ \A b \in Blob : <<"blob", b, b>> \in Item
      /\ <<"blob", d, d>> \in Item /\ <<"index", d>> \in Item /\ <<"layout">> \in Item
      /\ D!End \in Item
  BY DEF Item
<1>3. /\ c \in Seq(Item) /\ Len(c) = n
      /\ \A i \in 1..n : c[i] = <<"blob", BlobsOf[d][i], BlobsOf[d][i]>>
  BY <1>1, <1>2
<1>4. /\ h \in Seq(Item) /\ Len(h) = 3
      /\ h[1] = <<"layout">> /\ h[2] = <<"index", d>> /\ h[3] = <<"blob", d, d>>
  BY <1>2
<1>5. D!Archive(d, d) = a
  BY DEF D!Archive
<1> HIDE DEF h, c
<1>6. /\ a \in Seq(Item) /\ Len(a) = n + 4
      /\ \A i \in 1..(n + 4) :
           a[i] = IF i <= 3 THEN h[i] ELSE IF i <= n + 3 THEN c[i - 3] ELSE D!End
  <2>1. /\ h \o c \in Seq(Item) /\ Len(h \o c) = n + 3
        /\ \A i \in 1..(n + 3) : (h \o c)[i] = IF i <= 3 THEN h[i] ELSE c[i - 3]
    <3>1. /\ h \o c \in Seq(Item) /\ Len(h \o c) = Len(h) + Len(c)
          /\ \A i \in 1..(Len(h) + Len(c)) :
               (h \o c)[i] = IF i <= Len(h) THEN h[i] ELSE c[i - Len(h)]
      <4>1. h \in Seq(Item) /\ c \in Seq(Item)
        BY <1>3, <1>4
      <4> QED
        BY <4>1, ConcatProperties
    <3> HIDE DEF n
    <3>2. Len(h) + Len(c) = n + 3
      BY <1>1, <1>3, <1>4
    <3> QED
      BY <1>3, <1>4, <3>1, <3>2
  <2>2. <<D!End>> \in Seq(Item) /\ Len(<<D!End>>) = 1 /\ <<D!End>>[1] = D!End
    BY <1>2
  <2>3. /\ a \in Seq(Item) /\ Len(a) = n + 4
        /\ \A i \in 1..(n + 4) :
           a[i] = IF i <= n + 3 THEN (h \o c)[i] ELSE <<D!End>>[i - (n + 3)]
    BY <1>1, <2>1, <2>2
  <2> QED
    BY <1>1, <2>1, <2>2, <2>3
<1> HIDE DEF a
<1>7. ASSUME NEW i \in 1..(n + 4)
      PROVE  /\ a[i] # D!Zero
             /\ a[i] = D!End => i = n + 4
             /\ \A e : a[i] = <<"index", e>> => e = d
  <2>1. CASE i <= 3
    <3>1. a[i] = h[i] /\ i # n + 4 /\ (i = 1 \/ i = 2 \/ i = 3)
      BY <1>1, <1>6, <2>1
    <3>2. CASE i = 1
      BY <1>4, <3>1, <3>2, Marks
    <3>3. CASE i = 2
      BY <1>4, <3>1, <3>3, Marks
    <3>4. CASE i = 3
      BY <1>4, <3>1, <3>4, Marks
    <3> QED
      BY <3>1, <3>2, <3>3, <3>4
  <2>2. CASE i > 3 /\ i <= n + 3
    <3>1. i - 3 \in 1..n /\ a[i] = c[i - 3]
      BY <1>1, <1>6, <2>2
    <3>2. PICK x : a[i] = <<"blob", x, x>>
      BY <1>3, <3>1
    <3> QED
      BY <3>2, Marks
  <2>3. CASE i = n + 4
    <3>1. a[i] = D!End
      BY <1>1, <1>6, <2>3
    <3> QED
      BY <2>3, <3>1, Marks
  <2> QED
    BY <1>1, <2>1, <2>2, <2>3
<1>8. DOMAIN a = 1..(n + 4) /\ a # <<>>
  BY <1>1, <1>6
<1>9. <<"index", d>> \in Range(a) /\ <<"blob", d, d>> \in Range(a)
  <2>1. 2 \in DOMAIN a /\ 3 \in DOMAIN a /\ a[2] = h[2] /\ a[3] = h[3]
    BY <1>1, <1>6, <1>8
  <2> QED
    BY <1>4, <2>1 DEF Range
<1>10. ASSUME NEW b \in Range(BlobsOf[d]) PROVE <<"blob", b, b>> \in Range(a)
  <2>1. PICK i \in 1..n : b = BlobsOf[d][i]
    BY <1>1 DEF Range
  <2>2. i + 3 \in DOMAIN a /\ a[i + 3] = c[i]
    BY <1>1, <1>6, <1>8
  <2> QED
    BY <1>3, <2>1, <2>2 DEF Range
<1> HIDE DEF n
<1> QED
  BY <1>5, <1>6, <1>7, <1>8, <1>9, <1>10

-----------------------------------------------------------------------------
(* What the client writes *)

LEMMA ConcatAppend ==
  ASSUME NEW S, NEW s \in Seq(S), NEW t \in Seq(S), NEW x \in S
  PROVE  s \o Append(t, x) = Append(s \o t, x)
<1>1. Append(t, x) = t \o <<x>> /\ <<x>> \in Seq(S) /\ s \o t \in Seq(S)
  BY AppendIsConcat
<1>2. Append(s \o t, x) = (s \o t) \o <<x>>
  BY <1>1, AppendIsConcat
<1> QED
  BY <1>1, <1>2, ConcatAssociative

\* What has been written, and one more.
LEMMA SubSeqNext ==
  ASSUME NEW S, NEW s \in Seq(S), NEW n \in Nat, n < Len(s)
  PROVE  /\ Append(SubSeq(s, 1, n), s[n + 1]) = SubSeq(s, 1, n + 1)
         /\ s[n + 1] \in S
<1>1. n + 1 \in 1..Len(s)
  OBVIOUS
<1>2. (n + 1) - 1 = n
  OBVIOUS
<1> QED
  BY <1>1, <1>2, SubSeqRecursiveSecond

LEMMA Lengths ==
  ASSUME Typed
  PROVE  /\ sent \in Seq(Item) /\ archive \in Seq(Item) /\ req \in Seq(Item) /\ got \in Seq(Item)
         /\ Len(sent) \in Nat /\ Len(archive) \in Nat /\ Len(req) \in Nat /\ Len(got) \in Nat
<1>1. sent \in Seq(Item) /\ archive \in Seq(Item) /\ req \in Seq(Item) /\ got \in Seq(Item)
  BY DEF Typed
<1> QED
  BY <1>1, LenProperties

\* What is written arrives in order.
LEMMA Written ==
  ASSUME Typed, Sent, NEW x \in Item, D!Write(x)
  PROVE  /\ sent' = Append(sent, x) /\ sent' \in Seq(Item)
         /\ req' \in Seq(Item) /\ Len(req') <= ReqCap
         /\ got \o req' = sent'
<1>1. /\ req' = Append(req, x) /\ sent' = Append(sent, x) /\ Len(req) < ReqCap
      /\ req \in Seq(Item) /\ got \in Seq(Item) /\ sent \in Seq(Item) /\ got \o req = sent
  BY DEF D!Write, Typed, Sent
<1>2. ReqCap \in Nat
  BY PullAssumption
<1>3. Len(Append(req, x)) = Len(req) + 1 /\ Len(req) \in Nat
  BY <1>1, AppendProperties
<1>4. Append(req, x) \in Seq(Item) /\ Append(sent, x) \in Seq(Item)
  BY <1>1, AppendProperties
<1>5. got \o Append(req, x) = Append(got \o req, x)
  BY <1>1, ConcatAppend
<1> QED
  BY <1>1, <1>2, <1>3, <1>4, <1>5

\* The next entry of the archive.
LEMMA DueEntry ==
  ASSUME Typed, Sent, client = "stream", ~D!Complete
  PROVE  /\ D!Due \in Item /\ Len(sent) < Len(archive) /\ Len(sent) \in Nat
         /\ Append(sent, D!Due) = SubSeq(archive, 1, Len(sent) + 1)
<1>1. sent \in Seq(Item) /\ archive \in Seq(Item) /\ Len(sent) \in Nat /\ Len(archive) \in Nat
  BY Lengths
<1>2. Len(sent) <= Len(archive) /\ sent = SubSeq(archive, 1, Len(sent))
  BY DEF Sent, Partly
<1>3. Len(sent) < Len(archive)
  BY <1>1, <1>2 DEF D!Complete
<1>4. /\ Append(SubSeq(archive, 1, Len(sent)), archive[Len(sent) + 1])
           = SubSeq(archive, 1, Len(sent) + 1)
      /\ archive[Len(sent) + 1] \in Item
  BY <1>1, <1>3, SubSeqNext
<1> QED
  BY <1>1, <1>2, <1>3, <1>4 DEF D!Due

\* The types and the order hold while the client writes.
LEMMA SendKeeps ==
  ASSUME Typed, Sent, D!Send, UNCHANGED <<plan, index>>
  PROVE  Typed' /\ Sent'
<1>0. /\ D!End \in Item /\ D!Zero \in Item
  BY DEF Item
<1>1. CASE D!SendEntry
  <2>1. client = "stream" /\ ~D!Complete /\ D!Write(D!Due) /\ onDisk' \subseteq onDisk
        /\ torn' \subseteq torn \cup {D!Due}
        /\ UNCHANGED <<client, archive, lost, resp, pending, engine, got, out, early, head,
                       loaded, broken>>
    BY <1>1 DEF D!SendEntry, D!EngineUnchanged
  <2>2. /\ sent' = Append(sent, D!Due) /\ sent' \in Seq(Item) /\ req' \in Seq(Item)
        /\ Len(req') <= ReqCap /\ got \o req' = sent'
    BY <2>1, DueEntry, Written
  <2>3. /\ Len(sent) < Len(archive) /\ Len(sent) \in Nat /\ Len(archive) \in Nat
        /\ sent' = SubSeq(archive, 1, Len(sent) + 1) /\ D!Due \in Item /\ sent \in Seq(Item)
    BY <2>1, <2>2, DueEntry, Lengths
  <2>6. Len(sent') = Len(sent) + 1
    BY <2>2, <2>3, AppendProperties
  <2>4. Partly'
    BY <2>1, <2>3, <2>6 DEF Partly
  <2>5. Typed'
    BY <2>1, <2>2, <2>3 DEF Typed
  <2> QED
    BY <2>1, <2>2, <2>4, <2>5 DEF Sent
<1>2. CASE D!EntryFails
  <2>1. client = "stream" /\ ~D!Complete /\ D!Due \in lost /\ client' = "abandon"
        /\ UNCHANGED <<archive, onDisk, lost, torn, sent, req, resp, pending, engine, got, out,
                       early, head, loaded, broken>>
    BY <1>2 DEF D!EntryFails, D!EngineUnchanged
  <2>2. Len(sent) < Len(archive)
    BY <2>1, DueEntry
  <2> QED
    BY <2>1, <2>2 DEF Typed, Sent, Partly
<1>3. CASE D!Abandon
  <2>1. /\ client = "abandon" /\ client' = "err"
        /\ UNCHANGED <<archive, onDisk, lost, torn, resp, pending, engine, got, out, early, head,
                       loaded, broken>>
        /\ D!Write(D!End) \/ UNCHANGED <<req, sent>>
    BY <1>3 DEF D!Abandon, D!EngineUnchanged
  <2>2. CASE UNCHANGED <<req, sent>>
    BY <2>1, <2>2 DEF Typed, Sent, Partly
  <2>3. CASE D!Write(D!End)
    <3>1. /\ sent' = Append(sent, D!End) /\ sent' \in Seq(Item) /\ req' \in Seq(Item)
          /\ Len(req') <= ReqCap /\ got \o req' = sent'
      BY <1>0, <2>3, Written
    <3>2. /\ lost # {} /\ Len(sent) < Len(archive) /\ sent = SubSeq(archive, 1, Len(sent))
          /\ Len(sent) \in 0..Len(archive)
      BY <2>1, Lengths DEF Sent, Partly
    <3>3. Cut'
      BY <2>1, <3>1, <3>2 DEF Cut
    <3> QED
      BY <2>1, <3>1, <3>3 DEF Typed, Sent
  <2> QED
    BY <2>1, <2>2, <2>3
<1>4. CASE D!Finish
  <2>1. /\ client = "stream" /\ D!Complete /\ D!Write(D!Zero) /\ client' = "head"
        /\ UNCHANGED <<archive, onDisk, lost, torn, resp, pending, engine, got, out, early, head,
                       loaded, broken>>
    BY <1>4 DEF D!Finish, D!EngineUnchanged
  <2>2. /\ sent' = Append(sent, D!Zero) /\ sent' \in Seq(Item) /\ req' \in Seq(Item)
        /\ Len(req') <= ReqCap /\ got \o req' = sent'
    BY <1>0, <2>1, Written
  <2>3. archive # <<>> /\ sent = archive
    <3>1. archive # <<>> /\ sent = SubSeq(archive, 1, Len(archive))
      BY <2>1 DEF Sent, Partly, D!Complete
    <3> QED
      BY <3>1, Lengths, SubSeqFull
  <2> QED
    BY <2>1, <2>2, <2>3 DEF Typed, Sent, Ended
<1>5. CASE D!BrokenPipe
  BY <1>5 DEF D!BrokenPipe, D!EngineUnchanged, Typed, Sent, Partly
<1> QED
  BY <1>1, <1>2, <1>3, <1>4, <1>5 DEF D!Send

\* Nothing is written, and nothing lost, when the client reads or the engine moves.
LEMMA SentSame ==
  ASSUME Sent, UNCHANGED <<archive, sent, lost, plan, index>>, got' \o req' = got \o req,
         broken \subseteq broken',
         \/ UNCHANGED client /\ (client = "off" => UNCHANGED engine)
         \/ /\ client \in {"head", "refused", "progress"}
            /\ client' \in {"refused", "progress", "ok", "err"}
  PROVE  Sent'
<1>1. (Partly => Partly') /\ (Ended => Ended') /\ (Cut => Cut')
  BY DEF Partly, Ended, Cut
<1> QED
  BY <1>1 DEF Sent

\* The answer: the types while the client reads it.
LEMMA ReceiveKeeps ==
  ASSUME Typed, Sent, D!Receive, UNCHANGED <<plan, index>>,
         client = "progress" => Range(Reply) \subseteq Line
  PROVE  /\ Typed' /\ Sent'
         /\ UNCHANGED <<archive, onDisk, lost, torn, sent, req, engine, got, out, early, head, loaded,
                        broken>>
         /\ client \in {"head", "refused", "progress"}
         /\ client' \in {"refused", "progress", "ok", "err"}
<1>1. /\ UNCHANGED <<archive, onDisk, lost, torn, sent, req, engine, got, out, early, head, loaded,
                     broken>>
      /\ client \in {"head", "refused", "progress"}
      /\ client' \in {"refused", "progress", "ok", "err"}
      /\ resp' = resp \/ (resp # <<>> /\ resp' = Tail(resp))
  BY DEF D!Receive, D!ReadHead, D!NoHead, D!ReadRefusal, D!ReadLine, D!AnswerEnds, D!AnswerCut,
    D!ClientDone, D!Read, D!EngineUnchanged
<1>2. Sent'
  BY <1>1, SentSame
<1>3. resp' \in Seq(Seq(Word)) /\ Len(resp') <= RespCap
  <2>1. resp \in Seq(Seq(Word)) /\ Len(resp) <= RespCap /\ RespCap \in Nat
    BY PullAssumption DEF Typed
  <2>2. resp # <<>> =>
          Tail(resp) \in Seq(Seq(Word)) /\ Len(Tail(resp)) = Len(resp) - 1 /\ Len(resp) \in Nat
    BY <2>1, EmptySeq
  <2>3. resp # <<>> => Len(Tail(resp)) <= RespCap
    BY <2>1, <2>2
  <2> QED
    BY <1>1, <2>1, <2>2, <2>3
<1>4. pending' \in Seq({"line", "half", "rest"})
  <2>1. CASE UNCHANGED pending
    BY <2>1 DEF Typed
  <2>2. CASE D!ReadLine
    <3> DEFINE text == Append(pending, Head(resp)[1])
    <3>1. client = "progress" /\ resp # <<>> /\ Head(resp) # D!Zero
          /\ (pending' = text \/ pending' = D!Incomplete(text))
      BY <2>2 DEF D!ReadLine
    <3>2. Head(resp) \in Range(Reply)
      <4>1. resp \in Seq(Seq(Word)) /\ out \in Seq(Seq(Word))
        BY DEF Typed
      <4>2. Head(resp) \in Range(resp)
        BY <3>1, <4>1, RangeTail
      <4> QED
        BY <4>1, <4>2, RangeConcatenation DEF Reply
    <3>3. Head(resp)[1] \in {"line", "half", "rest"}
      BY <3>1, <3>2 DEF Line
    <3>4. text \in Seq({"line", "half", "rest"})
      <4>1. pending \in Seq({"line", "half", "rest"})
        BY DEF Typed
      <4> QED
        BY <3>3, <4>1, AppendProperties
    <3> HIDE DEF text
    <3>5. D!Incomplete(text) \in Seq({"line", "half", "rest"})
      <4>1. <<>> \in Seq({"line", "half", "rest"}) /\ <<"half">> \in Seq({"line", "half", "rest"})
        OBVIOUS
      <4> QED
        BY <4>1 DEF D!Incomplete
    <3> QED
      BY <3>1, <3>4, <3>5
  <2> QED
    BY <2>1, <2>2 DEF D!Receive, D!ReadHead, D!NoHead, D!ReadRefusal, D!AnswerEnds, D!AnswerCut
<1> QED
  BY <1>1, <1>2, <1>3, <1>4 DEF Typed

-----------------------------------------------------------------------------
(* What the engine says *)

\* Something it says at a time, after its status if that was not sent yet.
Text(a) == a \in Seq(Seq(Word)) /\ a # <<>> /\ Ordered(a) /\ Range(a) \subseteq Line

Said(a) ==
  /\ Text(a) /\ out = <<>>
  /\ head' \in {"200", "200 chunked", "500"} /\ (head # None => head' = head)
  /\ out' = IF head = None THEN <<<<head'>>>> \o a ELSE a

\* Lines, the two ways to send an error, and the end of a chunked answer.
LEMMA Texts ==
  ASSUME NEW text \in {<<<<"line">>>>, <<<<"half">>>>, <<<<"half">>, <<"rest">>>>},
         NEW end \in {<<>>, <<D!Zero>>}
  PROVE  /\ Text(text \o end) /\ Range(text \o end) = Range(text) \cup Range(end)
         /\ Range(end) \subseteq {D!Zero} /\ (end # <<>> => D!Zero \in Range(end))
         /\ D!Zero \notin Range(text)
         /\ text # <<<<"line">>>> => <<"half">> \in Range(text)
         /\ text = <<<<"line">>>> => Range(text) = {<<"line">>}
         /\ text \in Seq(Seq(Word)) /\ end \in Seq(Seq(Word)) /\ text # <<>>
<1>1. /\ <<"line">> \in Seq(Word) /\ <<"half">> \in Seq(Word) /\ <<"rest">> \in Seq(Word)
      /\ D!Zero \in Seq(Word)
  BY DEF Word, D!Zero
<1>2. /\ <<"line">> # D!Zero /\ <<"half">> # D!Zero /\ <<"rest">> # D!Zero
      /\ <<"half">> # <<"line">> /\ <<"rest">> # <<"half">>
  BY DEF D!Zero
<1>3. \A a, b : Range(<<>>) = {} /\ Range(<<a>>) = {a} /\ Range(<<a, b>>) = {a, b}
  BY DEF Range
<1>4. text \in Seq(Seq(Word)) /\ end \in Seq(Seq(Word)) /\ text # <<>>
  <2>1. \A S : <<>> \in Seq(S) /\ \A a, b \in S : <<a>> \in Seq(S) /\ <<a, b>> \in Seq(S)
    OBVIOUS
  <2>2. \A a, b : <<a>> # <<>> /\ <<a, b>> # <<>>
    OBVIOUS
  <2>3. text # <<>>
    BY <2>2
  <2>4. text \in Seq(Seq(Word)) /\ end \in Seq(Seq(Word))
    BY <1>1, <2>1
  <2> QED
    BY <2>3, <2>4
<1>5. /\ Range(end) \subseteq {D!Zero} /\ (end # <<>> => D!Zero \in Range(end))
      /\ D!Zero \notin Range(text) /\ Range(text) \subseteq Line
      /\ text # <<<<"line">>>> => <<"half">> \in Range(text)
      /\ text = <<<<"line">>>> => Range(text) = {<<"line">>}
  BY <1>2, <1>3 DEF Line
<1>6. Range(text \o end) = Range(text) \cup Range(end)
  BY <1>4, RangeConcatenation
<1>7. text \o end \in Seq(Seq(Word)) /\ text \o end # <<>>
  BY <1>4, ConcatProperties, ConcatEqualIffEmpty
<1>8. Ordered(text \o end)
  <2>1. Ordered(text) /\ Ordered(end)
    BY <1>2 DEF Ordered
  <2>2. CASE end = <<>>
    BY <1>4, <2>1, <2>2, ConcatEmptySeq
  <2>3. CASE end = <<D!Zero>>
    BY <1>1, <1>4, <1>5, <2>1, <2>3, OrderedEnd
  <2> QED
    BY <2>2, <2>3
<1> QED
  BY <1>4, <1>5, <1>6, <1>7, <1>8 DEF Text, Line

\* It says a line, or nothing, when it takes from the socket.
LEMMA TakeSays ==
  ASSUME Typed, D!Take
  PROVE  UNCHANGED <<out, head, early>> \/ (engine = "reading" /\ Said(<<<<"line">>>>)
                                     /\ early < MaxEarly /\ early' = early + 1
                                     /\ (head' = "500" => head = "500"))
<1>1. Text(<<<<"line">>>>)
  <2>1. Text(<<<<"line">>>> \o <<>>)
    BY Texts
  <2> QED
    BY <2>1
<1> QED
  BY <1>1 DEF Typed, D!Take, D!Say, Said

-----------------------------------------------------------------------------
(* What the engine has of the archive *)

\* Where the client has got to, once it has started to write.
LEMMA Stages ==
  ASSUME Typed, Sent, sent # <<>>
  PROVE  /\ Partly \/ Ended \/ Cut
         /\ archive # <<>> /\ client # "off"
<1>1. client # "off"
  BY DEF Sent
<1>2. Partly \/ Ended \/ Cut
  BY <1>1 DEF Sent, Typed
<1>3. archive # <<>>
  <2> SUFFICES ASSUME archive = <<>> PROVE FALSE
    OBVIOUS
  <2>1. Len(archive) = 0
    OBVIOUS
  <2>2. ~Partly
    <3> SUFFICES ASSUME Partly PROVE FALSE
      OBVIOUS
    <3>1. Len(sent) = 0
      BY <2>1, Lengths DEF Partly
    <3> QED
      BY <3>1, Lengths, EmptySeq
  <2>3. ~Cut
    BY <2>1 DEF Cut
  <2> QED
    BY <1>2, <2>2, <2>3 DEF Ended
<1> QED
  BY <1>1, <1>2, <1>3

\* What the engine has read is the archive from its start, and at most one mark.
LEMMA Reached ==
  ASSUME Typed, Sent, NEW i \in DOMAIN got
  PROVE  /\ got[i] \in Range(archive) \cup {D!End, D!Zero}
         /\ i <= Len(archive) => got[i] = archive[i] \/ (lost # {} /\ got[i] = D!End)
         /\ i > Len(archive) => got[i] = D!Zero
         /\ sent # <<>> /\ sent[i] = got[i] /\ i \in DOMAIN sent
<1>0. /\ sent \in Seq(Item) /\ archive \in Seq(Item) /\ req \in Seq(Item) /\ got \in Seq(Item)
      /\ Len(sent) \in Nat /\ Len(archive) \in Nat /\ Len(req) \in Nat /\ Len(got) \in Nat
  BY Lengths
<1>1. got \o req = sent
  BY DEF Sent
<1>2. /\ i \in 1..Len(got) /\ i \in Nat /\ i >= 1
  BY <1>0, LenProperties
<1>3. i \in 1..Len(sent) /\ sent[i] = got[i] /\ DOMAIN sent = 1..Len(sent) /\ sent # <<>>
  <2>1. /\ Len(got \o req) = Len(got) + Len(req)
        /\ (got \o req)[i] = got[i]
    BY <1>0, <1>2, ConcatProperties
  <2>2. i \in 1..Len(sent)
    BY <1>0, <1>1, <1>2, <2>1
  <2>3. DOMAIN sent = 1..Len(sent)
    BY <1>0, LenProperties
  <2> QED
    BY <1>1, <2>1, <2>2, <2>3, EmptySeq
<1>4. \A k \in 1..Len(archive) : archive[k] \in Range(archive)
  BY <1>0, LenProperties DEF Range
<1>5. CASE Partly
  <2>1. /\ Len(sent) <= Len(archive) /\ sent = SubSeq(archive, 1, Len(sent))
    BY <1>5 DEF Partly
  <2>2. sent[i] = archive[i] /\ i <= Len(archive)
    <3>1. \A m \in Nat : \A k \in 1..m : SubSeq(archive, 1, m)[k] = archive[k]
      BY <1>0
    <3>2. SubSeq(archive, 1, Len(sent))[i] = archive[i]
      BY <1>0, <1>3, <3>1
    <3> QED
      BY <1>0, <1>3, <2>1, <3>2
  <2> QED
    BY <1>0, <1>2, <1>3, <1>4, <2>2
<1>6. CASE Ended
  <2>1. /\ sent = Append(archive, D!Zero) /\ Len(sent) = Len(archive) + 1
        /\ \A k \in 1..Len(archive) : sent[k] = archive[k]
        /\ sent[Len(archive) + 1] = D!Zero
    <3>1. D!Zero \in Item /\ sent = Append(archive, D!Zero)
      BY <1>6 DEF Ended, Item
    <3> QED
      BY <1>0, <3>1, AppendProperties
  <2> QED
    BY <1>0, <1>2, <1>3, <1>4, <2>1
<1>7. CASE Cut
  <2>1. PICK n \in 0..Len(archive) : n < Len(archive) /\ sent = Append(SubSeq(archive, 1, n), D!End)
    BY <1>7 DEF Cut
  <2>2. /\ SubSeq(archive, 1, n) \in Seq(Item) /\ Len(SubSeq(archive, 1, n)) = n
        /\ \A k \in 1..n : SubSeq(archive, 1, n)[k] = archive[k]
    BY <1>0, <2>1
  <2>3. D!End \in Item
    BY DEF Item
  <2>4. /\ Len(sent) = n + 1 /\ \A k \in 1..n : sent[k] = archive[k]
        /\ sent[n + 1] = D!End
    BY <2>1, <2>2, <2>3, AppendProperties
  <2>5. lost # {} /\ (i <= n \/ i = n + 1) /\ i <= Len(archive)
    BY <1>0, <1>2, <1>3, <1>7, <2>1, <2>4 DEF Cut
  <2>6. i \in 1..Len(archive)
    BY <1>0, <1>2, <2>5
  <2>7. CASE i = n + 1
    BY <1>0, <1>2, <1>3, <2>4, <2>5, <2>7
  <2>8. CASE i <= n
    <3>1. got[i] = archive[i]
      BY <1>0, <1>2, <1>3, <2>1, <2>4, <2>8
    <3> QED
      BY <1>0, <1>2, <1>3, <1>4, <2>5, <2>6, <3>1
  <2> QED
    BY <2>5, <2>7, <2>8
<1> QED
  BY <1>3, <1>5, <1>6, <1>7, Stages

\* The archive is that of the manifest that was chosen.
LEMMA Owned ==
  ASSUME Typed, Asked, Sent, archive # <<>>
  PROVE  /\ Chosen(index) \in Manifest
         /\ archive = D!Archive(Chosen(index), Chosen(index))
BY DEF Asked, Sent

LEMMA GoodMeans ==
  ASSUME NEW d
  PROVE  D!Good(d) <=>
           /\ <<"index", d>> \in Range(got) /\ <<"blob", d, d>> \in Range(got)
           /\ \A b \in Range(BlobsOf[d]) : <<"blob", b, b>> \in Range(got) \ torn
BY DEF D!Good, D!Range, Range

\* Nothing else can be loaded than what the archive is of.
LEMMA GoodIsChosen ==
  ASSUME Typed, Asked, Sent, NEW d, D!Good(d)
  PROVE  d = Chosen(index)
<1>1. PICK i \in DOMAIN got : got[i] = <<"index", d>>
  BY GoodMeans DEF Range
<1>2. <<"index", d>> \in Range(archive) /\ archive # <<>>
  <2>1. <<"index", d>> \in Range(archive) \cup {D!End, D!Zero} /\ sent # <<>>
    BY <1>1, Reached
  <2> QED
    BY <2>1, Marks, Stages
<1>3. PICK k \in DOMAIN archive : archive[k] = <<"index", d>>
  BY <1>2 DEF Range
<1>4. k \in 1..Len(archive)
  BY Lengths, LenProperties
<1> QED
  BY <1>2, <1>3, <1>4, Owned, ArchiveEntries

\* With nothing lost and nothing torn, the engine that has the end has everything.
LEMMA WholeIsGood ==
  ASSUME Typed, Asked, Sent, lost = {}, torn = {}, got # <<>>, Last(got) \in {D!End, D!Zero}
  PROVE  Chosen(index) \in Manifest /\ D!Good(Chosen(index))
<1> DEFINE n == Len(got)
<1>0. /\ archive \in Seq(Item) /\ got \in Seq(Item) /\ Len(archive) \in Nat /\ n \in Nat
      /\ DOMAIN got = 1..n /\ DOMAIN archive = 1..Len(archive)
  BY Lengths, LenProperties
<1>1. n \in DOMAIN got /\ got[n] = Last(got) /\ n >= 1
  <2>1. n # 0
    BY <1>0, EmptySeq
  <2> QED
    BY <1>0, <2>1 DEF Last
<1>2. sent # <<>> /\ archive # <<>>
  BY <1>1, Reached, Stages
<1>3. Chosen(index) \in Manifest /\ archive = D!Archive(Chosen(index), Chosen(index))
  BY <1>2, Owned
<1> HIDE DEF n
<1>4. n >= Len(archive)
  <2> SUFFICES ASSUME n < Len(archive) PROVE FALSE
    BY <1>0
  <2>1. got[n] = archive[n]
    BY <1>0, <1>1, Reached
  <2>2. n \in 1..Len(archive)
    BY <1>0, <1>1
  <2>3. archive[n] = D!End \/ archive[n] = D!Zero
    BY <1>1, <2>1
  <2>4. n = Len(archive)
    BY <1>3, <2>2, <2>3, ArchiveEntries
  <2> QED
    BY <1>0, <2>4
<1>5. Range(archive) \subseteq Range(got)
  <2> SUFFICES ASSUME NEW i \in DOMAIN archive PROVE archive[i] \in Range(got)
    BY DEF Range
  <2>1. i \in DOMAIN got /\ i <= Len(archive)
    BY <1>0, <1>4
  <2>2. got[i] = archive[i]
    BY <2>1, Reached
  <2> QED
    BY <2>1, <2>2 DEF Range
<1> QED
  BY <1>3, <1>5, ArchiveEntries, GoodMeans

\* The end of the body is in the socket only after the whole archive.
LEMMA ZeroIsLast ==
  ASSUME Typed, Asked, Sent, D!Zero \in Range(sent)
  PROVE  /\ sent = Append(D!Archive(Chosen(index), Chosen(index)), D!Zero)
         /\ ~Partly
<1>0. /\ sent \in Seq(Item) /\ archive \in Seq(Item) /\ Len(sent) \in Nat /\ Len(archive) \in Nat
  BY Lengths
<1>1. PICK i \in DOMAIN sent : sent[i] = D!Zero
  BY DEF Range
<1>2. i \in 1..Len(sent) /\ sent # <<>>
  BY <1>0, LenProperties, EmptySeq
<1>3. archive # <<>> /\ (Partly \/ Ended \/ Cut)
  BY <1>2, Stages
<1>4. \A k \in 1..Len(archive) : archive[k] # D!Zero
  BY <1>3, Owned, ArchiveEntries
<1>5. ~Partly
  <2> SUFFICES ASSUME Partly PROVE FALSE
    OBVIOUS
  <2>1. Len(sent) <= Len(archive) /\ sent = SubSeq(archive, 1, Len(sent))
    BY DEF Partly
  <2>2. SubSeq(archive, 1, Len(sent))[i] = archive[i]
    <3>1. \A m \in Nat : \A k \in 1..m : SubSeq(archive, 1, m)[k] = archive[k]
      BY <1>0
    <3> QED
      BY <1>0, <1>2, <3>1
  <2> QED
    BY <1>0, <1>1, <1>2, <1>4, <2>1, <2>2
<1>6. ~Cut
  <2> SUFFICES ASSUME Cut PROVE FALSE
    OBVIOUS
  <2>1. PICK n \in 0..Len(archive) : n < Len(archive) /\ sent = Append(SubSeq(archive, 1, n), D!End)
    BY DEF Cut
  <2>2. /\ SubSeq(archive, 1, n) \in Seq(Item) /\ Len(SubSeq(archive, 1, n)) = n
        /\ \A k \in 1..n : SubSeq(archive, 1, n)[k] = archive[k]
    BY <1>0, <2>1
  <2>3. D!End \in Item
    BY DEF Item
  <2>4. /\ Len(sent) = n + 1 /\ \A k \in 1..n : sent[k] = archive[k]
        /\ sent[n + 1] = D!End
    BY <2>1, <2>2, <2>3, AppendProperties
  <2> QED
    BY <1>0, <1>1, <1>2, <1>4, <2>1, <2>4, Marks
<1> QED
  BY <1>3, <1>5, <1>6, Owned DEF Ended

\* It loads: success, or an error; and the end of the answer if that is chunked.
LEMMA LoadSays ==
  ASSUME Typed, Served, D!Load
  PROVE  \E a :
           /\ Said(a) /\ (D!Zero \in Range(a) <=> head' = "200 chunked") /\ head' # "500"
           /\ \/ /\ loaded' \in Manifest /\ D!Good(loaded') /\ UNCHANGED broken
                 /\ Range(a) \subseteq {<<"line">>, D!Zero}
              \/ /\ UNCHANGED loaded /\ <<"half">> \in Range(a)
                 /\ \/ (\A d \in Manifest : ~D!Good(d)) /\ UNCHANGED broken
                    \/ broken' = broken \cup {"load"}
<1>1. /\ engine = "reading" /\ out = <<>> /\ DOMAIN BlobsOf = Manifest
      /\ head \in {None, "200", "200 chunked"} /\ None \notin {"200", "200 chunked"}
  BY PullAssumption DEF D!Load, Served, Typed
<1> DEFINE Start(h) == IF head = None THEN <<<<h>>>> ELSE <<>>
           Finis(h) == IF h = "200 chunked" THEN <<D!Zero>> ELSE <<>>
           Errors == {<<<<"half">>>>, <<<<"half">>, <<"rest">>>>}
<1>2. PICK h \in (IF head = None THEN {"200", "200 chunked"} ELSE {head}) :
        /\ head' = h
        /\ \/ /\ \E d \in DOMAIN BlobsOf : D!Good(d) /\ loaded' = d
              /\ out' = Start(h) \o <<<<"line">>>> \o Finis(h)
              /\ UNCHANGED broken
           \/ /\ \/ (\A d \in DOMAIN BlobsOf : ~D!Good(d)) /\ UNCHANGED broken
                 \/ "engine" \in Faults /\ broken' = broken \cup {"load"}
              /\ UNCHANGED loaded
              /\ \E error \in Errors : out' = Start(h) \o error \o Finis(h)
  BY DEF D!Load
<1>3. h \in {"200", "200 chunked"} /\ (head # None => h = head)
  BY <1>1, <1>2
<1>4. Start(h) \in Seq(Seq(Word))
  <2>1. h \in Word
    BY <1>3 DEF Word
  <2> QED
    BY <2>1, Status, Empty
<1>5. Finis(h) \in {<<>>, <<D!Zero>>} /\ (Finis(h) # <<>> <=> h = "200 chunked")
  BY <1>3
<1>6. ASSUME NEW t \in {<<<<"line">>>>} \cup Errors, out' = Start(h) \o t \o Finis(h)
      PROVE  Said(t \o Finis(h)) /\ (D!Zero \in Range(t \o Finis(h)) <=> head' = "200 chunked")
  <2>1. /\ Text(t \o Finis(h)) /\ Range(t \o Finis(h)) = Range(t) \cup Range(Finis(h))
        /\ Range(Finis(h)) \subseteq {D!Zero} /\ (Finis(h) # <<>> => D!Zero \in Range(Finis(h)))
        /\ D!Zero \notin Range(t) /\ t \in Seq(Seq(Word)) /\ Finis(h) \in Seq(Seq(Word))
    BY <1>5, Texts
  <2>2. Finis(h) = <<>> => Range(Finis(h)) = {}
    BY Empty
  <2>3. out' = Start(h) \o (t \o Finis(h))
    <3> DEFINE u == Start(h)
               v == Finis(h)
    <3>1. out' = u \o t \o v /\ u \in Seq(Seq(Word)) /\ v \in Seq(Seq(Word)) /\ t \in Seq(Seq(Word))
      BY <1>4, <1>6, <2>1
    <3> HIDE DEF u, v
    <3>2. out' = u \o (t \o v)
      BY <3>1, Joined DEF Answers
    <3> QED
      BY <3>2 DEF u, v
  <2>4. head # None => Start(h) \o (t \o Finis(h)) = t \o Finis(h)
    <3>1. t \o Finis(h) \in Seq(Seq(Word))
      BY <2>1 DEF Text
    <3> QED
      BY <3>1, ConcatEmptySeq
  <2> HIDE DEF Finis
  <2> QED
    BY <1>1, <1>2, <1>3, <1>5, <2>1, <2>2, <2>3, <2>4 DEF Said
<1>7. ASSUME NEW t \in {<<<<"line">>>>} \cup Errors
      PROVE  /\ t = <<<<"line">>>> => Range(t \o Finis(h)) \subseteq {<<"line">>, D!Zero}
             /\ t # <<<<"line">>>> => <<"half">> \in Range(t \o Finis(h))
  BY <1>5, Texts
<1>8. <<<<"line">>>> \notin Errors
  OBVIOUS
<1> HIDE DEF Start, Finis, Errors
<1> QED
  BY <1>1, <1>2, <1>3, <1>6, <1>7, <1>8

\* It refuses: with its status, or with an error.
LEMMA RefuseSays ==
  ASSUME Typed, D!Refuse
  PROVE  \E a :
           /\ Said(a) /\ D!Zero \notin Range(a)
           /\ head' = "500" \/ <<"half">> \in Range(a)
<1>1. out = <<>> /\ head \in {None, "200", "200 chunked", "500"}
  BY DEF D!Refuse, Typed
<1>2. \/ head = None /\ head' = "500" /\ out' = <<<<"500">>, <<"line">>>>
      \/ D!Say(<<<<"half">>, <<"rest">>>>)
  BY DEF D!Refuse
<1>3. \A t \in {<<<<"line">>>>, <<<<"half">>, <<"rest">>>>} : Text(t) /\ D!Zero \notin Range(t)
  <2> SUFFICES ASSUME NEW t \in {<<<<"line">>>>, <<<<"half">>, <<"rest">>>>}
               PROVE  Text(t) /\ D!Zero \notin Range(t)
    OBVIOUS
  <2>1. Text(t \o <<>>) /\ D!Zero \notin Range(t) /\ t \in Seq(Seq(Word))
    BY Texts
  <2> QED
    BY <2>1, ConcatEmptySeq
<1>4. <<"half">> \in Range(<<<<"half">>, <<"rest">>>>)
  BY DEF Range
<1>5. CASE head = None /\ head' = "500" /\ out' = <<<<"500">>, <<"line">>>>
  <2>1. <<<<"500">>, <<"line">>>> = <<<<"500">>>> \o <<<<"line">>>>
    OBVIOUS
  <2> QED
    BY <1>1, <1>3, <1>5, <2>1 DEF Said
<1>6. CASE D!Say(<<<<"half">>, <<"rest">>>>)
  BY <1>1, <1>3, <1>4, <1>6, PullAssumption DEF Said, D!Say
<1> QED
  BY <1>2, <1>5, <1>6

\* What it says comes after what it has said; nothing comes before its status.
LEMMA SaidReply ==
  ASSUME Typed, NEW a, Said(a), UNCHANGED resp, head = None => Reply = <<>>
  PROVE  /\ out' \in Seq(Seq(Word)) /\ a \in Seq(Seq(Word)) /\ Reply \in Seq(Seq(Word))
         /\ head = None =>
              Reply' = <<<<head'>>>> \o a /\ Head(Reply') = <<head'>> /\ Tail(Reply') = a
         /\ head # None => Reply' = Reply \o a
         /\ Range(a) \subseteq Range(Reply')
         /\ Range(Reply') \subseteq Range(Reply) \cup Range(a) \cup {<<head'>>}
<1>1. /\ resp \in Seq(Seq(Word)) /\ out = <<>> /\ a \in Seq(Seq(Word)) /\ a # <<>>
      /\ head' \in {"200", "200 chunked", "500"}
      /\ out' = IF head = None THEN <<<<head'>>>> \o a ELSE a
  BY DEF Said, Text, Typed
<1>2. Reply = resp
  BY <1>1, ConcatEmptySeq DEF Reply
<1>3. /\ <<<<head'>>>> \in Seq(Seq(Word)) /\ Range(<<<<head'>>>>) = {<<head'>>}
      /\ <<<<head'>>>> # <<>> /\ Head(<<<<head'>>>>) = <<head'>> /\ Tail(<<<<head'>>>>) = <<>>
  <2>1. head' \in Word
    BY <1>1 DEF Word
  <2> QED
    BY <2>1, Status
<1>4. out' \in Seq(Seq(Word))
  BY <1>1, <1>3, ConcatProperties
<1>5. CASE head = None
  <2>1. resp = <<>> /\ Reply' = resp' \o out'
    BY <1>2, <1>5 DEF Reply
  <2>2. Reply' = <<<<head'>>>> \o a
    BY <1>1, <1>3, <1>4, <1>5, <2>1, ConcatEmptySeq
  <2>4. Head(Reply') = <<head'>> /\ Tail(Reply') = a
    <3> DEFINE u == <<<<head'>>>>
    <3>1. Head(u \o a) = Head(u) /\ Tail(u \o a) = Tail(u) \o a
      <4>1. u \in Seq(Seq(Word)) /\ a \in Seq(Seq(Word)) /\ u # <<>>
        BY <1>1, <1>3
      <4> HIDE DEF u
      <4> QED
        BY <4>1, HeadOfConcat
    <3>2. <<>> \o a = a
      BY <1>1, ConcatEmptySeq
    <3> QED
      BY <1>3, <2>2, <3>1, <3>2
  <2>5. Range(Reply') = Range(<<<<head'>>>>) \cup Range(a)
    BY <1>1, <1>3, <2>2, RangeConcatenation
  <2> QED
    BY <1>1, <1>2, <1>3, <1>4, <1>5, <2>2, <2>4, <2>5
<1>6. CASE head # None
  <2>1. Reply' = Reply \o a
    BY <1>1, <1>2, <1>6 DEF Reply
  <2>2. Range(Reply') = Range(Reply) \cup Range(a)
    BY <1>1, <1>2, <2>1, RangeConcatenation
  <2> QED
    BY <1>1, <1>2, <1>4, <1>6, <2>1, <2>2
<1> QED
  BY <1>5, <1>6

\* What the client expects of the answer still holds when the engine has said more.
LEMMA SaidAnswers ==
  ASSUME Typed, Served, Answered, engine = "reading", NEW a, Said(a),
         UNCHANGED <<resp, client, pending>>, broken' \subseteq broken \cup {"load", "refuse"},
         broken \subseteq broken',
         D!Zero \in Range(a) => head' = "200 chunked" /\ engine' # "reading",
         engine' = "reading" => {<<"half">>, <<"rest">>} \cap Range(a) = {} /\ UNCHANGED loaded,
         {<<"half">>, <<"rest">>} \cap Range(a) # {} => broken' # {} \/ torn' # {},
         engine' # "reading" /\ head' # "500" => loaded' # None \/ <<"half">> \in Range(a),
         head' = "200 chunked" /\ engine' \in {"answering", "closed"} /\ broken' = {} =>
           D!Zero \in Range(a)
  PROVE  Answered'
<1>1. /\ head = None => Reply = <<>>
      /\ "die" \notin broken /\ "die" \notin broken' /\ head # "500" /\ head' # None
      /\ head' \in {"200", "200 chunked", "500"} /\ (head # None => head' = head)
      /\ Ordered(a) /\ Range(a) \subseteq Line /\ a # <<>>
  BY PullAssumption DEF Served, Said, Text
<1>2. /\ a \in Seq(Seq(Word)) /\ Reply \in Seq(Seq(Word))
      /\ head = None => Reply' = <<<<head'>>>> \o a /\ Head(Reply') = <<head'>> /\ Tail(Reply') = a
      /\ head # None => Reply' = Reply \o a
      /\ Range(a) \subseteq Range(Reply')
      /\ Range(Reply') \subseteq Range(Reply) \cup Range(a) \cup {<<head'>>}
  BY <1>1, SaidReply
<1>3. /\ <<head'>> \notin Line
      /\ <<head'>> # <<"half">> /\ <<head'>> # <<"rest">> /\ <<head'>> # D!Zero
  BY <1>1 DEF Line, D!Zero
<1>4. (Unheard' <=> Unheard) /\ (Hears' <=> Hears)
  BY DEF Unheard, Hears
<1>5. Unheard =>
        /\ pending' = <<>> /\ Reply' # <<>>
        /\ Head(Reply') = <<head'>> /\ Range(Tail(Reply')) \subseteq Line
  <2> SUFFICES ASSUME Unheard
               PROVE  /\ pending' = <<>> /\ Reply' # <<>>
                      /\ Head(Reply') = <<head'>> /\ Range(Tail(Reply')) \subseteq Line
    OBVIOUS
  <2>1. pending' = <<>>
    BY DEF Answered
  <2>2. Reply' # <<>>
    <3>1. Range(a) # {}
      BY <1>1, <1>2, RangeTail
    <3> QED
      BY <1>2, <3>1, Empty
  <2>3. CASE head = None
    BY <1>1, <1>2, <2>1, <2>2, <2>3
  <2>4. CASE head # None
    <3>1. Reply # <<>> /\ Head(Reply) = <<head>> /\ Range(Tail(Reply)) \subseteq Line
      BY <1>1, <2>4 DEF Answered
    <3>2. /\ Head(Reply') = Head(Reply) /\ Tail(Reply') = Tail(Reply) \o a
          /\ Tail(Reply) \in Seq(Seq(Word))
      BY <1>2, <2>4, <3>1, HeadOfConcat, RangeTail
    <3>3. Range(Tail(Reply')) = Range(Tail(Reply)) \cup Range(a)
      <4>1. Range(Tail(Reply) \o a) = Range(Tail(Reply)) \cup Range(a)
        BY <1>2, <3>2, Joined DEF Answers
      <4> QED
        BY <3>2, <4>1
    <3> QED
      BY <1>1, <2>1, <2>2, <2>4, <3>1, <3>2, <3>3
  <2> QED
    BY <2>3, <2>4
<1>6. client' = "progress" => head' \in {"200", "200 chunked"} /\ Range(Reply') \subseteq Line
  <2> SUFFICES ASSUME client = "progress"
               PROVE  head' \in {"200", "200 chunked"} /\ Range(Reply') \subseteq Line
    OBVIOUS
  <2>1. head \in {"200", "200 chunked"} /\ Range(Reply) \subseteq Line /\ head # None
    BY PullAssumption DEF Answered
  <2>2. Range(Reply') = Range(Reply) \cup Range(a)
    <3>1. Range(Reply \o a) = Range(Reply) \cup Range(a)
      BY <1>2, Joined DEF Answers
    <3> QED
      BY <1>2, <2>1, <3>1
  <2> QED
    BY <1>1, <2>1, <2>2
<1>7. client' # "refused"
  BY <1>1 DEF Answered
<1>8. ASSUME Hears
      PROVE  /\ Ordered(Reply')
             /\ engine' = "reading" => ~Faulty' /\ D!Zero \notin Range(Reply')
             /\ D!Zero \in Range(Reply') => head' = "200 chunked"
             /\ "half" \notin Range(pending')
             /\ head' = "200 chunked" => Range(pending') \subseteq {"half"}
             /\ \/ engine' # "reading" /\ "die" \notin broken' /\ head' # "500"
                \/ D!Zero \in Range(Reply')
                => loaded' # None \/ Faulty'
             /\ Faulty' => broken' # {} \/ torn' # {}
             /\ head' = "200 chunked" /\ engine' \in {"answering", "closed"} /\ broken' = {} =>
                  D!Zero \in Range(Reply')
  <2>1. ~Faulty /\ D!Zero \notin Range(Reply)
    BY <1>8 DEF Answered
  <2>2. /\ {<<"half">>, <<"rest">>} \cap Range(Reply) = {}
        /\ {"half", "rest"} \cap Range(pending) = {}
    BY <2>1 DEF Faulty
  <2>3. Ordered(Reply')
    <3>1. CASE head = None
      <4>0. head' \in Word
        BY <1>1 DEF Word
      <4>2. <<<<head'>>>> \in Seq(Seq(Word)) /\ Range(<<<<head'>>>>) = {<<head'>>}
        BY <4>0, Status
      <4>1. <<"half">> \notin Range(<<<<head'>>>>) /\ D!Zero \notin Range(<<<<head'>>>>)
        BY <1>3, <4>2
      <4>3. Ordered(<<<<head'>>>> \o a)
        BY <1>1, <1>2, <4>1, <4>2, OrderedConcat
      <4> QED
        BY <1>2, <3>1, <4>3
    <3>2. CASE head # None
      <4>1. Ordered(Reply \o a)
        BY <1>1, <1>2, <2>1, <2>2, OrderedConcat
      <4> QED
        BY <1>2, <3>2, <4>1
    <3> QED
      BY <3>1, <3>2
  <2>4. /\ D!Zero \in Range(Reply') <=> D!Zero \in Range(a)
        /\ <<"half">> \in Range(Reply') <=> <<"half">> \in Range(a)
        /\ <<"rest">> \in Range(Reply') <=> <<"rest">> \in Range(a)
    BY <1>2, <1>3, <2>1, <2>2
  <2>5. Faulty' <=> {<<"half">>, <<"rest">>} \cap Range(a) # {}
    BY <2>2, <2>4 DEF Faulty
  <2>6. head' = "200 chunked" => Range(pending') \subseteq {"half"}
    <3>1. CASE head = None
      <4>1. client # "progress"
        BY <3>1, PullAssumption DEF Answered
      <4>2. pending = <<>>
        BY <1>8, <4>1 DEF Hears, Answered
      <4> QED
        BY <4>2, Empty
    <3>2. CASE head # None
      BY <1>1, <1>8, <3>2 DEF Answered
    <3> QED
      BY <3>1, <3>2
  <2> QED
    BY <2>2, <2>3, <2>4, <2>5, <2>6
<1> QED
  BY <1>4, <1>5, <1>6, <1>7, <1>8 DEF Answered

-----------------------------------------------------------------------------
(* The steps *)

\* A pull that says done has an engine that is no longer reading.
LEMMA OkIsOver ==
  ASSUME PullInv, client = "ok"
  PROVE  engine # "reading"
<1>1. CASE loaded = Chosen(index) /\ D!Good(loaded)
  <2>1. PICK i \in DOMAIN got : got[i] = <<"index", loaded>>
    BY <1>1, GoodMeans DEF Range
  <2>2. Typed /\ Asked /\ Sent
    BY DEF PullInv
  <2>3. Chosen(index) \in Manifest
    BY <2>1, <2>2, Reached, Stages, Owned
  <2> QED
    BY <1>1, <2>3, PullAssumption DEF PullInv, Served
<1>2. CASE head = "200" /\ "die" \in broken
  BY <1>2 DEF PullInv, Served
<1> QED
  BY <1>1, <1>2 DEF PullInv, OkMeansLoaded

\* What is good stays good.
LEMMA GoodKeeps ==
  ASSUME NEW d, D!Good(d), Range(got) \subseteq Range(got'), UNCHANGED torn
  PROVE  D!Good(d)'
<1>1. /\ <<"index", d>> \in Range(got) /\ <<"blob", d, d>> \in Range(got)
      /\ \A b \in Range(BlobsOf[d]) : <<"blob", b, b>> \in Range(got) \ torn
  BY GoodMeans
<1> QED
  BY <1>1 DEF D!Good, D!Range, Range

\* What the client was told, and why it failed, does not change while it does not move.
LEMMA Settled ==
  ASSUME PullInv, UNCHANGED <<client, index, torn>>, Range(got) \subseteq Range(got'),
         broken \subseteq broken', client = "ok" => UNCHANGED <<loaded, head>>
  PROVE  OkMeansLoaded' /\ (client' = "err" => broken' # {} \/ torn' # {})
<1>1. client = "ok" =>
        \/ loaded = Chosen(index) /\ D!Good(loaded)
        \/ head = "200" /\ "die" \in broken
  BY DEF PullInv, OkMeansLoaded
<1>2. ASSUME client = "ok", loaded = Chosen(index), D!Good(loaded)
      PROVE  loaded' = Chosen(index)' /\ D!Good(loaded)'
  <2>1. loaded' = loaded /\ Chosen(index)' = Chosen(index)
    BY <1>2 DEF Chosen
  <2>2. /\ <<"index", loaded>> \in Range(got) /\ <<"blob", loaded, loaded>> \in Range(got)
        /\ \A b \in Range(BlobsOf[loaded]) : <<"blob", b, b>> \in Range(got) \ torn
    BY <1>2, GoodMeans
  <2> QED
    BY <1>2, <2>1, <2>2 DEF D!Good, D!Range, Range
<1>3. client' = "ok" =>
        \/ loaded' = Chosen(index)' /\ D!Good(loaded)'
        \/ head' = "200" /\ "die" \in broken'
  BY <1>1, <1>2
<1> QED
  BY <1>3 DEF PullInv, OkMeansLoaded

\* The registry's steps.
LEMMA RegistryMoves ==
  ASSUME PullInv, Asked', client = "off", UNCHANGED socket
  PROVE  PullInv'
<1>1. Typed' /\ Served' /\ Answered'
  <2>1. Typed'
    BY DEF socket, PullInv, Typed
  <2>2. Served'
    BY DEF socket, PullInv, Served, D!Open, D!Good, D!Range, Reply
  <2>3. Answered'
    BY DEF socket, PullInv, Answered, Reply, Unheard, Hears, Ordered, Faulty
  <2> QED
    BY <2>1, <2>2, <2>3
<1>2. Sent'
  BY DEF socket, PullInv, Sent
<1> QED
  BY <1>1, <1>2 DEF socket, PullInv, OkMeansLoaded

\* What the client does with the socket, and what happens to its files, changes nothing
\* that it expects of the answer.
LEMMA AnswerSame ==
  ASSUME PullInv, UNCHANGED <<resp, out, pending, engine, got, head, loaded>>,
         broken' = broken \/ (\E x \in {"connect", "cache"} : broken' = broken \cup {x}),
         torn \subseteq torn', loaded # None => UNCHANGED torn,
         \/ client' = client /\ client # "off"
         \/ client \in {"off", "stream", "abandon"} /\ client' \in {"stream", "abandon", "head"}
         \/ client' = "err",
         client = "off" /\ client' # "err" => engine = "reading"
  PROVE  Served' /\ Answered'
<1>1. (Unheard' => Unheard) /\ (Hears' => Hears) /\ Reply' = Reply
  BY DEF Unheard, Hears, Reply
<1>2. /\ (Faulty' <=> Faulty) /\ (broken' = {} => broken = {}) /\ (torn # {} => torn' # {})
      /\ ("die" \in broken' <=> "die" \in broken)
      /\ (broken # {} => broken' # {}) /\ ("refuse" \in broken => "refuse" \in broken')
  BY <1>1 DEF Faulty
<1>3. D!Open' /\ engine' = "closed" => D!Open
  BY DEF D!Open
<1>4. Served'
  BY <1>1, <1>2, <1>3 DEF PullInv, Served, D!Good, D!Range
<1>5. Answered'
  <2>1. Ordered(Reply)' <=> Ordered(Reply)
    BY <1>1 DEF Ordered
  <2>2. client' = "progress" => client = "progress"
    OBVIOUS
  <2>3. client' = "refused" => client = "refused"
    OBVIOUS
  <2> QED
    BY <1>1, <1>2, <2>1, <2>2, <2>3 DEF PullInv, Answered
<1> QED
  BY <1>4, <1>5

\* Load of PullCommand: the archive is to be that of the plan.
LEMMA ConnectMoves ==
  ASSUME PullInv, Load
  PROVE  PullInv'
<1>1. /\ client = "off" /\ client' = "stream" /\ plan # None
      /\ archive' = D!Archive(plan.descriptor, plan.manifest)
      /\ onDisk' = {<<"blob", b, b>> : b \in {c \in Blob : source[c] = "file"}}
      /\ UNCHANGED registry
      /\ UNCHANGED <<lost, torn, sent, req, resp, pending, engine, got, out, early, head, loaded,
                     broken>>
  BY DEF Load, D!Connect, D!EngineUnchanged, Pulling, R!Resolved
<1>2. Typed /\ Asked /\ Sent
  BY DEF PullInv
<1>3. UNCHANGED <<plan, index>>
  BY <1>1 DEF registry
<1>4. /\ plan = [descriptor |-> Chosen(index), manifest |-> Chosen(index)]
      /\ Chosen(index) \in Manifest
  BY <1>1, <1>2 DEF Asked
<1>5. /\ archive' = D!Archive(Chosen(index), Chosen(index))
      /\ archive' \in Seq(Item) /\ archive' # <<>>
  BY <1>1, <1>4, ArchiveEntries
<1>6. sent = <<>> /\ engine = "reading"
  BY <1>1, <1>2 DEF Sent
<1>7. Partly'
  <2>1. Len(sent') = 0 /\ Len(archive') \in Nat /\ SubSeq(archive', 1, 0) = <<>>
    BY <1>1, <1>5, <1>6, LenProperties
  <2> QED
    BY <1>1, <1>6, <2>1 DEF Partly
<1>8. onDisk' \subseteq Item
  BY <1>1 DEF Item
<1>9. Typed'
  BY <1>1, <1>2, <1>5, <1>8 DEF Typed
<1>10. Sent'
  <2>1. Chosen(index)' = Chosen(index)
    BY <1>3 DEF Chosen
  <2>2. archive' = D!Archive(Chosen(index), Chosen(index))'
    BY <1>3, <1>5 DEF Chosen, D!Archive, D!End
  <2> QED
    BY <1>1, <1>2, <1>3, <1>5, <1>7, <2>2 DEF Sent
<1>11. Asked'
  BY <1>1, <1>2, AskedNext
<1>12. Served' /\ Answered'
  BY <1>1, <1>6, AnswerSame
<1> QED
  BY <1>1, <1>9, <1>10, <1>11, <1>12 DEF PullInv, OkMeansLoaded

LEMMA ConnectFailsMoves ==
  ASSUME PullInv, D!ConnectFails, UNCHANGED registry
  PROVE  PullInv'
<1>1. /\ client = "off" /\ client' = "err" /\ broken' = broken \cup {"connect"}
      /\ UNCHANGED <<archive, onDisk, lost, torn, sent, req, resp, pending, engine, got, out, early,
                     head, loaded>>
  BY DEF D!ConnectFails
<1>2. Typed /\ Asked /\ Sent
  BY DEF PullInv
<1>3. sent = <<>> /\ archive = <<>>
  BY <1>1, <1>2 DEF Sent
<1>4. Partly'
  <2>1. Len(<<>>) = 0 /\ SubSeq(<<>>, 1, 0) = <<>>
    OBVIOUS
  <2> QED
    BY <1>1, <1>3, <2>1 DEF Partly
<1>5. Typed' /\ Sent'
  BY <1>1, <1>2, <1>3, <1>4 DEF Typed, Sent
<1>6. Asked'
  BY <1>2, AskedNext
<1>7. Served' /\ Answered'
  BY <1>1, AnswerSame
<1> QED
  BY <1>1, <1>5, <1>6, <1>7 DEF PullInv, OkMeansLoaded

\* While entries are to come the engine has not got the end of the archive, and loads nothing.
LEMMA NothingLoaded ==
  ASSUME Typed, Asked, Sent, Served, D!SendEntry
  PROVE  loaded = None
<1> SUFFICES ASSUME loaded # None PROVE FALSE
  OBVIOUS
<1>1. client = "stream" /\ ~D!Complete
  BY DEF D!SendEntry
<1>2. /\ Len(sent) < Len(archive) /\ sent = SubSeq(archive, 1, Len(sent)) /\ Partly
      /\ sent \in Seq(Item) /\ archive \in Seq(Item) /\ Len(sent) \in Nat /\ Len(archive) \in Nat
  BY <1>1, DueEntry, Lengths DEF Sent, Partly
<1>3. PICK i \in DOMAIN got : got[i] \in {D!End, D!Zero}
  BY DEF Served, Range
<1>4. sent # <<>> /\ sent[i] = got[i] /\ i \in 1..Len(sent)
  BY <1>2, <1>3, Reached, LenProperties
<1>5. Chosen(index) \in Manifest /\ archive = D!Archive(Chosen(index), Chosen(index))
  BY <1>4, Stages, Owned
<1>6. archive[i] = sent[i]
  <2>1. \A m \in Nat : \A k \in 1..m : SubSeq(archive, 1, m)[k] = archive[k]
    BY <1>2
  <2>2. SubSeq(archive, 1, Len(sent))[i] = archive[i]
    BY <1>2, <1>4, <2>1
  <2> QED
    BY <1>2, <2>2
<1>7. i \in 1..Len(archive) /\ i # Len(archive)
  BY <1>2, <1>4
<1> QED
  BY <1>3, <1>4, <1>5, <1>6, <1>7, ArchiveEntries

LEMMA SendMoves ==
  ASSUME PullInv, D!Send, UNCHANGED registry
  PROVE  PullInv'
<1>1. Typed /\ Asked /\ Sent /\ UNCHANGED <<plan, index>>
  BY DEF PullInv, registry
<1>2. /\ UNCHANGED <<resp, pending, engine, got, out, head, loaded, broken>>
      /\ client \in {"stream", "abandon"} /\ client' \in {"stream", "abandon", "head", "err"}
      /\ client' = "err" => client = "abandon" \/ engine = "closed"
  BY DEF D!Send, D!SendEntry, D!EntryFails, D!Abandon, D!Finish, D!BrokenPipe, D!EngineUnchanged
<1>3. Typed' /\ Sent'
  BY <1>1, SendKeeps
<1>4. Asked'
  BY <1>1, AskedNext
<1>5. Served' /\ Answered'
  <2>1. torn \subseteq torn' /\ (D!SendEntry \/ UNCHANGED torn)
    BY DEF D!Send, D!SendEntry, D!EntryFails, D!Abandon, D!Finish, D!BrokenPipe
  <2>2. D!SendEntry => loaded = None
    BY <1>1, NothingLoaded DEF PullInv
  <2> QED
    BY <1>2, <2>1, <2>2, AnswerSame
<1>6. client' = "err" => broken' # {} \/ torn' # {}
  <2> SUFFICES ASSUME client' = "err", broken = {} PROVE FALSE
    BY <1>2
  <2>1. client = "stream" /\ engine = "closed" /\ Partly
    BY <1>1, <1>2 DEF Sent
  <2>2. got # <<>> /\ Last(got) = D!Zero
    BY <2>1 DEF PullInv, Served, D!Open
  <2>3. PICK i \in DOMAIN got : got[i] = D!Zero
    <3>1. got \in Seq(Item)
      BY <1>1, Lengths
    <3> QED
      BY <2>2, <3>1, LastFacts DEF Range
  <2>4. D!Zero \in Range(sent)
    BY <1>1, <2>3, Reached DEF Range
  <2> QED
    BY <1>1, <2>1, <2>4, ZeroIsLast
<1> QED
  BY <1>2, <1>3, <1>4, <1>5, <1>6 DEF PullInv, OkMeansLoaded

LEMMA LoseMoves ==
  ASSUME PullInv, NEW x \in onDisk, D!Lose(x), UNCHANGED registry
  PROVE  PullInv'
<1>1. /\ lost' = lost \cup {x} /\ broken' = broken \cup {"cache"}
      /\ UNCHANGED <<client, archive, onDisk, torn, sent, req, resp, engine, got, out, early,
                     head, loaded, pending>>
  BY DEF D!Lose
<1>2. Typed /\ Asked /\ Sent /\ UNCHANGED <<plan, index>> /\ x \in Item
  BY DEF PullInv, registry, Typed
<1>3. Typed'
  BY <1>1, <1>2 DEF Typed
<1>4. (Partly => Partly') /\ (Ended => Ended') /\ (Cut => Cut')
  BY <1>1 DEF Partly, Ended, Cut
<1>5. Sent'
  BY <1>1, <1>2, <1>4 DEF Sent
<1>6. Asked'
  BY <1>2, AskedNext
<1>7. Served' /\ Answered'
  <2>1. CASE client = "off"
    <3>1. Served'
      BY <1>1, <2>1 DEF PullInv, Served, D!Open, D!Good, D!Range, Reply
    <3>2. Answered'
      BY <1>1, <2>1 DEF PullInv, Answered, Reply, Unheard, Hears, Ordered, Faulty
    <3> QED
      BY <3>1, <3>2
  <2>2. CASE client # "off"
    BY <1>1, <2>2, AnswerSame
  <2> QED
    BY <2>1, <2>2
<1>8. OkMeansLoaded' /\ (client' = "err" => broken' # {} \/ torn' # {})
  BY <1>1, <1>2, Settled
<1> QED
  BY <1>3, <1>5, <1>6, <1>7, <1>8 DEF PullInv

\* The client reads: what it takes is the head of the answer.
LEMMA ReadsHead ==
  ASSUME Typed, resp # <<>>, resp' = Tail(resp), UNCHANGED out
  PROVE  /\ Reply # <<>> /\ Reply \in Answers /\ Head(Reply) = Head(resp) /\ Reply' = Tail(Reply)
         /\ Reply' \in Answers /\ Range(Reply) = {Head(resp)} \cup Range(Reply')
<1>1. resp \in Answers /\ out \in Answers
  BY DEF Typed, Answers
<1>2. Head(resp \o out) = Head(resp) /\ Tail(resp \o out) = Tail(resp) \o out /\ resp \o out # <<>>
  BY <1>1, HeadOfConcat DEF Answers
<1>3. Reply \in Answers /\ Reply # <<>>
  BY <1>1, <1>2, Joined DEF Reply
<1>4. Range(Reply) = {Head(Reply)} \cup Range(Tail(Reply)) /\ Tail(Reply) \in Answers
  BY <1>3, RangeTail DEF Answers
<1> QED
  BY <1>2, <1>3, <1>4 DEF Reply

\* When the connection has ended nothing is left to read.
LEMMA EofIsEmpty ==
  ASSUME Typed, Served, D!Eof
  PROVE  Reply = <<>> /\ engine = "closed" /\ Range(Reply) = {}
<1>1. resp = <<>> /\ out = <<>> /\ engine = "closed"
  BY DEF Served, D!Eof
<1>2. Reply = <<>>
  BY <1>1, Empty, ConcatEmptySeq DEF Reply
<1> QED
  BY <1>1, <1>2, Empty

\* read_response_head: success, and what is left are lines; or the body of a refusal.
LEMMA HeadRead ==
  ASSUME PullInv, D!ReadHead
  PROVE  Answered' /\ client' # "err" /\ client' # "ok"
<1>1. /\ client = "head" /\ resp # <<>> /\ resp' = Tail(resp)
      /\ client' = (IF Head(resp) = <<"500">> THEN "refused" ELSE "progress")
      /\ UNCHANGED <<pending, torn, engine, out, head, loaded, broken>>
  BY DEF D!ReadHead, D!Read, D!ClientDone, D!EngineUnchanged
<1>2. /\ Reply # <<>> /\ Reply \in Answers /\ Head(Reply) = Head(resp) /\ Reply' = Tail(Reply)
      /\ Reply' \in Answers /\ Range(Reply) = {Head(resp)} \cup Range(Reply')
  BY <1>1, ReadsHead DEF PullInv
<1>3. /\ Unheard /\ Hears /\ pending = <<>> /\ Range(pending) = {}
      /\ Head(Reply) = <<head>> /\ Range(Tail(Reply)) \subseteq Line
      /\ head # None
  BY <1>1, <1>2, Empty DEF PullInv, Answered, Served, Unheard, Hears
<1>4. head \in {"200", "200 chunked", "500"}
  BY <1>3 DEF PullInv, Typed
<1>5. CASE head = "500"
  <2>1. client' = "refused"
    BY <1>1, <1>2, <1>3, <1>5
  <2> QED
    BY <1>1, <1>5, <2>1 DEF Answered, Unheard, Hears
<1>6. CASE head \in {"200", "200 chunked"}
  <2>1. client' = "progress" /\ Head(resp) = <<head>>
    <3>1. <<head>> # <<"500">>
      BY <1>6
    <3> QED
      BY <1>1, <1>2, <1>3, <3>1
  <2>2. Head(resp) \notin {<<"half">>, <<"rest">>, D!Zero}
    BY <1>6, <2>1, Wrapped
  <2>3. /\ <<"half">> \in Range(Reply) <=> <<"half">> \in Range(Reply')
        /\ <<"rest">> \in Range(Reply) <=> <<"rest">> \in Range(Reply')
        /\ D!Zero \in Range(Reply) <=> D!Zero \in Range(Reply')
    BY <1>2, <2>2
  <2>4. Faulty' <=> Faulty
    BY <1>1, <2>3 DEF Faulty
  <2>5. Ordered(Reply')
    <3>1. Ordered(Reply)
      BY <1>3 DEF PullInv, Answered
    <3> QED
      BY <1>2, <3>1, OrderedTail DEF Answers
  <2>6. ~Unheard' /\ Hears' /\ Range(pending') = {}
    BY <1>1, <1>3, <2>1 DEF Unheard, Hears
  <2>7. Range(Reply') \subseteq Line
    BY <1>2, <1>3
  <2>8. ASSUME Hears'
        PROVE  /\ engine' = "reading" => ~Faulty' /\ D!Zero \notin Range(Reply')
               /\ D!Zero \in Range(Reply') => head' = "200 chunked"
               /\ \/ engine' # "reading" /\ "die" \notin broken' /\ head' # "500"
                  \/ D!Zero \in Range(Reply')
                  => loaded' # None \/ Faulty'
               /\ Faulty' => broken' # {} \/ torn' # {}
               /\ head' = "200 chunked" /\ engine' \in {"answering", "closed"} /\ broken' = {} =>
                    D!Zero \in Range(Reply')
    BY <1>1, <1>3, <2>3, <2>4 DEF PullInv, Answered
  <2> QED
    BY <1>1, <1>6, <2>1, <2>5, <2>6, <2>7, <2>8 DEF Answered
<1> QED
  BY <1>1, <1>4, <1>5, <1>6

\* An error that has come, in whole or in part, or is to come, has a reason.
LEMMA FaultyHurts ==
  ASSUME PullInv, client = "progress"
  PROVE  /\ Faulty => broken # {} \/ torn # {}
         /\ "rest" \in Range(pending) \/ "half" \in Range(pending) =>
              broken # {} \/ torn # {}
BY DEF PullInv, Answered, Hears, Faulty

\* read_progress of a chunked answer, and of one that is not.
LEMMA LineRead ==
  ASSUME PullInv, D!ReadLine
  PROVE  Answered' /\ (client' = "err" => broken # {} \/ torn # {}) /\ client' # "ok"
<1> DEFINE x == Head(resp)[1]
           text == Append(pending, x)
<1>1. /\ client = "progress" /\ resp # <<>> /\ Head(resp) # D!Zero /\ resp' = Tail(resp)
      /\ UNCHANGED <<torn, engine, out, head, loaded, broken>>
      /\ IF head = "200 chunked"
         THEN /\ client' = (IF D!HasError(text) THEN "err" ELSE "progress")
              /\ pending' = D!Incomplete(text)
         ELSE client' = "progress" /\ pending' = text
  BY DEF D!ReadLine, D!Read, D!ClientDone, D!EngineUnchanged
<1>2. /\ Reply # <<>> /\ Reply \in Answers /\ Head(Reply) = Head(resp) /\ Reply' = Tail(Reply)
      /\ Reply' \in Answers /\ Range(Reply) = {Head(resp)} \cup Range(Reply')
  BY <1>1, ReadsHead DEF PullInv
<1>3. /\ head \in {"200", "200 chunked"} /\ Range(Reply) \subseteq Line /\ Hears
      /\ Ordered(Reply)
      /\ "half" \in Range(pending) =>
           Last(pending) \in {"half", "rest"} /\ Range(Reply) \subseteq {<<"rest">>, D!Zero}
      /\ head = "200 chunked" => Range(pending) \subseteq {"half"}
  BY <1>1 DEF PullInv, Answered, Hears
<1>4. /\ Head(resp) \in {<<"line">>, <<"half">>, <<"rest">>} /\ x \in {"line", "half", "rest"}
      /\ Head(resp) = <<x>>
  <2>1. Head(resp) \in {<<"line">>, <<"half">>, <<"rest">>}
    BY <1>1, <1>2, <1>3 DEF Line
  <2> QED
    BY <2>1, Wrapped
<1>5. /\ pending \in Seq({"line", "half", "rest"}) /\ text \in Seq({"line", "half", "rest"})
      /\ Range(text) = Range(pending) \cup {x} /\ Last(text) = x /\ text # <<>>
  <2>1. pending \in Seq({"line", "half", "rest"})
    BY DEF PullInv, Typed
  <2> HIDE DEF x
  <2>2. text \in Seq({"line", "half", "rest"}) /\ text # <<>>
    BY <1>4, <2>1, AppendProperties, EmptySeq
  <2> QED
    BY <1>4, <2>1, <2>2, RangeAppend, LastFacts
<1> HIDE DEF x, text
<1>6. /\ Ordered(Reply')
      /\ x = "half" => Range(Reply') \subseteq {<<"rest">>, D!Zero}
  BY <1>2, <1>3, <1>4, OrderedTail DEF Answers
<1>7. /\ "half" \in Range(pending) => x = "rest"
  BY <1>2, <1>3, <1>4, Wrapped
<1>8. D!Zero \in Range(Reply) <=> D!Zero \in Range(Reply')
  BY <1>1, <1>2
<1>9. Range(Reply') \subseteq Line
  BY <1>2, <1>3
<1>10. ASSUME client' = "progress", Faulty' <=> Faulty,
              "half" \in Range(pending') =>
                Last(pending') \in {"half", "rest"} /\ Range(Reply') \subseteq {<<"rest">>, D!Zero},
              head = "200 chunked" => Range(pending') \subseteq {"half"}
       PROVE  Answered'
  <2>1. /\ engine' = "reading" => ~Faulty' /\ D!Zero \notin Range(Reply')
        /\ D!Zero \in Range(Reply') => head' = "200 chunked"
        /\ \/ engine' # "reading" /\ "die" \notin broken' /\ head' # "500"
           \/ D!Zero \in Range(Reply')
           => loaded' # None \/ Faulty'
        /\ Faulty' => broken' # {} \/ torn' # {}
        /\ head' = "200 chunked" /\ engine' \in {"answering", "closed"} /\ broken' = {} =>
             D!Zero \in Range(Reply')
    BY <1>1, <1>3, <1>8, <1>10 DEF PullInv, Answered
  <2> QED
    BY <1>1, <1>3, <1>6, <1>9, <1>10, <2>1 DEF Answered, Unheard, Hears
<1>11. CASE head = "200 chunked"
  <2>1. D!HasError(text) <=> "rest" \in Range(text)
    BY DEF D!HasError, D!Range, Range
  <2>2. CASE "rest" \in Range(text)
    <3>1. client' = "err"
      BY <1>1, <1>11, <2>1, <2>2
    <3>2. Answered'
      BY <3>1 DEF Answered, Unheard, Hears
    <3>3. Faulty
      BY <1>2, <1>4, <1>5, <2>2 DEF Faulty
    <3> QED
      BY <1>1, <3>1, <3>2, <3>3, FaultyHurts
  <2>3. CASE "rest" \notin Range(text)
    <3>1. client' = "progress" /\ pending' = IF x = "half" THEN <<"half">> ELSE <<>>
      BY <1>1, <1>5, <1>11, <2>1, <2>3 DEF D!Incomplete, D!Last, Last
    <3>2. Range(<<"half">>) = {"half"} /\ Last(<<"half">>) = "half"
      BY DEF Range, Last
    <3>3. Range(pending') = IF x = "half" THEN {"half"} ELSE {}
      BY <3>1, <3>2, Empty
    <3>4. Range(pending) = {} /\ x # "rest"
      BY <1>3, <1>5, <1>7, <1>11, <2>3
    <3>5. Faulty' <=> Faulty
      <4>1. x \in {"line", "half"}
        BY <1>4, <3>4
      <4>2. <<"half">> \in Range(Reply) <=> x = "half" \/ <<"half">> \in Range(Reply')
        BY <1>2, <1>4, Wrapped
      <4>3. <<"rest">> \in Range(Reply) <=> <<"rest">> \in Range(Reply')
        BY <1>2, <1>4, <4>1, Wrapped
      <4> QED
        BY <3>3, <3>4, <4>2, <4>3 DEF Faulty
    <3>6. /\ "half" \in Range(pending') =>
               Last(pending') \in {"half", "rest"} /\ Range(Reply') \subseteq {<<"rest">>, D!Zero}
          /\ Range(pending') \subseteq {"half"}
      BY <1>6, <3>1, <3>2, <3>3
    <3> QED
      BY <1>10, <3>1, <3>5, <3>6
  <2> QED
    BY <2>2, <2>3
<1>12. CASE head # "200 chunked"
  <2>1. client' = "progress" /\ pending' = text
    BY <1>1, <1>12
  <2>2. Faulty' <=> Faulty
    <3>1. <<"half">> \in Range(Reply) <=> x = "half" \/ <<"half">> \in Range(Reply')
      BY <1>2, <1>4, Wrapped
    <3>2. <<"rest">> \in Range(Reply) <=> x = "rest" \/ <<"rest">> \in Range(Reply')
      BY <1>2, <1>4, Wrapped
    <3>3. Range(pending') = Range(pending) \cup {x}
      BY <1>5, <2>1
    <3> QED
      BY <3>1, <3>2, <3>3 DEF Faulty
  <2>3. "half" \in Range(pending') =>
          Last(pending') \in {"half", "rest"} /\ Range(Reply') \subseteq {<<"rest">>, D!Zero}
    BY <1>2, <1>3, <1>5, <1>6, <1>7, <2>1
  <2> QED
    BY <1>10, <1>12, <2>1, <2>2, <2>3
<1> QED
  BY <1>11, <1>12

\* The end of the answer: what it says now, the engine has done.
LEMMA EndRead ==
  ASSUME PullInv, D!AnswerEnds, UNCHANGED index
  PROVE  Answered' /\ OkMeansLoaded' /\ (client' = "err" => broken # {} \/ torn # {})
<1>1. /\ client = "progress"
      /\ IF head = "200 chunked" THEN resp # <<>> /\ Head(resp) = D!Zero /\ resp' = Tail(resp)
         ELSE D!Eof
      /\ client' = (IF D!HasError(pending) \/ D!Incomplete(pending) # <<>> THEN "err" ELSE "ok")
      /\ UNCHANGED <<torn, engine, got, out, head, loaded, broken>>
  BY DEF D!AnswerEnds, D!Read, D!ClientDone, D!EngineUnchanged
<1>2. Typed /\ Served /\ Asked /\ Sent /\ pending \in Seq({"line", "half", "rest"})
  BY DEF PullInv, Typed
<1>3. Answered'
  BY <1>1 DEF Answered, Unheard, Hears
<1>4. /\ D!HasError(pending) <=> "rest" \in Range(pending)
      /\ D!Incomplete(pending) # <<>> <=> pending # <<>> /\ Last(pending) = "half"
  BY DEF D!HasError, D!Incomplete, D!Range, Range, D!Last, Last
<1>5. client' = "err" => broken # {} \/ torn # {}
  <2> SUFFICES ASSUME client' = "err" PROVE broken # {} \/ torn # {}
    OBVIOUS
  <2>1. "rest" \in Range(pending) \/ "half" \in Range(pending)
    <3>1. pending # <<>> => Last(pending) \in Range(pending)
      BY <1>2, LastFacts
    <3>2. client' = "err" => D!HasError(pending) \/ D!Incomplete(pending) # <<>>
      BY <1>1
    <3> QED
      BY <1>4, <3>1, <3>2
  <2> QED
    BY <1>1, <2>1, FaultyHurts
<1>6. ASSUME client' = "ok", ~(head = "200" /\ "die" \in broken)
      PROVE  loaded = Chosen(index) /\ D!Good(loaded)
  <2>1. /\ "rest" \notin Range(pending) /\ (pending = <<>> \/ Last(pending) # "half")
    BY <1>1, <1>4, <1>6
  <2>2. {"half", "rest"} \cap Range(pending) = {}
    <3>1. "half" \in Range(pending) => Last(pending) \in {"half", "rest"}
      BY <1>1 DEF PullInv, Answered, Hears
    <3>2. pending # <<>> => Last(pending) \in Range(pending)
      BY <1>2, LastFacts
    <3> QED
      BY <2>1, <3>1, <3>2, Empty
  <2>3. head \in {"200", "200 chunked"}
    BY <1>1 DEF PullInv, Answered
  <2>4. loaded # None \/ Faulty
    <3>1. CASE head = "200 chunked"
      <4>1. D!Zero \in Range(Reply)
        BY <1>1, <1>2, <3>1, ReadsHead
      <4> QED
        BY <1>1, <4>1 DEF PullInv, Answered, Hears
    <3>2. CASE head = "200"
      <4>1. engine = "closed" /\ "die" \notin broken
        BY <1>1, <1>2, <1>6, <3>2, EofIsEmpty
      <4> QED
        BY <1>1, <3>2, <4>1 DEF PullInv, Answered, Hears
    <3> QED
      BY <2>3, <3>1, <3>2
  <2>5. {<<"half">>, <<"rest">>} \cap Range(Reply) = {}
    <3>1. CASE head = "200 chunked"
      <4>1. /\ Reply \in Answers /\ Reply # <<>> /\ Head(Reply) = D!Zero /\ Reply' = Tail(Reply)
            /\ Range(Reply) = {D!Zero} \cup Range(Reply')
        BY <1>1, <1>2, <3>1, ReadsHead
      <4>2. Reply' = <<>>
        <5>1. Ordered(Reply)
          BY <1>1 DEF PullInv, Answered, Hears
        <5> QED
          BY <4>1, <5>1, OrderedTail DEF Answers
      <4>3. Range(Reply) = {D!Zero}
        BY <4>1, <4>2, Empty
      <4> QED
        BY <4>3 DEF D!Zero
    <3>2. CASE head = "200"
      BY <1>1, <1>2, <3>2, EofIsEmpty
    <3> QED
      BY <2>3, <3>1, <3>2
  <2>6. loaded # None
    BY <2>2, <2>4, <2>5 DEF Faulty
  <2>7. D!Good(loaded)
    BY <1>2, <2>6 DEF Served
  <2> QED
    BY <1>2, <2>7, GoodIsChosen
<1>7. OkMeansLoaded'
  <2>1. Chosen(index)' = Chosen(index)
    BY DEF Chosen
  <2> QED
    BY <1>1, <1>6, <2>1 DEF OkMeansLoaded, D!Good, D!Range
<1> QED
  BY <1>3, <1>5, <1>7

LEMMA ReceiveMoves ==
  ASSUME PullInv, D!Receive, UNCHANGED registry
  PROVE  PullInv'
<1>1. Typed /\ Asked /\ Sent /\ Served /\ Answered /\ UNCHANGED <<plan, index>>
  BY DEF PullInv, registry
<1>2. client = "progress" => Range(Reply) \subseteq Line
  BY <1>1 DEF Answered
<1>3. /\ Typed' /\ Sent'
      /\ UNCHANGED <<archive, onDisk, lost, torn, sent, req, engine, got, out, early, head, loaded,
                     broken>>
      /\ client \in {"head", "refused", "progress"}
      /\ client' \in {"refused", "progress", "ok", "err"}
  BY <1>1, <1>2, ReceiveKeeps
<1>4. Asked'
  BY <1>1, AskedNext
<1>5. Served'
  <2>1. resp' = resp \/ (resp # <<>> /\ resp' = Tail(resp))
    BY DEF D!Receive, D!ReadHead, D!NoHead, D!ReadRefusal, D!ReadLine, D!AnswerEnds,
      D!AnswerCut, D!Read
  <2>2. head' = None => Reply' = <<>>
    <3> SUFFICES ASSUME head = None PROVE Reply' = <<>>
      BY <1>3
    <3>1. Reply = <<>>
      BY <1>1 DEF Served
    <3>2. resp' = resp
      BY <1>1, <1>3, <2>1, <3>1, ReadsHead
    <3> QED
      BY <1>3, <3>1, <3>2 DEF Reply
  <2>3. D!Open' => D!Open
    BY <1>3 DEF D!Open
  <2> QED
    BY <1>1, <1>3, <2>2, <2>3 DEF Served, D!Good, D!Range
<1>6. CASE D!ReadHead
  BY <1>3, <1>4, <1>5, <1>6, HeadRead DEF PullInv, OkMeansLoaded
<1>7. CASE D!NoHead
  <2>1. client = "head" /\ client' = "err" /\ D!Eof
    BY <1>7 DEF D!NoHead, D!ClientDone
  <2>2. Answered'
    BY <2>1 DEF Answered, Unheard, Hears
  <2>3. broken # {}
    <3> SUFFICES ASSUME broken = {} PROVE FALSE
      OBVIOUS
    <3>1. Reply = <<>> /\ engine = "closed"
      BY <1>1, <2>1, EofIsEmpty
    <3>2. head # None
      BY <1>1, <2>1, <3>1 DEF Served, D!Open
    <3> QED
      BY <1>1, <2>1, <3>1, <3>2 DEF Answered, Unheard
  <2> QED
    BY <1>3, <1>4, <1>5, <2>1, <2>2, <2>3 DEF PullInv, OkMeansLoaded
<1>8. CASE D!ReadRefusal
  <2>1. client = "refused" /\ client' \in {"err", "refused"}
    BY <1>8 DEF D!ReadRefusal, D!ClientDone
  <2>2. head = "500" /\ "refuse" \in broken
    BY <1>1, <2>1 DEF Answered, Served
  <2>3. Answered'
    BY <1>3, <2>1, <2>2 DEF Answered, Unheard, Hears
  <2> QED
    BY <1>3, <1>4, <1>5, <2>1, <2>2, <2>3 DEF PullInv, OkMeansLoaded
<1>9. CASE D!ReadLine
  BY <1>3, <1>4, <1>5, <1>9, LineRead DEF PullInv, OkMeansLoaded
<1>10. CASE D!AnswerEnds
  BY <1>1, <1>3, <1>4, <1>5, <1>10, EndRead DEF PullInv
<1>11. CASE D!AnswerCut
  <2>1. client = "progress" /\ client' = "err" /\ head = "200 chunked" /\ D!Eof
    BY <1>11 DEF D!AnswerCut, D!ClientDone
  <2>2. Answered'
    BY <2>1 DEF Answered, Unheard, Hears
  <2>3. broken # {}
    <3> SUFFICES ASSUME broken = {} PROVE FALSE
      OBVIOUS
    <3>1. Range(Reply) = {} /\ engine = "closed"
      BY <1>1, <2>1, EofIsEmpty
    <3> QED
      BY <1>1, <2>1, <3>1 DEF Answered, Hears
  <2> QED
    BY <1>3, <1>4, <1>5, <2>1, <2>2, <2>3 DEF PullInv, OkMeansLoaded
<1> QED
  BY <1>6, <1>7, <1>8, <1>9, <1>10, <1>11 DEF D!Receive

\* The engine reads, and may report progress.
LEMMA TakeMoves ==
  ASSUME PullInv, D!Take, UNCHANGED registry
  PROVE  PullInv'
<1>1. Typed /\ Asked /\ Sent /\ Served /\ Answered /\ UNCHANGED <<plan, index>>
  BY DEF PullInv, registry
<1>2. /\ engine \in {"reading", "answering"} /\ req # <<>> /\ out = <<>>
      /\ req' = Tail(req) /\ got' = Append(got, Head(req))
      /\ UNCHANGED <<resp, engine, loaded, broken, client, archive, onDisk, lost, torn, sent, pending>>
  BY DEF D!Take, D!ClientUnchanged
<1>3. \/ UNCHANGED <<out, head, early>>
      \/ /\ engine = "reading" /\ Said(<<<<"line">>>>) /\ early < MaxEarly /\ early' = early + 1
         /\ head' = "500" => head = "500"
  BY <1>1, TakeSays
<1>4. /\ req' \in Seq(Item) /\ Len(req') <= ReqCap
      /\ got' \in Seq(Item) /\ got' # <<>> /\ Range(got) \subseteq Range(got')
      /\ got' \o req' = got \o req
  <2>1. req \in Seq(Item) /\ got \in Seq(Item) /\ Len(req) <= ReqCap /\ ReqCap \in Nat
    BY <1>1, PullAssumption DEF Typed
  <2>2. Head(req) \in Item /\ Tail(req) \in Seq(Item)
    BY <1>2, <2>1, RangeTail
  <2>3. Append(got, Head(req)) \in Seq(Item) /\ Append(got, Head(req)) # <<>>
    BY <2>1, <2>2, AppendProperties, EmptySeq
  <2>4. Range(got) \subseteq Range(Append(got, Head(req)))
    BY <2>1, <2>2, RangeAppend
  <2>5. Len(Tail(req)) <= ReqCap
    <3>1. Len(Tail(req)) = Len(req) - 1 /\ Len(req) \in Nat
      BY <1>2, <2>1, EmptySeq
    <3> QED
      BY <2>1, <3>1
  <2>6. Append(got, Head(req)) \o Tail(req) = got \o req
    BY <1>2, <2>1, Shift
  <2> QED
    BY <1>2, <2>2, <2>3, <2>4, <2>5, <2>6
<1>5. Sent'
  BY <1>1, <1>2, <1>4, SentSame
<1>6. Asked'
  BY <1>1, AskedNext
<1>7. OkMeansLoaded' /\ (client' = "err" => broken' # {} \/ torn' # {})
  <2>1. client = "ok" => UNCHANGED <<loaded, head>>
    BY <1>2, <1>3, OkIsOver
  <2> QED
    BY <1>1, <1>2, <1>4, <2>1, Settled
<1>8. loaded' # None => D!Good(loaded)' /\ {D!End, D!Zero} \cap Range(got') # {}
  <2> SUFFICES ASSUME loaded # None
               PROVE  D!Good(loaded)' /\ {D!End, D!Zero} \cap Range(got') # {}
    BY <1>2
  <2>1. /\ <<"index", loaded>> \in Range(got) /\ <<"blob", loaded, loaded>> \in Range(got)
        /\ \A b \in Range(BlobsOf[loaded]) : <<"blob", b, b>> \in Range(got) \ torn
    BY <1>1, GoodMeans DEF Served
  <2>2. D!Good(loaded)'
    BY <1>2, <1>4, <2>1 DEF D!Good, D!Range, Range
  <2> QED
    BY <1>1, <1>4, <2>2 DEF Served
<1>9. CASE UNCHANGED <<out, head, early>>
  <2>1. Typed'
    BY <1>1, <1>2, <1>4, <1>9 DEF Typed
  <2>2. Served'
    <3>1. engine' # "closed" /\ Reply' = Reply
      BY <1>2, <1>9 DEF Reply
    <3> QED
      BY <1>1, <1>2, <1>4, <1>8, <1>9, <3>1 DEF Served
  <2>3. Answered'
    BY <1>1, <1>2, <1>9 DEF Answered, Reply, Unheard, Hears, Ordered, Faulty
  <2> QED
    BY <1>5, <1>6, <1>7, <2>1, <2>2, <2>3 DEF PullInv
<1>10. CASE /\ engine = "reading" /\ Said(<<<<"line">>>>) /\ early < MaxEarly /\ early' = early + 1
            /\ head' = "500" => head = "500"
  <2>1. head = None => Reply = <<>>
    BY <1>1 DEF Served
  <2>2. out' \in Seq(Seq(Word))
    BY <1>1, <1>2, <1>10, <2>1, SaidReply
  <2>3. head' \in {"200", "200 chunked", "500"}
    BY <1>10 DEF Said
  <2>4. early' \in 0..MaxEarly
    <3>1. early \in 0..MaxEarly
      BY <1>1 DEF Typed
    <3>2. MaxEarly \in Nat
      BY PullAssumption
    <3> QED
      BY <1>10, <3>1, <3>2
  <2>5. Typed'
    BY <1>1, <1>2, <1>4, <2>2, <2>3, <2>4 DEF Typed
  <2>6. Range(<<<<"line">>>>) = {<<"line">>}
    BY Status DEF Word
  <2>7. /\ {<<"half">>, <<"rest">>} \cap Range(<<<<"line">>>>) = {}
        /\ D!Zero \notin Range(<<<<"line">>>>)
    BY <2>6, Wrapped
  <2>8. Answered'
    BY <1>1, <1>2, <1>10, <2>7, SaidAnswers
  <2>9. head' # None /\ engine' = "reading" /\ head' # "500"
    BY <1>1, <1>2, <1>10, <2>3, PullAssumption DEF Served
  <2>10. Served'
    BY <1>1, <1>2, <1>8, <2>9 DEF Served
  <2> QED
    BY <1>5, <1>6, <1>7, <2>5, <2>8, <2>10 DEF PullInv
<1> QED
  BY <1>3, <1>9, <1>10

\* What it has said goes through the socket in order.
LEMMA PutMoves ==
  ASSUME PullInv, D!Put, UNCHANGED registry
  PROVE  PullInv'
<1>1. Typed /\ Asked /\ Sent /\ Served /\ Answered /\ UNCHANGED <<plan, index>>
  BY DEF PullInv, registry
<1>2. /\ out # <<>> /\ engine # "closed" /\ Len(resp) < RespCap
      /\ resp' = Append(resp, Head(out)) /\ out' = Tail(out)
      /\ UNCHANGED <<req, engine, got, early, head, loaded, broken, client, archive, onDisk, lost, torn,
                     sent, pending>>
  BY DEF D!Put, D!ClientUnchanged
<1>3. resp \in Answers /\ out \in Answers /\ RespCap \in Nat
  BY <1>1, PullAssumption DEF Typed, Answers
<1>4. resp' \in Answers /\ out' \in Answers /\ Len(resp') <= RespCap /\ Reply' = Reply
  <2> DEFINE S == Seq(Word)
  <2>1. resp \in Seq(S) /\ out \in Seq(S)
    BY <1>3 DEF Answers
  <2> HIDE DEF S
  <2>2. Head(out) \in S /\ Tail(out) \in Seq(S)
    BY <1>2, <2>1, RangeTail
  <2>3. Append(resp, Head(out)) \in Seq(S) /\ Len(Append(resp, Head(out))) = Len(resp) + 1
        /\ Len(resp) \in Nat
    BY <2>1, <2>2, AppendProperties, LenProperties
  <2>4. Append(resp, Head(out)) \o Tail(out) = resp \o out
    BY <1>2, <2>1, Shift
  <2>5. Len(resp) + 1 <= RespCap
    BY <1>2, <1>3, <2>3
  <2> QED
    BY <1>2, <2>2, <2>3, <2>4, <2>5 DEF S, Answers, Reply
<1>5. Typed'
  BY <1>1, <1>2, <1>4 DEF Typed, Answers
<1>6. Sent'
  BY <1>1, <1>2, SentSame
<1>7. Asked'
  BY <1>1, AskedNext
<1>8. Served'
  BY <1>1, <1>2, <1>4 DEF Served, D!Good, D!Range, D!Open
<1>9. Answered'
  <2>1. Ordered(Reply)' <=> Ordered(Reply)
    BY <1>4 DEF Ordered
  <2>2. (Faulty' <=> Faulty) /\ (Unheard' <=> Unheard) /\ (Hears' <=> Hears)
    BY <1>2, <1>4 DEF Faulty, Unheard, Hears
  <2> QED
    BY <1>1, <1>2, <1>4, <2>1, <2>2 DEF Answered
<1>10. OkMeansLoaded' /\ (client' = "err" => broken' # {} \/ torn' # {})
  BY <1>1, <1>2, Settled
<1> QED
  BY <1>5, <1>6, <1>7, <1>8, <1>9, <1>10 DEF PullInv

\* It has the end of the archive, and loads it or fails.
LEMMA LoadMoves ==
  ASSUME PullInv, D!Load, UNCHANGED registry
  PROVE  PullInv'
<1>1. Typed /\ Asked /\ Sent /\ Served /\ Answered /\ UNCHANGED <<plan, index>>
  BY DEF PullInv, registry
<1>2. /\ engine = "reading" /\ engine' = "answering" /\ got # <<>> /\ Last(got) \in {D!End, D!Zero}
      /\ UNCHANGED <<req, resp, got, early, client, archive, onDisk, lost, torn, sent, pending>>
  BY DEF D!Load, D!ClientUnchanged, D!Last, Last
<1>3. PICK a :
        /\ Said(a) /\ (D!Zero \in Range(a) <=> head' = "200 chunked") /\ head' # "500"
        /\ \/ /\ loaded' \in Manifest /\ D!Good(loaded') /\ UNCHANGED broken
              /\ Range(a) \subseteq {<<"line">>, D!Zero}
           \/ /\ UNCHANGED loaded /\ <<"half">> \in Range(a)
              /\ \/ (\A d \in Manifest : ~D!Good(d)) /\ UNCHANGED broken
                 \/ broken' = broken \cup {"load"}
  BY <1>1, LoadSays
<1>4. /\ head = None => Reply = <<>>
      /\ loaded = None
  BY <1>1, <1>2 DEF Served
<1>5. out' \in Seq(Seq(Word)) /\ head' \in {"200", "200 chunked"} /\ head' # None
  <2>1. head' \in {"200", "200 chunked"}
    BY <1>3 DEF Said
  <2> QED
    BY <1>1, <1>2, <1>3, <1>4, <2>1, SaidReply, PullAssumption
<1>6. ASSUME broken' = {}, torn' = {} PROVE loaded' \in Manifest
  <2>1. lost = {} /\ broken = {} /\ torn = {}
    BY <1>1, <1>2, <1>3, <1>6 DEF Sent
  <2>2. Chosen(index) \in Manifest /\ D!Good(Chosen(index))
    BY <1>1, <1>2, <2>1, WholeIsGood
  <2> QED
    BY <1>3, <1>6, <2>2
<1>7. Typed'
  <2>1. /\ loaded' \in Manifest \cup {None}
        /\ broken' \subseteq {"connect", "refuse", "die", "cache", "load"}
    BY <1>1, <1>3, <1>4 DEF Typed
  <2> QED
    BY <1>1, <1>2, <1>5, <2>1 DEF Typed
<1>8. Sent'
  <2>1. client # "off"
    <3>1. sent # <<>>
      <4>1. got \in Seq(Item) /\ req \in Seq(Item) /\ got \o req = sent
        BY <1>1, Lengths DEF Sent
      <4> QED
        BY <1>2, <4>1, HeadOfConcat
    <3> QED
      BY <1>1, <3>1, Stages
  <2>2. broken \subseteq broken'
    BY <1>3
  <2> QED
    BY <1>1, <1>2, <2>1, <2>2, SentSame
<1>9. Asked'
  BY <1>1, AskedNext
<1>10. Served'
  <2>1. loaded' # None => D!Good(loaded)' /\ {D!End, D!Zero} \cap Range(got') # {}
    <3> SUFFICES ASSUME loaded' # None
                 PROVE  D!Good(loaded)' /\ {D!End, D!Zero} \cap Range(got') # {}
      OBVIOUS
    <3>1. D!Good(loaded')
      BY <1>3, <1>4
    <3>2. Last(got) \in Range(got)
      BY <1>1, <1>2, LastFacts DEF Typed
    <3>3. D!Good(loaded)'
      BY <1>2, <3>1 DEF D!Good, D!Range
    <3> QED
      BY <1>2, <3>2, <3>3
  <2>2. "die" \in broken' => "die" \in broken
    <3>1. broken' = broken \/ broken' = broken \cup {"load"}
      BY <1>3
    <3> QED
      BY <3>1
  <2> QED
    BY <1>1, <1>2, <1>5, <2>1, <2>2 DEF Served
<1>11. Answered'
  <2>1. {<<"half">>, <<"rest">>} \cap Range(a) # {} => broken' # {} \/ torn' # {}
    <3> SUFFICES ASSUME broken' = {}, torn' = {} PROVE {<<"half">>, <<"rest">>} \cap Range(a) = {}
      OBVIOUS
    <3>1. loaded' # loaded
      BY <1>4, <1>6, PullAssumption
    <3>2. Range(a) \subseteq {<<"line">>, D!Zero}
      BY <1>3, <3>1
    <3> QED
      BY <3>2, Wrapped
  <2>2. /\ broken \subseteq broken' /\ broken' \subseteq broken \cup {"load", "refuse"}
        /\ loaded' # None \/ <<"half">> \in Range(a)
    BY <1>3, PullAssumption
  <2> QED
    BY <1>1, <1>2, <1>3, <2>1, <2>2, SaidAnswers
<1>12. OkMeansLoaded' /\ (client' = "err" => broken' # {} \/ torn' # {})
  <2>1. client # "ok" /\ broken \subseteq broken'
    BY <1>2, <1>3, OkIsOver
  <2> QED
    BY <1>1, <1>2, <2>1, Settled
<1> QED
  BY <1>7, <1>8, <1>9, <1>10, <1>11, <1>12 DEF PullInv

\* It refuses before it has the end of the body.
LEMMA RefuseMoves ==
  ASSUME PullInv, D!Refuse, UNCHANGED registry
  PROVE  PullInv'
<1>1. Typed /\ Asked /\ Sent /\ Served /\ Answered /\ UNCHANGED <<plan, index>>
  BY DEF PullInv, registry
<1>2. /\ engine = "reading" /\ engine' = "refusing" /\ got # <<>>
      /\ broken' = broken \cup {"refuse"}
      /\ UNCHANGED <<req, resp, got, early, loaded, client, archive, onDisk, lost, torn, sent, pending>>
  BY DEF D!Refuse, D!ClientUnchanged
<1>3. PICK a :
        /\ Said(a) /\ D!Zero \notin Range(a)
        /\ head' = "500" \/ <<"half">> \in Range(a)
  BY <1>1, RefuseSays
<1>4. /\ head = None => Reply = <<>>
      /\ loaded = None
  BY <1>1, <1>2 DEF Served
<1>5. out' \in Seq(Seq(Word)) /\ head' \in {"200", "200 chunked", "500"} /\ head' # None
  <2>1. head' \in {"200", "200 chunked", "500"}
    BY <1>3 DEF Said
  <2> QED
    BY <1>1, <1>2, <1>3, <1>4, <2>1, SaidReply, PullAssumption
<1>6. Typed'
  BY <1>1, <1>2, <1>5 DEF Typed
<1>7. Sent'
  <2>1. client # "off"
    <3>1. sent # <<>>
      <4>1. got \in Seq(Item) /\ req \in Seq(Item) /\ got \o req = sent
        BY <1>1, Lengths DEF Sent
      <4> QED
        BY <1>2, <4>1, HeadOfConcat
    <3> QED
      BY <1>1, <3>1, Stages
  <2> QED
    BY <1>1, <1>2, <2>1, SentSame
<1>8. Asked'
  BY <1>1, AskedNext
<1>9. Served'
  BY <1>1, <1>2, <1>4, <1>5 DEF Served
<1>10. Answered'
  BY <1>1, <1>2, <1>3, SaidAnswers
<1>11. OkMeansLoaded' /\ (client' = "err" => broken' # {} \/ torn' # {})
  <2>1. client # "ok"
    BY <1>2, OkIsOver
  <2> QED
    BY <1>1, <1>2, <2>1, Settled
<1> QED
  BY <1>6, <1>7, <1>8, <1>9, <1>10, <1>11 DEF PullInv

\* It closes: nothing of its answer is held back, unless nobody is left to read it.
LEMMA CloseMoves ==
  ASSUME PullInv, D!Close \/ D!Drop, UNCHANGED registry
  PROVE  PullInv'
<1>1. Typed /\ Asked /\ Sent /\ Served /\ Answered /\ UNCHANGED <<plan, index>>
  BY DEF PullInv, registry
<1>2. /\ engine' = "closed" /\ out' = <<>>
      /\ UNCHANGED <<req, resp, got, early, head, loaded, broken, client, archive, onDisk, lost, torn,
                     sent, pending>>
      /\ \/ out = <<>> /\ \/ engine = "answering" /\ Last(got) = D!Zero
                          \/ engine = "refusing"
         \/ client \in {"ok", "err"}
  BY DEF D!Close, D!Drop, D!ClientUnchanged, D!Last, Last
<1>3. Typed'
  BY <1>1, <1>2, Empty DEF Typed
<1>4. client # "off"
  BY <1>1, <1>2 DEF Sent
<1>5. Sent'
  BY <1>1, <1>2, <1>4, SentSame
<1>6. Asked'
  BY <1>1, AskedNext
<1>7. OkMeansLoaded' /\ (client' = "err" => broken' # {} \/ torn' # {})
  BY <1>1, <1>2, Settled
<1>8. head' = None => Reply' = <<>>
  <2> SUFFICES ASSUME head = None PROVE Reply' = <<>>
    BY <1>2
  <2>1. resp \o out = <<>>
    BY <1>1 DEF Served, Reply
  <2>2. resp = <<>>
    <3>1. resp \in Answers /\ out \in Answers
      BY <1>1 DEF Typed, Answers
    <3> QED
      BY <2>1, <3>1, HeadOfConcat DEF Answers
  <2> QED
    BY <1>2, <2>2, Empty, ConcatEmptySeq DEF Reply
<1>9. Served'
  <2>1. D!Open' /\ broken' = {} => engine = "answering" /\ Last(got) = D!Zero
    BY <1>1, <1>2 DEF Served, D!Open
  <2>2. D!Good(loaded)' <=> D!Good(loaded)
    BY <1>2 DEF D!Good, D!Range
  <2> QED
    BY <1>1, <1>2, <1>8, <2>1, <2>2 DEF Served
<1>10. Answered'
  <2>1. CASE client \in {"ok", "err"}
    BY <1>2, <2>1 DEF Answered, Unheard, Hears
  <2>2. CASE client \notin {"ok", "err"}
    <3>1. Reply' = Reply /\ engine \in {"answering", "refusing"}
      BY <1>2, <2>2 DEF Reply
    <3>2. (Faulty' <=> Faulty) /\ (Unheard' <=> Unheard) /\ (Hears' <=> Hears)
      BY <1>2, <3>1 DEF Faulty, Unheard, Hears
    <3>3. Ordered(Reply)' <=> Ordered(Reply)
      BY <3>1 DEF Ordered
    <3>4. head' = "200 chunked" /\ broken' = {} => engine = "answering"
      BY <1>1, <1>2, <3>1 DEF Served
    <3> QED
      BY <1>1, <1>2, <3>1, <3>2, <3>3, <3>4 DEF Answered
  <2> QED
    BY <2>1, <2>2
<1> QED
  BY <1>3, <1>5, <1>6, <1>7, <1>9, <1>10 DEF PullInv

\* After the end of the answer there is nothing more.
LEMMA NothingAfterZero ==
  ASSUME NEW a \in Answers, NEW b \in Answers, Ordered(a \o b), D!Zero \in Range(a)
  PROVE  b = <<>>
<1> DEFINE S == Seq(Word)
<1>1. a \in Seq(S) /\ b \in Seq(S)
  BY DEF Answers
<1> HIDE DEF S
<1>2. PICK i \in DOMAIN a : a[i] = D!Zero
  BY DEF Range
<1>3. /\ Len(a) \in Nat /\ Len(b) \in Nat /\ i \in 1..Len(a) /\ Len(a \o b) = Len(a) + Len(b)
      /\ DOMAIN (a \o b) = 1..(Len(a) + Len(b)) /\ (a \o b)[i] = a[i]
  BY <1>1, LenProperties, ConcatProperties
<1>4. ASSUME Len(b) > 0 PROVE FALSE
  <2>1. i \in DOMAIN (a \o b) /\ Len(a) + Len(b) \in DOMAIN (a \o b) /\ i < Len(a) + Len(b)
    BY <1>3, <1>4
  <2> QED
    BY <1>2, <1>3, <2>1 DEF Ordered
<1> QED
  BY <1>1, <1>3, <1>4, EmptySeq

\* It dies: what it had not sent is lost.
LEMMA DieMoves ==
  ASSUME PullInv, D!Die, UNCHANGED registry
  PROVE  PullInv'
<1>1. Typed /\ Asked /\ Sent /\ Served /\ Answered /\ UNCHANGED <<plan, index>>
  BY DEF PullInv, registry
<1>2. /\ engine # "closed" /\ client \notin {"off", "ok", "err"}
      /\ engine' = "closed" /\ out' = <<>> /\ broken' = broken \cup {"die"}
      /\ UNCHANGED <<req, resp, got, early, head, loaded, client, archive, onDisk, lost, torn, sent,
                     pending>>
  BY DEF D!Die, D!ClientUnchanged, D!Open
<1>3. Typed'
  BY <1>1, <1>2, Empty DEF Typed
<1>4. Sent'
  BY <1>1, <1>2, SentSame
<1>5. Asked'
  BY <1>1, AskedNext
<1>6. OkMeansLoaded' /\ (client' = "err" => broken' # {} \/ torn' # {})
  BY <1>1, <1>2, Settled
<1>7. /\ resp \in Answers /\ out \in Answers /\ Reply = resp \o out /\ Reply' = resp
      /\ Range(Reply) = Range(Reply') \cup Range(out) /\ Reply \in Answers
  <2>1. resp \in Answers /\ out \in Answers
    BY <1>1 DEF Typed, Answers
  <2>2. Reply' = resp
    BY <1>2, <2>1, ConcatEmptySeq DEF Reply, Answers
  <2> QED
    BY <2>1, <2>2, Joined DEF Reply
<1>8. resp # <<>> =>
        /\ Reply # <<>> /\ Head(Reply') = Head(Reply)
        /\ Range(Tail(Reply')) \subseteq Range(Tail(Reply))
  <2> SUFFICES ASSUME resp # <<>>
               PROVE  /\ Reply # <<>> /\ Head(Reply') = Head(Reply)
                      /\ Range(Tail(Reply')) \subseteq Range(Tail(Reply))
    OBVIOUS
  <2>1. /\ Head(resp \o out) = Head(resp) /\ Tail(resp \o out) = Tail(resp) \o out
        /\ resp \o out # <<>>
    BY <1>7, HeadOfConcat DEF Answers
  <2>2. Tail(resp) \in Answers
    BY <1>7, RangeTail DEF Answers
  <2>3. Range(Tail(resp) \o out) = Range(Tail(resp)) \cup Range(out)
    BY <1>7, <2>2, Joined
  <2> QED
    BY <1>7, <2>1, <2>3
<1>9. Served'
  <2>1. head' = None => Reply' = <<>>
    BY <1>1, <1>2, <1>7, <1>8 DEF Served
  <2>2. D!Good(loaded)' <=> D!Good(loaded)
    BY <1>2 DEF D!Good, D!Range
  <2> QED
    BY <1>1, <1>2, <2>1, <2>2 DEF Served
<1>10. (Unheard' <=> Unheard) /\ (Hears' <=> Hears)
  BY <1>2 DEF Unheard, Hears
<1>11. ASSUME Hears
       PROVE  /\ Ordered(Reply')
              /\ D!Zero \in Range(Reply') => head' = "200 chunked"
              /\ "half" \in Range(pending') =>
                   /\ Last(pending') \in {"half", "rest"}
                   /\ Range(Reply') \subseteq {<<"rest">>, D!Zero}
              /\ head' = "200 chunked" => Range(pending') \subseteq {"half"}
              /\ D!Zero \in Range(Reply') => loaded' # None \/ Faulty'
  <2>1. Ordered(Reply)
    BY <1>1, <1>11 DEF Answered
  <2>2. Ordered(resp)
    BY <1>7, <2>1, OrderedPrefix DEF Answers
  <2>3. D!Zero \in Range(Reply') => loaded' # None \/ Faulty'
    <3> SUFFICES ASSUME D!Zero \in Range(resp) PROVE loaded' # None \/ Faulty'
      BY <1>7
    <3>1. out = <<>>
      BY <1>7, <2>1, NothingAfterZero
    <3>2. Range(Reply') = Range(Reply)
      BY <1>7, <3>1, Empty
    <3>3. loaded # None \/ Faulty
      BY <1>1, <1>7, <1>11 DEF Answered
    <3> QED
      BY <1>2, <3>2, <3>3 DEF Faulty
  <2> QED
    BY <1>1, <1>2, <1>7, <1>11, <2>2, <2>3 DEF Answered
<1>12. client' = "progress" => head' \in {"200", "200 chunked"} /\ Range(Reply') \subseteq Line
  BY <1>1, <1>2, <1>7 DEF Answered
<1>13. Unheard' =>
         /\ pending' = <<>>
         /\ Reply' # <<>> => Head(Reply') = <<head'>> /\ Range(Tail(Reply')) \subseteq Line
  BY <1>1, <1>2, <1>7, <1>8, <1>10 DEF Answered
<1> QED
  <2>1. Answered'
    BY <1>1, <1>2, <1>10, <1>11, <1>12, <1>13 DEF Answered
  <2> QED
    BY <1>3, <1>4, <1>5, <1>6, <1>9, <2>1 DEF PullInv

-----------------------------------------------------------------------------
(* The theorems *)

LEMMA PullInvInit == PullInit => PullInv
<1> SUFFICES ASSUME PullInit PROVE PullInv
  OBVIOUS
<1>1. Asked
  BY AskedInit
<1>2. /\ client = "off" /\ archive = <<>> /\ onDisk = {} /\ lost = {}
      /\ sent = <<>> /\ req = <<>> /\ resp = <<>>
      /\ engine = "reading" /\ got = <<>> /\ out = <<>> /\ early = 0
      /\ head = None /\ loaded = None /\ pending = <<>> /\ broken = {} /\ torn = {}
  BY DEF PullInit, D!Init
<1>3. Len(<<>>) = 0 /\ <<>> \o <<>> = <<>> /\ Range(<<>>) = {}
  <2>1. Len(<<>>) = 0
    OBVIOUS
  <2>2. <<>> \o <<>> = <<>>
    BY Empty, ConcatEmptySeq
  <2> QED
    BY <2>1, <2>2, Empty
<1>4. Typed
  <2>0. ReqCap \in Nat /\ RespCap \in Nat /\ MaxEarly \in Nat
    BY PullAssumption
  <2>1. 0 <= ReqCap /\ 0 <= RespCap /\ 0 \in 0..MaxEarly
    BY <2>0
  <2>2. \A S : <<>> \in Seq(S)
    BY Empty
  <2> QED
    BY <1>2, <1>3, <2>1, <2>2 DEF Typed
<1>5. Sent
  BY <1>2, <1>3 DEF Sent
<1>6. Reply = <<>>
  BY <1>2, <1>3 DEF Reply
<1>7. Served
  BY <1>2, <1>6, PullAssumption DEF Served, D!Open
<1>8. Answered
  <2>1. Ordered(Reply) /\ ~Faulty /\ Range(Reply) = {} /\ Range(pending) = {}
    BY <1>2, <1>3, <1>6 DEF Ordered, Faulty
  <2> QED
    BY <1>2, <1>6, <2>1, PullAssumption DEF Answered, Unheard, Hears
<1> QED
  BY <1>1, <1>2, <1>4, <1>5, <1>7, <1>8 DEF PullInv, OkMeansLoaded

LEMMA PullInvNext == PullInv /\ [PullNext]_pullVars => PullInv'
<1> SUFFICES ASSUME PullInv, [PullNext]_pullVars PROVE PullInv'
  OBVIOUS
<1>0. Asked
  BY DEF PullInv
<1>1. CASE Pull
  <2>1. client = "off" /\ UNCHANGED socket /\ (R!Answer \/ \E r \in R!Request : R!Exchange(r))
    BY <1>1 DEF Pull, Pulling
  <2> QED
    BY <1>0, <2>1, AskedNext, RegistryMoves
<1>2. CASE Load
  BY <1>2, ConnectMoves
<1>3. CASE Talk
  BY <1>3, SendMoves, ReceiveMoves DEF Talk
<1>4. CASE Engine
  BY <1>4, TakeMoves, PutMoves, LoadMoves, CloseMoves DEF Engine, D!Engine
<1>5. CASE World
  <2>1. CASE /\ client = "off" /\ UNCHANGED socket
             /\ \/ \E t \in List \cup Manifest : R!Retag(t)
                \/ \E r \in R!Request : R!Expire(r) \/ (Pulling /\ R!RequestFails(r))
    BY <1>0, <2>1, AskedNext, RegistryMoves
  <2>2. CASE /\ D!Refuse \/ D!Die \/ (\E x \in onDisk : D!Lose(x)) \/ D!ConnectFails
             /\ UNCHANGED registry
    BY <2>2, RefuseMoves, DieMoves, LoseMoves, ConnectFailsMoves
  <2> QED
    BY <1>5, <2>1, <2>2 DEF World
<1>6. CASE UNCHANGED pullVars
  <2>1. UNCHANGED registry /\ UNCHANGED socket
    BY <1>6 DEF pullVars
  <2>2. Asked'
    BY <1>0, <2>1, AskedNext
  <2>3. CASE client = "off"
    BY <2>1, <2>2, <2>3, RegistryMoves
  <2>4. CASE client # "off"
    <3>1. UNCHANGED <<client, archive, onDisk, lost, torn, sent, req, resp, engine, got, out, early, head,
                      loaded, pending, broken, plan, index>>
      BY <2>1 DEF registry, socket
    <3>2. Typed'
      BY <3>1 DEF PullInv, Typed
    <3>3. Sent'
      BY <2>4, <3>1, SentSame DEF PullInv
    <3>4. Served' /\ Answered'
      BY <2>4, <3>1, AnswerSame
    <3>5. OkMeansLoaded' /\ (client' = "err" => broken' # {} \/ torn' # {})
      BY <3>1, Settled
    <3> QED
      BY <2>2, <3>2, <3>3, <3>4, <3>5 DEF PullInv
  <2> QED
    BY <2>3, <2>4
<1> QED
  BY <1>1, <1>2, <1>3, <1>4, <1>5, <1>6 DEF PullNext, PullRest

\* The account of a pull and its types hold throughout: what has arrived and what is on its
\* way is what was written.
THEOREM PullTyping == PullSpec => []PullTypeOK
<1>1. PullInv => PullTypeOK
  <2> SUFFICES ASSUME PullInv PROVE PullTypeOK
    OBVIOUS
  <2>1. R!TypeOK /\ Typed /\ got \o req = sent
    BY DEF PullInv, Asked, Sent
  <2>2. got \o req = SubSeq(sent, 1, Len(got) + Len(req))
    <3>1. /\ sent \in Seq(Item) /\ got \in Seq(Item) /\ req \in Seq(Item)
      BY <2>1, Lengths
    <3>2. Len(got \o req) = Len(got) + Len(req)
      BY <3>1, ConcatProperties
    <3>3. SubSeq(sent, 1, Len(sent)) = sent
      BY <3>1, SubSeqFull
    <3> QED
      BY <2>1, <3>2, <3>3
  <2> QED
    BY <2>1, <2>2 DEF PullTypeOK, Typed, Word
<1> QED
  BY <1>1, PullInvInit, PullInvNext, PTL DEF PullSpec

\* A pull that says done has put the manifest its tag named into Docker, with all its blobs,
\* for every registry, every archive and every size of the socket; but for an answer that is
\* not chunked, of an engine that dies.
THEOREM PullLoads == PullSpec => []OkMeansLoaded
<1>1. PullInv => OkMeansLoaded
  BY DEF PullInv
<1> QED
  BY <1>1, PullInvInit, PullInvNext, PTL DEF PullSpec

\* The end of the body follows a whole archive only.
THEOREM WholeArchives == PullSpec => []EndedWhole
<1>1. PullInv => EndedWhole
  BY ZeroIsLast DEF PullInv, EndedWhole
<1> QED
  BY <1>1, PullInvInit, PullInvNext, PTL DEF PullSpec

\* A pull that fails fails for something the world did, or has sent a torn blob.
THEOREM FailuresHaveReasons == PullSpec => []FailsForAReason
<1>1. PullInv => FailsForAReason
  <2> SUFFICES ASSUME PullInv, Over, client # "ok" PROVE hurt # {} \/ broken # {} \/ torn # {}
    BY DEF FailsForAReason
  <2>1. CASE client = "err"
    BY <2>1 DEF PullInv
  <2>2. CASE R!Failed
    BY <2>2 DEF R!Failed, PullInv, Asked
  <2> QED
    BY <2>1, <2>2 DEF Over
<1> QED
  BY <1>1, PullInvInit, PullInvNext, PTL DEF PullSpec
=============================================================================
