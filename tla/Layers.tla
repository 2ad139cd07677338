------------------------------- MODULE Layers -------------------------------
(***************************************************************************)
(* How a cold run makes a root out of an image: extract_layers,              *)
(* extract_layer and the whiteouts of src/rootfs.rs.                         *)
(*                                                                          *)
(* A layer is an archive, a sequence of entries that are applied one by one:  *)
(* directories and files are unpacked, a whiteout deletes a name, an opaque   *)
(* whiteout what is in a directory.  What a file holds is told by the layer   *)
(* it comes from.  A symbolic link is a file nothing is unpacked through.     *)
(***************************************************************************)
EXTENDS Integers, Sequences, SequencesExt

CONSTANTS
  Path,     \* paths below the root
  Above,    \* Path -> the paths above it
  Entry,    \* entries an archive can have
  MaxLayers, MaxEntries, \* bounds: layers, and entries of all of them
  LayerFaults \* SUBSET {"layer"}

\* What an entry can be, and where: for a whiteout the path it deletes, for an opaque one
\* the directory it empties (whiteout_target).
AnyEntry == [kind : {"dir", "file", "whiteout", "opaque"}, path : Path]

ASSUME LayersAssumption ==
  /\ Above \in [Path -> SUBSET Path]
  /\ \A p \in Path : p \notin Above[p] /\ \A q \in Above[p] : Above[q] \subseteq Above[p]
  /\ \A p \in Path : \A q, r \in Above[p] : q = r \/ q \in Above[r] \/ r \in Above[q]
  /\ Entry \subseteq AnyEntry
  /\ MaxLayers \in Nat \ {0} /\ MaxEntries \in Nat

VARIABLES
  pc,      \* "layers", "unpacked" or "failed"
  image,   \* the layers as far as they have been read
  tree     \* Path -> nothing, a directory, or a file with the number of its layer

vars == <<pc, image, tree>>

Nothing == <<"nothing">>
Dir == <<"dir">>
layer == Len(image)
Below(p) == {q \in Path : p \in Above[q]}

TypeOK ==
  /\ pc \in {"layers", "unpacked", "failed"}
  /\ image \in Seq(Seq(Entry)) /\ layer > 0
  /\ tree \in [Path -> {Nothing, Dir} \cup ({"file"} \X (1 .. layer))]
  /\ \A p \in Path : tree[p] # Nothing => \A q \in Above[p] : tree[q] = Dir

Init ==
  /\ pc = "layers"
  /\ image = <<<<>>>>
  /\ tree = [p \in Path |-> Nothing]

\* The next entry of the archive.
Read(e) ==
  /\ pc = "layers"
  /\ FoldSeq(LAMBDA l, n : Len(l) + n, 0, image) < MaxEntries
  /\ image' = [image EXCEPT ![layer] = Append(@, e)]
  /\ UNCHANGED pc

\* The directories above an entry are made with it.
WithParents(p, node) ==
  [q \in Path |-> IF q = p THEN node ELSE IF q \in Above[p] THEN Dir ELSE tree[q]]

\* Nothing but directories above it, and nothing in its place that is of the other kind.
Fits(e) ==
  /\ \A q \in Above[e.path] : tree[q] \in {Nothing, Dir}
  /\ tree[e.path] # Nothing => (tree[e.path] = Dir <=> e.kind = "dir")

UnpackDir(e) ==
  /\ e.kind = "dir" /\ Fits(e)
  /\ Read(e)
  /\ tree' = WithParents(e.path, Dir)

\* With overwrite, a file takes the place of one that is there.
UnpackFile(e) ==
  /\ e.kind = "file" /\ Fits(e)
  /\ Read(e)
  /\ tree' = WithParents(e.path, <<"file", layer>>)

\* unpack_in does not put a directory in the place of a file or the other way round.  It
\* is reported and the entry left out.
Skip(e) ==
  /\ e.kind \in {"dir", "file"} /\ ~Fits(e)
  /\ Read(e)
  /\ UNCHANGED tree

Clear(paths) == tree' = [p \in Path |-> IF p \in paths THEN Nothing ELSE tree[p]]

\* Mutant: remove_file, whatever it is.
WhiteoutFile(e) ==
  /\ e.kind = "whiteout"
  /\ Read(e)
  /\ Clear(IF tree[e.path] = Dir THEN {} ELSE {e.path})

\* Mutant: the name alone.
WhiteoutAlone(e) ==
  /\ e.kind = "whiteout"
  /\ Read(e)
  /\ Clear({e.path})

\* apply_whiteout: a name, with what is below it.
Whiteout(e) ==
  /\ e.kind = "whiteout"
  /\ Read(e)
  /\ Clear({e.path} \cup Below(e.path))

\* What is in the directory goes, the directory stays.
Opaque(e) ==
  /\ e.kind = "opaque"
  /\ Read(e)
  /\ Clear(Below(e.path))

\* The archive is over, and there is another layer ...
NextLayer ==
  /\ pc = "layers" /\ layer < MaxLayers
  /\ image' = Append(image, <<>>)
  /\ UNCHANGED <<pc, tree>>

\* ... or there is none.
Unpacked ==
  /\ pc = "layers"
  /\ pc' = "unpacked"
  /\ UNCHANGED <<image, tree>>

\* The blob is gone, or is no archive from here on: the run fails.
LayerFails ==
  /\ "layer" \in LayerFaults
  /\ pc = "layers"
  /\ pc' = "failed"
  /\ UNCHANGED <<image, tree>>

Rest == pc # "layers" /\ UNCHANGED vars

Next ==
  \/ \E e \in Entry : UnpackDir(e) \/ UnpackFile(e) \/ Skip(e) \/ Whiteout(e) \/ Opaque(e)
  \/ NextLayer \/ Unpacked \/ LayerFails
  \/ Rest

Spec == Init /\ [][Next]_vars

-----------------------------------------------------------------------------
(* What an image says, layer by layer and without an order in a layer *)

Entries(l) == {image[l][i] : i \in DOMAIN image[l]}

\* A layer gives a path if it has an entry at or below it, and takes away what a
\* whiteout of it covers.
Gives(e, p) == e.kind \in {"dir", "file"} /\ (e.path = p \/ p \in Above[e.path])
Takes(e, p) ==
  \/ e.kind = "whiteout" /\ (e.path = p \/ e.path \in Above[p])
  \/ e.kind = "opaque" /\ e.path \in Above[p]

\* A layer after l, up to k, takes it away.
TakenAway(p, l, k) == \E m \in l + 1 .. k : \E e \in Entries(m) : Takes(e, p)

\* A path is what the last layer that gives it makes it, unless a later one takes it away.
Declared(p) ==
  LET file == [kind |-> "file", path |-> p]
      givers == {l \in 1 .. layer :
                   (\E e \in Entries(l) : Gives(e, p)) /\ ~TakenAway(p, l, layer)}
      last(l) == \A k \in givers : k <= l
  IN
  IF givers = {} THEN Nothing
  ELSE IF \E l \in givers : last(l) /\ file \in Entries(l)
       THEN <<"file", CHOOSE l \in givers : last(l)>>
       ELSE Dir

\* A layer has a directory where the same or an earlier one has a file, or the other way
\* round, and no whiteout between them.
Conflict(p) ==
  LET file == [kind |-> "file", path |-> p] IN
  \E l \in 1 .. layer : \E k \in l .. layer : \E e \in Entries(l), g \in Entries(k) :
    Gives(e, p) /\ Gives(g, p) /\ (e = file) # (g = file) /\ ~TakenAway(p, l, k)

\* A whiteout that comes after an entry of its own layer that it covers.
Late(p) ==
  \E l \in 1 .. layer : \E i, j \in DOMAIN image[l] :
    i < j /\ Gives(image[l][i], p) /\ Takes(image[l][j], p)

\* The root is at all times what the layers so far declare, path by path: what a layer
\* deletes is gone until a later one brings it back, and nothing else is.  A path is only
\* ever something else if a whiteout came later in its layer than what it covers, which
\* the code then deletes too, or if a directory and a file met at or above it, where the
\* code keeps what was there first.
AsDeclared ==
  \A p \in Path :
    \/ tree[p] = Declared(p)
    \/ Late(p)
    \/ \E q \in Above[p] \cup {p} : Conflict(q)
=============================================================================
