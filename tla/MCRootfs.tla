------------------------------ MODULE MCRootfs ------------------------------
(* Rootfs on small trees: a shell, its loader, and links on the way to both. *)
EXTENDS Rootfs, TLC

Sh == "sh"
Ld == "ld"
Bin == "bin"
Usr == "usr"
Up == "up"
Loop == "loop"
Proc == "proc"

Names == {Sh, Ld, Bin, Usr, Up, Loop, Proc}
PseudoRoots == {Proc}
Contents == {"sh1", "sh2", "ld1"}

To(parts) == [abs |-> TRUE, parts |-> parts]
From(parts) == [abs |-> FALSE, parts |-> parts]
Link(ref) == [kind |-> "link", to |-> ref]
File(content) == [kind |-> "file", content |-> content]

\* Both shells name the loader by way of /bin.
Loaders == [c \in Contents |-> IF c = "ld1" THEN None ELSE To(<<Bin, Ld>>)]

\* /bin is a link to /usr, /usr/up one back to the root.
Linked(sh) ==
  <<Bin>> :> Link(From(<<Usr>>)) @@ <<Usr>> :> Dir @@ <<Usr, Sh>> :> File(sh)
  @@ <<Usr, Ld>> :> File("ld1") @@ <<Usr, Up>> :> Link(From(<<"..">>))
  @@ <<Loop>> :> Link(To(<<Loop>>)) @@ <<Proc>> :> Dir

\* /bin is a directory, /usr/sh a link into it.
Split ==
  <<Bin>> :> Dir @@ <<Bin, Sh>> :> File("sh1") @@ <<Bin, Ld>> :> File("ld1")
  @@ <<Usr>> :> Dir @@ <<Usr, Sh>> :> Link(To(<<Bin, Sh>>)) @@ <<Loop>> :> Special

AllTrees == {Linked("sh1"), Split}
\* The job of an upgrade replaces the shell.
Upgraded == {Linked("sh2")}

Refs == {To(<<Bin, Sh>>), To(<<".", Loop>>), To(<<Usr, Up, Bin, Ld>>), To(<<Usr, "..", Bin>>),
         To(<<Usr, Sh, "..">>),
         To(<<Proc, Ld>>), From(<<Sh>>)}

ASSUME CompleteAssumption == CompleteTrees
=============================================================================
