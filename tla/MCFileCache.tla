----------------------------- MODULE MCFileCache -----------------------------
(* FileCache on small instances. *)
EXTENDS FileCache, TLC

\* Inodes only differ by who refers to them, processes by what they do.
AllSymmetry == Permutations(Inode) \cup Permutations(Proc)
=============================================================================
