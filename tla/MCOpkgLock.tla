----------------------------- MODULE MCOpkgLock -----------------------------
(***************************************************************************)
(* Instances of OpkgLock for TLC: processes and inodes are symmetric.      *)
(***************************************************************************)
EXTENDS OpkgLock, TLC

Symmetry == Permutations(Proc) \union Permutations(Inode)
=============================================================================
