---------------------------- MODULE MCBuildCache ----------------------------
(* BuildCache on small instances; the constants are in the .cfg files. *)
EXTENDS BuildCache, TLC

\* Workspaces are interchangeable (safety only).
Symmetry == Permutations(Workspaces)
=============================================================================
