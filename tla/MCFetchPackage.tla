---------------------------- MODULE MCFetchPackage ----------------------------
(* Instances of FetchPackage for TLC. *)
EXTENDS FetchPackage, TLC

\* The workspaces are interchangeable: no constant names one of them.
Symmetry == Permutations(Workspaces)

Setting(method, pinned, mirror, faults) ==
  [method |-> method, pinned |-> pinned, mirror |-> mirror, faults |-> faults]

\* Every kind of recipe, each with the faults that matter to it.
AllKinds ==
  { Setting("tar", TRUE,  {1, 2}, {"kill", "net", "origin"}),
    Setting("tar", FALSE, {1, 2}, {"kill", "net", "origin", "change"}),
    Setting("git", TRUE,  {1},    {"net", "origin", "change"}),
    Setting("git", TRUE,  {1},    {"kill", "net", "origin"}),
    Setting("git", TRUE,  {1},    {"net", "change", "branch"}),
    Setting("git", FALSE, {1, 2}, {"net", "branch"}),
    Setting("git", FALSE, {1, 2}, {"kill", "net", "cp"}),
    Setting("svn", TRUE,  {1},    {"kill", "net"}),
    Setting("svn", TRUE,  {1},    {"net", "change"}) }
=============================================================================
