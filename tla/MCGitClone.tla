------------------------------ MODULE MCGitClone ------------------------------
(* Instances of GitClone for TLC. *)
EXTENDS GitClone

\* Two commits that were made from the first: branches that diverge.
Fork == [x \in {1, 2, 3} |-> {1, x}]

PinFields == [tag : Commits, rev : {None}] \cup [tag : {None}, rev : Commits]
               \cup [tag : {None}, rev : {None}]

\* With a tag, a revision or neither; with one of two branches or without.
AnyRecipe ==
  {[branch |-> b, tag |-> p.tag, rev |-> p.rev] :
     b \in {None, "main", "dev"}, p \in PinFields}
=============================================================================
