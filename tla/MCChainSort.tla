----------------------------- MODULE MCChainSort -----------------------------
(* Instances of ChainSort for TLC. *)
EXTENDS ChainSort

CONSTANTS a, b, c, ghost   \* three packages, and a name of none or of a virtual one

\* The lists of a package that has role[n] for the name n.
Recipe(role, last, known) ==
  [asdeps  |-> {n \in DOMAIN role : role[n] \in {"strong", "both"}},
   awdeps  |-> {n \in DOMAIN role : role[n] \in {"weak", "both", "rule"}},
   ideps   |-> {n \in DOMAIN role : role[n] \in {"cond", "conds"}},
   wrule   |-> IF \E n \in DOMAIN role : role[n] = "rule"
                 THEN {{n \in DOMAIN role : role[n] = "rule"}} ELSE {},
   twice   |-> {n \in DOMAIN role : role[n] = "conds"},
   known   |-> known,
   finally |-> last]

\* All packages with these roles; the ghost is virtual, or nothing, for those that name it.
Packages(roles, lasts) ==
  {Recipe(r, l, {}) : r \in roles, l \in lasts}
    \cup {Recipe(r, l, {ghost}) :
            r \in {q \in roles : ghost \in DOMAIN q /\ q[ghost] # "none"}, l \in lasts}

\* Each of the three packages meets lists of its own: rules over two packages and
\* the ghost, a name in two lists, one or two conditions; and each may have `finally`.
\* Circles of one, two and three packages are among them.
AllRecipes ==
  {[p \in {a, b, c} |-> IF p = a THEN x ELSE IF p = b THEN y ELSE z] :
     x \in Packages([{b, c, ghost} -> {"none", "strong", "rule"}], BOOLEAN),
     y \in Packages([{a, b, c} -> {"none", "both"}], {FALSE}),
     z \in Packages([{a, b, ghost} -> {"none", "cond", "conds"}], BOOLEAN)}
=============================================================================
