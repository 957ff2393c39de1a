------------------------------- MODULE ChainSort -------------------------------
(***************************************************************************)
(* scripts/bin/gen_build_chain.py from the dependency lists of the         *)
(* packages to the prerequisites of the generated Makefile: check_item     *)
(* drops or refuses the dependencies that do not exist and counts the      *)
(* others, sort_items puts the packages into an order or finds a circle,   *)
(* gen_make writes the targets.                                            *)
(*                                                                         *)
(* The lists are sets, and `twice` has the names that one of them has a    *)
(* second time (dep@x with dep@y, ??dep with dep|other).                   *)
(* Virtual packages are not built, but a list may name one without its     *)
(* `*`: check_item then finds it among the targets (`known`) and counts    *)
(* it.  Menus, choices and conflicts only concern Kconfig.                 *)
(***************************************************************************)
EXTENDS Integers, FiniteSets

CONSTANTS
  Items,    \* ActualList: the packages
  Names,    \* what dependencies can name, Items, virtual packages and names of none
  Recipes   \* the lists of all packages, see Lists

Lists == [Items -> [asdeps : SUBSET Names,    \* strong
                    awdeps : SUBSET Names,    \* weak: ?dep, depa|depb
                    ideps  : SUBSET Names,    \* conditional: dep@condition
                    wrule  : SUBSET (SUBSET Names),   \* the sets of depa|depb
                    twice  : SUBSET Names,            \* repeated in a list
                    known  : SUBSET (Names \ Items),  \* virtual, see Targets
                    finally : BOOLEAN]]

ASSUME ConstantsAssumption ==
  /\ Items \subseteq Names
  /\ IsFiniteSet(Names)
  /\ Recipes \subseteq Lists

VARIABLES
  item,     \* the lists
  acount,   \* how many dependencies a package still waits for
  temp,     \* the packages that have no place yet
  level,    \* the round of sort_items that gave a package its place, or 0
  round,    \* history: the number of rounds
  flag,     \* finally_flag
  pc        \* "check", "sort", "sorted"; the errors "missing", "circular"

vars == <<item, acount, temp, level, round, flag, pc>>

FinallyList == {p \in Items : item[p].finally}
Deps(p)     == item[p].asdeps \cup item[p].awdeps \cup item[p].ideps

Init ==
  /\ item \in Recipes
  /\ acount = [p \in Items |-> IF item[p].finally THEN 1 ELSE 0]
  /\ temp = Items
  /\ level = [p \in Items |-> 0]
  /\ round = 0
  /\ flag = TRUE
  /\ pc = "check"
-----------------------------------------------------------------------------
(* check_item *)

\* target_list when it comes to p: the packages, and the virtual packages but for
\* choices and for menus that have been found empty.
Targets(p) == Items \cup item[p].known

\* A strong dependency does not exist, or no alternative of a weak rule does.
Missing(p) ==
  \/ ~ item[p].asdeps \subseteq Targets(p)
  \/ \E r \in item[p].wrule : r \cap Targets(p) = {} /\ r \cap item[p].awdeps # {}

CheckMissing ==
  /\ pc = "check"
  /\ \E p \in Items : Missing(p)
  /\ pc' = "missing"
  /\ UNCHANGED <<item, acount, temp, level, round, flag>>

\* The lists of p without what does not exist.
Found(p) == [item[p] EXCEPT !.awdeps = @ \cap Targets(p),
                            !.ideps  = @ \cap Targets(p),
                            !.twice  = @ \cap Targets(p)]

\* Mutant of CheckCounts: nobody waits for a dependency with a condition.
CheckCountsHard ==
  /\ pc = "check"
  /\ \A p \in Items : ~ Missing(p)
  /\ item' = [p \in Items |-> Found(p)]
  /\ acount' = [p \in Items |-> acount[p] + Cardinality(Found(p).asdeps)
                  + Cardinality(Found(p).awdeps) + Cardinality(Found(p).twice)]
  /\ pc' = "sort"
  /\ UNCHANGED <<temp, level, round, flag>>

\* Mutant of CheckCounts: the count starts anew, "=" in the place of "+=".
CheckCountsAnew ==
  /\ pc = "check"
  /\ \A p \in Items : ~ Missing(p)
  /\ item' = [p \in Items |-> Found(p)]
  /\ acount' = [p \in Items |-> Cardinality(Found(p).asdeps)
                  + Cardinality(Found(p).awdeps) + Cardinality(Found(p).ideps)
                  + Cardinality(Found(p).twice)]
  /\ pc' = "sort"
  /\ UNCHANGED <<temp, level, round, flag>>

CheckCounts ==
  /\ pc = "check"
  /\ \A p \in Items : ~ Missing(p)
  /\ item' = [p \in Items |-> Found(p)]
  /\ acount' = [p \in Items |-> acount[p] + Cardinality(Found(p).asdeps)
                  + Cardinality(Found(p).awdeps) + Cardinality(Found(p).ideps)
                  + Cardinality(Found(p).twice)]
  /\ pc' = "sort"
  /\ UNCHANGED <<temp, level, round, flag>>
-----------------------------------------------------------------------------
(* sort_items: the rounds of its loop. *)

lista == {p \in temp : acount[p] = 0}
listb == temp \ lista

\* Mutant of SortRound: one dependency counts once, in however many lists.
SortRoundOnce ==
  /\ pc = "sort" /\ lista # {}
  /\ acount' = [p \in Items |->
       IF p \in listb THEN acount[p] - Cardinality(Deps(p) \cap lista) ELSE acount[p]]
  /\ level' = [p \in Items |-> IF p \in lista THEN round + 1 ELSE level[p]]
  /\ temp'  = listb
  /\ round' = round + 1
  /\ UNCHANGED <<item, flag, pc>>

\* The packages that wait for nothing get the next places, and are taken off
\* the counts of the others: once for each list, also where it repeats them.
SortRound ==
  /\ pc = "sort" /\ lista # {}
  /\ acount' = [p \in Items |->
       IF p \in listb
         THEN acount[p] - Cardinality(item[p].asdeps \cap lista)
                - Cardinality(item[p].awdeps \cap lista)
                - Cardinality(item[p].ideps \cap lista)
         ELSE acount[p]]
  /\ level' = [p \in Items |-> IF p \in lista THEN round + 1 ELSE level[p]]
  /\ temp'  = listb
  /\ round' = round + 1
  /\ UNCHANGED <<item, flag, pc>>

\* Only now do the packages with `finally` stop waiting for the others.
FinallyRound ==
  /\ pc = "sort" /\ lista = {} /\ temp # {}
  /\ flag
  /\ flag' = FALSE
  /\ acount' = [p \in Items |->
       IF p \in temp /\ p \in FinallyList THEN acount[p] - 1 ELSE acount[p]]
  /\ UNCHANGED <<item, temp, level, round, pc>>

\* Mutant of Circular: no return after the error.
CircularGoesOn ==
  /\ pc = "sort" /\ lista = {} /\ temp # {}
  /\ ~ flag
  /\ UNCHANGED vars

Circular ==
  /\ pc = "sort" /\ lista = {} /\ temp # {}
  /\ ~ flag
  /\ pc' = "circular"
  /\ UNCHANGED <<item, acount, temp, level, round, flag>>

Sorted ==
  /\ pc = "sort" /\ temp = {}
  /\ pc' = "sorted"
  /\ UNCHANGED <<item, acount, temp, level, round, flag>>
-----------------------------------------------------------------------------
(* gen_make *)

\* Mutant of Prerequisites: packages with `finally` wait for each other.
PrerequisitesAll(p) ==
  Deps(p) \cup (IF p \in FinallyList THEN Items \ {p} ELSE {})

\* The prerequisites of the target of a package.
Prerequisites(p) ==
  Deps(p) \cup (IF p \in FinallyList THEN Items \ FinallyList ELSE {})
-----------------------------------------------------------------------------
Next ==
  \/ CheckMissing \/ CheckCounts
  \/ SortRound \/ FinallyRound \/ Circular \/ Sorted

Spec     == Init /\ [][Next]_vars
\* The script runs to its end.
FairSpec == Spec /\ WF_vars(Next)
-----------------------------------------------------------------------------
TypeOK ==
  /\ item   \in Lists
  /\ acount \in [Items -> Nat]
  /\ temp   \in SUBSET Items
  /\ level  \in [Items -> Nat]
  /\ round  \in Nat
  /\ flag   \in BOOLEAN
  /\ pc     \in {"check", "sort", "sorted", "missing", "circular"}

\* A package gets its place after all of its dependencies.
InOrder ==
  \A p \in Items : level[p] > 0 =>
    \A d \in Deps(p) : d \in Items /\ 0 < level[d] /\ level[d] < level[p]

\* What keeps the count of p above zero for ever: a name that a list repeats, and
\* one of a virtual package, which sort_items never comes to.
Miscounted(p) == item[p].twice # {} \/ Deps(p) \ Items # {}

\* "circular deps" is only printed of packages that do wait for each other: each
\* one that is left depends on one that is left, or is miscounted.
NoFalseCircle ==
  pc = "circular" =>
    temp # {} /\ \A p \in temp : Deps(p) \cap temp # {} \/ Miscounted(p)

\* A set with the packages that have `finally` and all that depend on it.
Closed(S) ==
  /\ FinallyList \subseteq S
  /\ \A p \in Items : Deps(p) \cap S # {} => p \in S

\* The packages that, one way or other, depend on one with `finally`.
Late == {p \in Items : \A S \in SUBSET Items : Closed(S) => p \in S}

\* `finally` comes last: in a complete order, a package that has it comes after
\* every package that does not need one that has it.
FinallyLast ==
  pc = "sorted" =>
    \A f \in FinallyList, p \in Items \ Late : level[p] < level[f]

\* The Makefile has an order to build in where the script found one, if no
\* package without `finally` depends on one with it: no circle that make would
\* have to break.
MakeHasOrder ==
  pc = "sorted" /\ Late \subseteq FinallyList =>
    \A p \in Items : \A d \in Prerequisites(p) : level[d] < level[p]

\* The names without a place.
Open == temp \cup (Names \ Items)

\* Why InOrder and NoFalseCircle hold: a package waits for its dependencies that
\* have no place yet, once for each list, for finally_flag, and for ever for what
\* a list repeats.
Waits(p) ==
  Cardinality(item[p].asdeps \cap Open) + Cardinality(item[p].awdeps \cap Open)
    + Cardinality(item[p].ideps \cap Open)
    + (IF flag /\ p \in FinallyList THEN 1 ELSE 0) + Cardinality(item[p].twice)

Counted ==
  pc \notin {"check", "missing"} => \A p \in temp : acount[p] = Waits(p)

Unchecked ==
  pc = "check" =>
    /\ temp = Items /\ flag
    /\ acount = [p \in Items |-> IF p \in FinallyList THEN 1 ELSE 0]

Placed ==
  /\ \A p \in Items : (p \in temp <=> level[p] = 0) /\ level[p] <= round
  /\ pc = "sorted" => temp = {}

\* Why FinallyLast holds: when finally_flag falls, what is left without needing
\* `finally` waits for each other and will never get a place.
Stuck(S) ==
  \A p \in temp \ S : Deps(p) \cap (temp \ S) # {} \/ Miscounted(p)

FinallyWaits ==
  /\ flag => \A f \in FinallyList : level[f] = 0
  /\ ~ flag => \A S \in SUBSET Items : Closed(S) =>
       /\ Stuck(S)
       /\ \A f \in FinallyList, p \in Items \ S :
            level[f] > 0 /\ level[p] > 0 => level[p] < level[f]

SortInv ==
  TypeOK /\ Unchecked /\ Counted /\ Placed /\ InOrder /\ NoFalseCircle /\ FinallyWaits

\* The script ends.
Ends == <>(pc \in {"sorted", "missing", "circular"})
=============================================================================
