------------------------------- MODULE GitClone -------------------------------
(***************************************************************************)
(* How fetch_package.sh brings a git clone in ENV_DOWN_DIR to the branch,  *)
(* tag or revision of the recipe: the clone of a new package, and the      *)
(* clone that exists when the recipe has been edited.                      *)
(*                                                                         *)
(* A run is one action: the package is locked, and FetchPackage looks at   *)
(* runs that break off.  The history of the origin is any graph; branches  *)
(* of it are moved, rewound, replaced and deleted, so that those of the    *)
(* clone may have diverged when git pull comes to them.  The origin may be *)
(* out of reach of a run (`net`), and what a merge comes to is `how`.      *)
(***************************************************************************)
EXTENDS Naturals

CONSTANTS
  Branches,   \* of the repository
  Default,    \* the branch a clone checks out
  Commits,    \* of the origin
  History,    \* the commits that a commit has, itself one of them
  Own,        \* a merge that only the clone has
  Annotated,  \* the commits whose tag is an object of its own
  Recipes,    \* the values of ;branch= ;tag= ;rev= that are used
  None        \* not set, does not exist

Pins == Commits \cup {None}
AllRecipes == [branch : Branches \cup {None}, tag : Pins, rev : Pins]

ASSUME ConstantsAssumption ==
  /\ Default \in Branches
  /\ None \notin Branches /\ None \notin Commits
  /\ Own \notin Commits /\ Own # None
  /\ History \in [Commits -> SUBSET Commits]
  /\ \A x \in Commits : x \in History[x]
  /\ \A x \in Commits : \A y \in History[x] : History[y] \subseteq History[x]
  /\ Annotated \subseteq Commits
  /\ Recipes \subseteq {r \in AllRecipes : r.tag = None \/ r.rev = None}

VARIABLES
  heads,    \* the branches of the origin, None when deleted
  recipe,   \* SRC_BRANCH, SRC_TAG, SRC_REV
  local,    \* the branches of the clone, None where it has none
  remote,   \* its remote-tracking branches
  objs,     \* the commits of the origin that it has
  cur,      \* the branch that is checked out
  hash,     \* is there a hash file
  status    \* how the last run ended: "none" after an edit, "ok" or "failed",
            \* "again" when it is not the first good one after the edit, "offline"
            \* when it failed and did not reach the origin

vars == <<heads, recipe, local, remote, objs, cur, hash, status>>

\* tree: "clean", or "conflict" where git pull left a merge undone.
Clone(l, r, o, c, t) == [local |-> l, remote |-> r, objs |-> o, cur |-> c, tree |-> t]
NoBranch == [b \in Branches |-> None]
NoClone  == Clone(NoBranch, NoBranch, {}, Default, "clean")
Now      == Clone(local, remote, objs, cur, "clean")
HEAD(c)  == c.local[c.cur]
Good     == status \in {"ok", "again"}
Success  == IF Good THEN "again" ELSE "ok"

Init ==
  /\ heads \in {h \in [Branches -> Pins] : h[Default] # None}
  /\ recipe \in Recipes
  /\ local  = NoBranch
  /\ remote = NoBranch
  /\ objs   = {}
  /\ cur    = Default
  /\ hash   = FALSE
  /\ status = "none"
-----------------------------------------------------------------------------
(* The git commands. *)

Reachable == UNION {History[heads[b]] : b \in {d \in Branches : heads[d] # None}}

NewClone == Clone([NoBranch EXCEPT ![Default] = heads[Default]],
                  heads, Reachable, Default, "clean")

Has(x, y)      == x \in Commits /\ y \in History[x]
Diverged(x, h) == h # None /\ ~ Has(x, h) /\ ~ Has(h, x)

\* The branch at x after a merge of h: it moves forward, or has h already.  The
\* merge of a branch that has diverged is made, refused or left in conflict.
Merged(x, h, how) ==
  IF Diverged(x, h) THEN IF how = "made" THEN Own ELSE x
  ELSE IF h # None /\ Has(h, x) THEN h ELSE x

\* git pull: fetch everything (a branch that the origin has no more stays
\* tracked), and merge into the current branch.
Pulled(c, net, how) ==
  IF ~ net THEN c
  ELSE Clone([c.local EXCEPT ![c.cur] = Merged(@, heads[c.cur], how)],
             [b \in Branches |-> IF heads[b] = None THEN c.remote[b] ELSE heads[b]],
             c.objs \cup Reachable,
             c.cur,
             IF Diverged(HEAD(c), heads[c.cur]) /\ how = "conflict"
               THEN "conflict" ELSE c.tree)

\* git checkout, which fails over a conflict and where the branch is neither in
\* the clone nor tracked.  A local branch stays where it was, a new one starts at
\* the remote-tracking branch.
CanCheckout(c, b) ==
  b # None => c.tree = "clean" /\ (c.local[b] # None \/ c.remote[b] # None)

Checkout(c, b) ==
  IF b = None THEN c
  ELSE Clone([c.local EXCEPT ![b] = IF @ = None THEN c.remote[b] ELSE @],
             c.remote, c.objs, b, c.tree)

Known(c, x) == x = None \/ x \in c.objs

\* git reset --hard, which gives up a merge in conflict
Reset(c, x) ==
  IF x = None THEN c
  ELSE Clone([c.local EXCEPT ![c.cur] = x], c.remote, c.objs, c.cur, "clean")
-----------------------------------------------------------------------------
(* do_fetch *)

\* What is at HEAD before the run: the branch, and the tag that git show-ref
\* lists with the commit of HEAD, which is not so for an annotated tag.
rbranch == cur
rrev    == HEAD(Now)
rtag    == IF rrev \in Commits \ Annotated THEN rrev ELSE None

Differ(want, has) == want # None /\ want # has
changed == \/ Differ(recipe.branch, rbranch)
           \/ Differ(recipe.tag, rtag)
           \/ Differ(recipe.rev, rrev)

Pin(tag, rev) == IF tag # None THEN tag ELSE rev

\* The commands that are still needed, by what was at HEAD before the run.
NewBranch == IF Differ(recipe.branch, rbranch) THEN recipe.branch ELSE None
NewPin    == Pin(IF Differ(recipe.tag, rtag) THEN recipe.tag ELSE None,
                 IF Differ(recipe.rev, rrev) THEN recipe.rev ELSE None)

Becomes(c) == local' = c.local /\ remote' = c.remote /\ objs' = c.objs /\ cur' = c.cur

\* The checkout and the reset that a run makes, to branch b and commit x or, with
\* None, nowhere.  Where one of them fails the run ends without a hash.
Finish(c, b, x, net) ==
  /\ \/ /\ CanCheckout(c, b) /\ Known(c, x)
        /\ Becomes(Reset(Checkout(c, b), x))
        /\ hash'   = TRUE
        /\ status' = Success
     \/ /\ ~ (CanCheckout(c, b) /\ Known(c, x))
        /\ Becomes(IF CanCheckout(c, b) THEN Checkout(c, b) ELSE c)
        /\ hash'   = FALSE
        /\ status' = IF net THEN "failed" ELSE "offline"
  /\ UNCHANGED <<heads, recipe>>

\* What is there without a hash is removed first.
FetchNew ==
  /\ ~ hash
  /\ Finish(NewClone, recipe.branch, Pin(recipe.tag, recipe.rev), TRUE)

CloneFails ==
  /\ ~ hash
  /\ Becomes(NoClone)
  /\ status' = "offline"
  /\ UNCHANGED <<heads, recipe, hash>>

FetchKept ==
  /\ hash
  /\ ~ changed
  /\ status' = Success
  /\ UNCHANGED <<heads, recipe, local, remote, objs, cur, hash>>

\* Mutant of FetchChanged: no git pull.
FetchChangedOffline(net, how) ==
  /\ hash
  /\ changed
  /\ Finish(Now, NewBranch, NewPin, net)

\* Mutant of FetchChanged: git pull comes last.
FetchChangedPullsLast(net, how) ==
  /\ hash
  /\ changed
  /\ CanCheckout(Now, NewBranch) /\ Known(Now, NewPin)
  /\ Finish(Pulled(Reset(Checkout(Now, NewBranch), NewPin), net, how), None, None, net)

\* Mutant of FetchChanged: the branch is not looked at.
FetchChangedSameBranch(net, how) ==
  /\ hash
  /\ changed
  /\ Finish(Pulled(Now, net, how), None, NewPin, net)

\* The status of git pull is ignored.
FetchChanged(net, how) ==
  /\ hash
  /\ changed
  /\ Finish(Pulled(Now, net, how), NewBranch, NewPin, net)
-----------------------------------------------------------------------------
(* The user and the origin. *)

Edit(r) ==
  /\ r # recipe
  /\ recipe' = r
  /\ status' = "none"
  /\ UNCHANGED <<heads, local, remote, objs, cur, hash>>

\* A push or a forced push; the default branch is not deleted.
Push(b, x) ==
  /\ x # heads[b]
  /\ b = Default => x # None
  /\ heads' = [heads EXCEPT ![b] = x]
  /\ UNCHANGED <<recipe, local, remote, objs, cur, hash, status>>

Merging == {"made", "refused", "conflict"}

Next ==
  \/ FetchNew \/ CloneFails \/ FetchKept
  \/ \E net \in BOOLEAN, how \in Merging : FetchChanged(net, how)
  \/ \E r \in Recipes : Edit(r)
  \/ \E b \in Branches, x \in Pins : Push(b, x)

Spec == Init /\ [][Next]_vars
-----------------------------------------------------------------------------
TypeOK ==
  /\ heads  \in [Branches -> Pins]
  /\ recipe \in Recipes
  /\ local  \in [Branches -> Pins \cup {Own}]
  /\ remote \in [Branches -> Pins]
  /\ objs   \subseteq Commits
  /\ cur    \in Branches
  /\ hash   \in BOOLEAN
  /\ status \in {"none", "ok", "again", "failed", "offline"}

AtPin == Pin(recipe.tag, recipe.rev) # None => HEAD(Now) = Pin(recipe.tag, recipe.rev)

\* A run that ends well leaves the clone at the tag or revision of the recipe,
\* whatever the clone was used for before.
PinFetched == Good => AtPin

\* At least the second run after an edit does.
SecondRunPins == status = "again" => AtPin

\* A run that ends well leaves the clone on the branch of the recipe.
BranchFetched == Good /\ recipe.branch # None => cur = recipe.branch

\* The origin has not what the recipe asks for.
Lacking ==
  \/ recipe.branch # None /\ heads[recipe.branch] = None
  \/ Pin(recipe.tag, recipe.rev) \notin Reachable \cup {None}

\* The branch that has to be left cannot be merged into.
Caught == hash /\ NewBranch # None /\ Diverged(HEAD(Now), heads[cur])

\* A run that reaches the origin only fails (fetch_package.sh:143-160, 237-256)
\* over what the origin lacks, or where a branch that has diverged has to be left:
\* neither old clones nor lost branches are a reason.
FailsForCause ==
  [][heads' = heads /\ status' = "failed" => Lacking \/ Caught]_vars

(* Inductive invariants. *)

\* A hash stands beside a clone that has a HEAD; a second run in a row finds
\* the clone on the branch of the recipe.
CloneInv ==
  /\ TypeOK
  /\ Good => hash
  /\ hash => local[cur] # None
  /\ heads[Default] # None
  /\ BranchFetched
  /\ SecondRunPins

\* Where the branch of the recipe is never edited, the first run does too.
OnBranch == hash /\ recipe.branch # None => cur = recipe.branch
FixedInv == CloneInv /\ OnBranch /\ PinFetched
=============================================================================
