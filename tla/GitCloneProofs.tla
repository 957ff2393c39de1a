---------------------------- MODULE GitCloneProofs ----------------------------
(***************************************************************************)
(* Proofs about GitClone, for every set of branches and any history.       *)
(*                                                                         *)
(* A reset can be skipped only when HEAD was at the commit before git pull *)
(* and checkout moved it.  With the branch left alone, the run is then one *)
(* of FetchKept: `changed` has no other reason than the tag or revision.   *)
(* A run that reaches the origin has all of it before it looks for the     *)
(* branch and the pin (Fetched).                                           *)
(***************************************************************************)
EXTENDS GitClone, TLAPS

FixedBranch == \A r, s \in Recipes : r.branch = s.branch

\* A clone as the git commands see it: its branch exists.
Usable(c) ==
  /\ c.local  \in [Branches -> Pins \cup {Own}]
  /\ c.remote \in [Branches -> Pins]
  /\ c.objs \subseteq Commits
  /\ c.cur \in Branches
  /\ c.local[c.cur] # None

\* A clone that has all of the origin.
Fetched(c) ==
  /\ Reachable \subseteq c.objs
  /\ \A b \in Branches : heads[b] # None => c.remote[b] # None

LEMMA RecipeType ==
  ASSUME NEW r \in Recipes
  PROVE  /\ r.branch \in Branches \cup {None}
         /\ r.tag \in Pins /\ r.rev \in Pins
         /\ r.tag = None \/ r.rev = None
BY ConstantsAssumption DEF AllRecipes

LEMMA ReachableType == TypeOK => Reachable \subseteq Commits
<1> SUFFICES ASSUME TypeOK, NEW x \in Reachable PROVE x \in Commits OBVIOUS
<1>1. PICK b \in Branches : heads[b] # None /\ x \in History[heads[b]]
  BY DEF Reachable
<1>2. heads[b] \in Commits BY <1>1 DEF TypeOK, Pins
<1> QED BY <1>1, <1>2, ConstantsAssumption

\* What NewBranch and NewPin stand for.
LEMMA NewType ==
  ASSUME TypeOK
  PROVE  /\ NewBranch \in Branches \cup {None}
         /\ NewPin \in Pins
         /\ NewBranch # None => NewBranch = recipe.branch
         /\ NewPin # None => NewPin = Pin(recipe.tag, recipe.rev)
         /\ NewBranch = None => recipe.branch = None \/ recipe.branch = cur
<1>1. recipe \in Recipes BY DEF TypeOK
<1> QED BY <1>1, RecipeType DEF NewBranch, NewPin, Pin, Pins, Differ, rbranch

\* git clone, pull, checkout and reset keep a clone usable.
LEMMA UsableNew ==
  TypeOK /\ heads[Default] # None => Usable(NewClone) /\ Fetched(NewClone)
<1> SUFFICES ASSUME TypeOK, heads[Default] # None
             PROVE  Usable(NewClone) /\ Fetched(NewClone)
  OBVIOUS
<1>1. NewClone.local = [NoBranch EXCEPT ![Default] = heads[Default]]
  BY DEF NewClone, Clone
<1>2. NewClone.remote = heads /\ NewClone.objs = Reachable /\ NewClone.cur = Default
  BY DEF NewClone, Clone
<1>3. NewClone.local \in [Branches -> Pins \cup {Own}] /\ NewClone.local[Default] # None
  BY <1>1, ConstantsAssumption DEF TypeOK, NoBranch, Pins
<1> QED BY <1>2, <1>3, ReachableType, ConstantsAssumption DEF Usable, Fetched, TypeOK

LEMMA MergedType ==
  ASSUME NEW x \in Pins \cup {Own}, NEW h \in Pins, NEW how, x # None
  PROVE  Merged(x, h, how) \in Pins \cup {Own} /\ Merged(x, h, how) # None
BY ConstantsAssumption DEF Merged, Pins

LEMMA UsablePulled ==
  ASSUME TypeOK, NEW c, Usable(c), NEW net \in BOOLEAN, NEW how
  PROVE  /\ Usable(Pulled(c, net, how))
         /\ Pulled(c, net, how).cur = c.cur
         /\ net => Fetched(Pulled(c, net, how))
<1>1. CASE ~ net BY <1>1 DEF Pulled
<1>2. CASE net
  <2> DEFINE d == Pulled(c, net, how)
  <2>1. /\ d.local = [c.local EXCEPT ![c.cur] = Merged(@, heads[c.cur], how)]
        /\ d.remote = [b \in Branches |->
                         IF heads[b] = None THEN c.remote[b] ELSE heads[b]]
        /\ d.objs = c.objs \cup Reachable
        /\ d.cur = c.cur
    BY <1>2 DEF Pulled, Clone
  <2> HIDE DEF d
  <2>2. Merged(c.local[c.cur], heads[c.cur], how) \in (Pins \cup {Own}) \ {None}
    BY MergedType DEF Usable, TypeOK
  <2>3. d.local \in [Branches -> Pins \cup {Own}] /\ d.local[d.cur] # None
    BY <2>1, <2>2 DEF Usable
  <2>4. d.remote \in [Branches -> Pins] BY <2>1 DEF Usable, TypeOK
  <2>5. Fetched(d) BY <2>1 DEF Fetched
  <2>6. Usable(d) BY <2>1, <2>3, <2>4, ReachableType DEF Usable
  <2> QED BY <2>1, <2>5, <2>6 DEF d
<1> QED BY <1>1, <1>2

LEMMA UsableCheckout ==
  ASSUME NEW c, Usable(c), NEW b \in Branches \cup {None}, CanCheckout(c, b)
  PROVE  /\ Usable(Checkout(c, b))
         /\ Checkout(c, b).cur = IF b = None THEN c.cur ELSE b
<1>1. CASE b = None BY <1>1 DEF Checkout
<1>2. CASE b # None
  <2> DEFINE d == Checkout(c, b)
  <2>1. /\ d.local = [c.local EXCEPT ![b] = IF @ = None THEN c.remote[b] ELSE @]
        /\ d.remote = c.remote /\ d.objs = c.objs /\ d.cur = b
    BY <1>2 DEF Checkout, Clone
  <2>2. d.local \in [Branches -> Pins \cup {Own}] /\ d.local[b] # None
    BY <1>2, <2>1 DEF Usable, CanCheckout
  <2> HIDE DEF d
  <2>3. Usable(d) BY <1>2, <2>1, <2>2 DEF Usable
  <2> QED BY <1>2, <2>1, <2>3 DEF d
<1> QED BY <1>1, <1>2

LEMMA UsableReset ==
  ASSUME NEW c, Usable(c), NEW x \in Pins
  PROVE  /\ Usable(Reset(c, x))
         /\ Reset(c, x).cur = c.cur
         /\ x # None => HEAD(Reset(c, x)) = x
BY ConstantsAssumption DEF Usable, Reset, Clone, HEAD, Pins

\* A run on a usable clone that resets it to the pin establishes the invariant.
LEMMA FinishPins ==
  ASSUME TypeOK, heads[Default] # None, NEW c, Usable(c),
         NEW b \in Branches \cup {None}, NEW x \in Pins, NEW net, Finish(c, b, x, net),
         recipe.branch # None => recipe.branch = IF b = None THEN c.cur ELSE b
  PROVE  /\ x = Pin(recipe.tag, recipe.rev) \/ ~ Good => CloneInv'
         /\ x = Pin(recipe.tag, recipe.rev) => PinFetched'
         /\ OnBranch'
<1>a. recipe' = recipe /\ heads' = heads BY DEF Finish
<1>1. CASE CanCheckout(c, b) /\ Known(c, x)
  <2> DEFINE d == Reset(Checkout(c, b), x)
  <2>1. /\ Usable(d) /\ d.cur = IF b = None THEN c.cur ELSE b
        /\ x # None => HEAD(d) = x
    BY <1>1, UsableCheckout, UsableReset
  <2>2. /\ local' = d.local /\ remote' = d.remote /\ objs' = d.objs /\ cur' = d.cur
        /\ hash' = TRUE /\ status' = Success
    BY <1>1 DEF Finish, Becomes
  <2> HIDE DEF d
  <2>3. TypeOK' BY <1>a, <2>1, <2>2 DEF TypeOK, Usable, Success
  <2>4. recipe'.branch # None => cur' = recipe'.branch
    BY <1>a, <2>1, <2>2
  <2>5. x = Pin(recipe.tag, recipe.rev) => AtPin'
    BY <1>a, <2>1, <2>2 DEF AtPin, HEAD, Now, Clone
  <2>6. ~ Good => status' # "again" BY <2>2 DEF Success
  <2>7. local'[cur'] # None BY <2>1, <2>2 DEF Usable
  <2> QED BY <1>a, <2>2, <2>3, <2>4, <2>5, <2>6, <2>7
       DEF CloneInv, BranchFetched, OnBranch, PinFetched, SecondRunPins
<1>2. CASE ~ (CanCheckout(c, b) /\ Known(c, x))
  <2> DEFINE d == IF CanCheckout(c, b) THEN Checkout(c, b) ELSE c
  <2>1. Usable(d) BY UsableCheckout
  <2>2. /\ local' = d.local /\ remote' = d.remote /\ objs' = d.objs /\ cur' = d.cur
        /\ hash' = FALSE /\ status' \in {"failed", "offline"}
    BY <1>2 DEF Finish, Becomes
  <2> HIDE DEF d
  <2>3. TypeOK' BY <1>a, <2>1, <2>2 DEF TypeOK, Usable
  <2> QED BY <1>a, <2>2, <2>3
       DEF CloneInv, BranchFetched, OnBranch, PinFetched, SecondRunPins, Good
<1> QED BY <1>1, <1>2

\* A run on a clone that is on the branch of the recipe skips the reset only
\* where HEAD is at the pin.
Runs == \/ FetchNew \/ CloneFails \/ FetchKept
        \/ \E net \in BOOLEAN, how \in Merging : FetchChanged(net, how)

LEMMA RunPins ==
  ASSUME CloneInv, Runs
  PROVE  CloneInv' /\ (OnBranch => PinFetched' /\ OnBranch')
<1>a. TypeOK /\ recipe \in Recipes /\ heads[Default] # None BY DEF CloneInv, TypeOK
<1>b. Pin(recipe.tag, recipe.rev) \in Pins
  BY <1>a, RecipeType DEF Pin
<1>1. CASE FetchNew
  <2>1. Usable(NewClone) BY <1>a, UsableNew
  <2>2. Finish(NewClone, recipe.branch, Pin(recipe.tag, recipe.rev), TRUE)
    BY <1>1 DEF FetchNew
  <2>3. recipe.branch \in Branches \cup {None} BY <1>a, RecipeType
  <2> QED BY <1>a, <1>b, <2>1, <2>2, <2>3, FinishPins
<1>2. CASE CloneFails
  <2>1. /\ local' = NoBranch /\ remote' = NoBranch /\ objs' = {} /\ cur' = Default
        /\ hash' = FALSE /\ status' = "offline" /\ heads' = heads /\ recipe' = recipe
    BY <1>2, <1>a DEF CloneFails, Becomes, NoClone, Clone, TypeOK
  <2>2. TypeOK' BY <1>a, <2>1, ConstantsAssumption DEF TypeOK, NoBranch, Pins
  <2> QED BY <1>a, <2>1, <2>2
       DEF CloneInv, BranchFetched, SecondRunPins, PinFetched, OnBranch, Good
<1>3. CASE FetchKept
  <2>1. /\ hash /\ ~ changed
        /\ UNCHANGED <<heads, recipe, local, remote, objs, cur, hash>>
    BY <1>3 DEF FetchKept
  <2>2. AtPin /\ (recipe.branch # None => cur = recipe.branch)
    BY <1>a, <2>1, RecipeType
    DEF AtPin, changed, Differ, rtag, rrev, rbranch, Pin
  <2>3. AtPin' BY <2>1, <2>2 DEF AtPin, HEAD, Now, Clone
  <2>4. status' \in {"ok", "again"} BY <1>3 DEF FetchKept, Success
  <2> QED BY <2>1, <2>2, <2>3, <2>4
       DEF CloneInv, TypeOK, PinFetched, SecondRunPins, BranchFetched, Good, OnBranch
<1>4. ASSUME NEW net \in BOOLEAN, NEW how \in Merging, FetchChanged(net, how)
      PROVE  CloneInv' /\ (OnBranch => PinFetched' /\ OnBranch')
  <2> DEFINE c == Pulled(Now, net, how)
  <2>1. hash /\ changed /\ Finish(c, NewBranch, NewPin, net)
    BY <1>4 DEF FetchChanged
  <2>2. Usable(Now) /\ Now.cur = cur
    BY <1>a, <2>1 DEF CloneInv, TypeOK, Usable, Now, Clone
  <2>3. Usable(c) /\ c.cur = cur BY <1>a, <2>2, UsablePulled
  <2>4. /\ NewBranch \in Branches \cup {None} /\ NewPin \in Pins
        /\ recipe.branch # None =>
             recipe.branch = IF NewBranch = None THEN c.cur ELSE NewBranch
    BY <1>a, <2>3, NewType
  <2>5. NewBranch = None => NewPin = Pin(recipe.tag, recipe.rev)
    BY <1>a, <2>1, RecipeType DEF changed, Differ, Pin, NewBranch, NewPin
  <2>6. Good \/ OnBranch => NewBranch = None
    BY <2>1 DEF CloneInv, BranchFetched, OnBranch, NewBranch, Differ, rbranch
  <2> HIDE DEF c
  <2> QED BY <1>a, <2>1, <2>3, <2>4, <2>5, <2>6, FinishPins
<1> QED BY <1>1, <1>2, <1>3, <1>4 DEF Runs

\* An edit of the recipe, or a push to the origin.
LEMMA OtherPins ==
  ASSUME CloneInv,
         \/ \E r \in Recipes : Edit(r)
         \/ \E b \in Branches, x \in Pins : Push(b, x)
         \/ UNCHANGED vars
  PROVE  CloneInv' /\ (PinFetched => PinFetched')
<1>1. ASSUME NEW r \in Recipes, Edit(r) PROVE CloneInv' /\ (PinFetched => PinFetched')
  BY <1>1
  DEF Edit, CloneInv, TypeOK, PinFetched, BranchFetched, SecondRunPins, Good
<1>2. ASSUME NEW b \in Branches, NEW x \in Pins, Push(b, x)
      PROVE  CloneInv' /\ (PinFetched => PinFetched')
  <2>1. heads' \in [Branches -> Pins] /\ heads'[Default] # None
    BY <1>2, ConstantsAssumption DEF Push, CloneInv, TypeOK
  <2> QED BY <1>2, <2>1
       DEF Push, CloneInv, TypeOK, PinFetched, BranchFetched, SecondRunPins,
           AtPin, HEAD, Now, Clone, Good
<1>3. CASE UNCHANGED vars
  BY <1>3
  DEF vars, CloneInv, TypeOK, PinFetched, BranchFetched, SecondRunPins, AtPin,
      HEAD, Now, Clone, Good
<1> QED BY <1>1, <1>2, <1>3

LEMMA InitClone == Init => CloneInv /\ PinFetched
BY ConstantsAssumption
DEF Init, CloneInv, TypeOK, BranchFetched, SecondRunPins, PinFetched, Good, NoBranch, Pins

LEMMA NextClone == CloneInv /\ [Next]_vars => CloneInv'
BY RunPins, OtherPins DEF Next, Runs

\* Whatever the clone was used for and however the recipe is edited, at least
\* the second run after the edit leaves the clone at the tag or revision: for
\* every set of branches and recipes, and any history of the origin.
THEOREM PinReachedAgain == Spec => []SecondRunPins
<1>1. CloneInv => SecondRunPins BY DEF CloneInv
<1> QED BY <1>1, InitClone, NextClone, PTL DEF Spec

\* Every good run leaves the clone on the branch of the recipe.
THEOREM BranchReached == Spec => []BranchFetched
<1>1. CloneInv => BranchFetched BY DEF CloneInv
<1> QED BY <1>1, InitClone, NextClone, PTL DEF Spec

\* As long as nobody edits the branch of a recipe, the first run does it: every
\* run that ends well leaves the clone at the tag or revision of the recipe.
THEOREM PinReached == FixedBranch => (Spec => []PinFetched)
<1> SUFFICES ASSUME FixedBranch PROVE Spec => []PinFetched
  OBVIOUS
<1>1. Init => FixedInv BY InitClone DEF Init, FixedInv, OnBranch
<1>2. FixedInv /\ [Next]_vars => FixedInv'
  <2> SUFFICES ASSUME FixedInv, [Next]_vars PROVE FixedInv' OBVIOUS
  <2>a. CloneInv /\ CloneInv' /\ PinFetched BY NextClone DEF FixedInv
  <2>1. CASE Runs
    BY <2>1, <2>a, RunPins DEF FixedInv
  <2>2. CASE \E r \in Recipes : Edit(r)
    <3>1. recipe'.branch = recipe.branch
      BY <2>2, <2>a DEF Edit, FixedBranch, CloneInv, TypeOK
    <3> QED BY <2>2, <2>a, <3>1, OtherPins DEF FixedInv, OnBranch, Edit
  <2>3. CASE (\E b \in Branches, x \in Pins : Push(b, x)) \/ UNCHANGED vars
    BY <2>3, <2>a, OtherPins DEF FixedInv, OnBranch, Push, vars
  <2> QED BY <2>1, <2>2, <2>3 DEF Next, Runs
<1>3. FixedInv => PinFetched BY DEF FixedInv
<1> QED BY <1>1, <1>2, <1>3, PTL DEF Spec

\* A run on a clone that has all of the origin fails only over what the origin lacks,
\* or over a merge in conflict.
LEMMA FailsLacking ==
  ASSUME TypeOK, NEW c, Fetched(c), NEW b \in Branches \cup {None}, NEW x \in Pins,
         b # None => b = recipe.branch,
         x # None => x = Pin(recipe.tag, recipe.rev),
         NEW net, Finish(c, b, x, net), status' = "failed"
  PROVE  Lacking \/ (b # None /\ c.tree # "clean")
<1>1. ~ (CanCheckout(c, b) /\ Known(c, x)) BY DEF Finish, Success
<1>2. CASE ~ Known(c, x)
  <2>1. x # None /\ x \notin Reachable BY <1>2 DEF Known, Fetched
  <2> QED BY <2>1 DEF Lacking
<1>3. CASE ~ CanCheckout(c, b)
  <2>1. b # None /\ (c.tree # "clean" \/ c.remote[b] = None) BY <1>3 DEF CanCheckout
  <2>2. c.remote[b] = None => heads[b] = None BY <2>1 DEF Fetched
  <2> QED BY <2>1, <2>2 DEF Lacking
<1> QED BY <1>1, <1>2, <1>3

\* A run that reaches the origin fails only if the origin lacks the branch or the pin, or
\* the branch that the clone was on has diverged and has to be left: old clones, deleted
\* branches and former recipes are no reason, for any branches and any history.
THEOREM FailuresAreTrue == Spec => FailsForCause
<1> DEFINE Fails == heads' = heads /\ status' = "failed" => Lacking \/ Caught
<1>1. CloneInv /\ [Next]_vars => [Fails]_vars
  <2> SUFFICES ASSUME CloneInv, TypeOK, heads[Default] # None, Next,
                      heads' = heads, status' = "failed"
               PROVE  Lacking \/ Caught
    BY DEF CloneInv
  <2>a. recipe \in Recipes
    BY DEF TypeOK
  <2>1. CASE FetchNew
    <3> DEFINE x == Pin(recipe.tag, recipe.rev)
    <3>1. Fetched(NewClone) /\ NewClone.tree = "clean"
      BY UsableNew DEF NewClone, Clone
    <3>2. x \in Pins /\ recipe.branch \in Branches \cup {None}
      BY <2>a, RecipeType DEF Pin
    <3>3. Finish(NewClone, recipe.branch, x, TRUE)
      BY <2>1 DEF FetchNew
    <3> HIDE DEF x
    <3>4. Lacking \/ (recipe.branch # None /\ NewClone.tree # "clean")
      BY <3>1, <3>2, <3>3, FailsLacking DEF x
    <3> QED BY <3>1, <3>4
  <2>2. CASE CloneFails \/ FetchKept
    BY <2>2 DEF CloneFails, FetchKept, Success
  <2>3. ASSUME NEW net \in BOOLEAN, NEW how \in Merging, FetchChanged(net, how)
        PROVE  Lacking \/ Caught
    <3> DEFINE c == Pulled(Now, net, how)
    <3>1. hash /\ Finish(c, NewBranch, NewPin, net)
      BY <2>3 DEF FetchChanged
    <3>2. net
      BY <3>1 DEF Finish, Success
    <3>3. Usable(Now) /\ Now.tree = "clean" /\ Now.cur = cur
      BY <3>1 DEF CloneInv, TypeOK, Usable, Now, Clone
    <3>4. Fetched(c)
      BY <3>2, <3>3, UsablePulled
    <3>5. c.tree # "clean" => Diverged(HEAD(Now), heads[cur])
      BY <3>2, <3>3 DEF Pulled, Clone
    <3> HIDE DEF c
    <3>6. Lacking \/ (NewBranch # None /\ c.tree # "clean")
      BY <3>1, <3>4, NewType, FailsLacking
    <3> QED BY <3>1, <3>5, <3>6 DEF Caught
  <2>4. ASSUME NEW r \in Recipes, Edit(r) PROVE FALSE
    BY <2>4 DEF Edit
  <2>5. ASSUME NEW b \in Branches, NEW x \in Pins, Push(b, x) PROVE FALSE
    BY <2>5, ConstantsAssumption DEF Push, TypeOK
  <2> QED BY <2>1, <2>2, <2>3, <2>4, <2>5 DEF Next
<1>2. Spec => [][Fails]_vars
  BY <1>1, InitClone, NextClone, PTL DEF Spec
<1> QED BY <1>2 DEF FailsForCause
=============================================================================
