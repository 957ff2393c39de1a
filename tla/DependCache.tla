----------------------------- MODULE DependCache -----------------------------
(***************************************************************************)
(* Incremental builds of packages that depend on each other: the targets   *)
(* that gen_build_chain.py writes (`<package>`, `<package>_single`), which *)
(* run psysroot and cachebuild of inc.cache.mk, and the part of the        *)
(* checksum of process_cache.sh that stands for the dependencies.          *)
(*                                                                         *)
(* One output tree, nobody else pushes into the cache directory, and a     *)
(* target of a package is one or two actions.  Compilations may fail; what *)
(* races, kills, a failing tar, force files and mirrors do is the subject  *)
(* of BuildCache.  Every package is one with the keywords `cache` and      *)
(* `psysroot`.                                                             *)
(***************************************************************************)
EXTENDS Naturals, FiniteSets

CONSTANTS
  Packages,
  Versions,   \* those of the sources of a package, mk.deps among them
  Strong,     \* its strong dependencies, asdeps
  Weak,       \* its weak ones, awdeps
  Cond,       \* its conditional ones (dep@condition), ideps
  Manual,     \* the packages whose CACHE_DEPENDS lists the dependencies
  Usage       \* what the user does, see UsageNames

\* "single":   <package>_single is used while dependencies are out of date
\* "deselect": a dependency is deselected and the output of the packages that
\*             used it is not cleaned
UsageNames == {"single", "deselect"}

ASSUME ConstantsAssumption ==
  /\ Strong \in [Packages -> SUBSET Packages]
  /\ Weak   \in [Packages -> SUBSET Packages]
  /\ Cond   \in [Packages -> SUBSET Packages]
  /\ Manual \subseteq Packages
  /\ Usage  \subseteq UsageNames

VARIABLES
  src,      \* the sources of a package
  on,       \* the packages that .config selects
  img,      \* INS_PATH: what it was compiled from and whether it and what it was
            \* compiled with are whole, {} if it does not exist
  sysroot,  \* OUT_PATH/sysroot: the packages it has links to
  cache,    \* the package's file in ENV_CACHE_DIR, {} if there is none
  todo,     \* the targets that make has yet to run
  run,      \* the packages between psysroot and the end of cachebuild
  fresh     \* history: the packages built since the last change

vars  == <<src, on, img, sysroot, cache, todo, run, fresh>>
given == <<src, on>>
make  == <<todo, run, fresh>>

AtRest == todo = {} /\ run = {}

\* The prerequisites of a target under a configuration, and what
\* <package>_install_depends installs, the dependencies of dependencies too.
Deps(p, c) == (Strong[p] \cup Weak[p] \cup Cond[p]) \cap c
Closed(S, c) == \A d \in S : Deps(d, c) \subseteq S
Reach(p, c) ==
  {q \in c : \A S \in SUBSET c : Deps(p, c) \subseteq S /\ Closed(S, c) => q \in S}
Below(p) == Reach(p, on)

\* Kconfig lets a package be selected when its strong dependencies are.
Configs == {c \in SUBSET Packages : \A p \in c : Strong[p] \subseteq c}

Sources ==
  {s \in [Packages -> UNION {Versions[p] : p \in Packages}] :
     \A p \in Packages : s[p] \in Versions[p]}

Init ==
  /\ src \in Sources
  /\ on \in Configs
  /\ img = [p \in Packages |-> {}]
  /\ sysroot = [p \in Packages |-> {}]
  /\ cache = [p \in Packages |-> {}]
  /\ todo = {} /\ run = {} /\ fresh = {}
-----------------------------------------------------------------------------
(* get_depend_checksum and get_checksum *)

\* The dependencies that the script looks up.  Where CACHE_DEPENDS lists them
\* it loops over the word "depends", which is no package; dep@condition is not
\* an option of .config.
Listed(p) ==
  IF p \in Manual THEN {} ELSE (Strong[p] \cup Weak[p]) \cap on

\* Mutant of Key: the dependencies are left out.
KeyOwn(p) == [pkg |-> p, src |-> src[p], deps |-> {}]

\* The md5sum stands for what goes into it.
Key(p) ==
  [pkg |-> p, src |-> src[p],
   deps |-> {f.key : f \in UNION {cache[d] : d \in Listed(p)}}]

Match(p) == \E f \in cache[p] : f.key = Key(p)
-----------------------------------------------------------------------------
(* One package. *)

Ready(p) == p \in todo /\ Deps(p, on) \cap (todo \cup run) = {}

\* Mutant of Psysroot: make does not wait for the dependencies.
PsysrootEarly(p) ==
  /\ p \in todo
  /\ sysroot' = IF Match(p) THEN sysroot
                ELSE [sysroot EXCEPT ![p] = @ \cup {d \in Below(p) : img[d] # {}}]
  /\ todo' = todo \ {p}
  /\ run'  = run \cup {p}
  /\ UNCHANGED <<given, img, cache, fresh>>

\* Mutant of Psysroot: make runs a phony target again for each package that
\* needs it.
PsysrootAgain(p) ==
  /\ Ready(p)
  /\ sysroot' = IF Match(p) THEN sysroot
                ELSE [sysroot EXCEPT ![p] = @ \cup {d \in Below(p) : img[d] # {}}]
  /\ run'  = run \cup {p}
  /\ UNCHANGED <<given, img, cache, todo, fresh>>

\* make psysroot: when the cache does not match, <package>_install_depends
\* adds links into the images of the dependencies; nothing is removed.
Psysroot(p) ==
  /\ Ready(p)
  /\ sysroot' = IF Match(p) THEN sysroot
                ELSE [sysroot EXCEPT ![p] = @ \cup {d \in Below(p) : img[d] # {}}]
  /\ todo' = todo \ {p}
  /\ run'  = run \cup {p}
  /\ UNCHANGED <<given, img, cache, fresh>>

Done(p) == run' = run \ {p} /\ fresh' = fresh \cup {p} /\ todo' = todo

\* make cachebuild with a match: an image that exists is kept.
Pull(p) ==
  /\ p \in run
  /\ Match(p)
  /\ img' = [img EXCEPT ![p] = IF @ = {} THEN {f.img : f \in cache[p]} ELSE @]
  /\ Done(p)
  /\ UNCHANGED <<given, sysroot, cache>>

\* An image that is not what a build should give: a part of one, that a failed installation
\* left, or one compiled with such a part. What exactly is in it, no property tells apart.
Flaw(p) == [pkg |-> p, state |-> "part"]

\* What p becomes when it is compiled with some images.
Built(p, uses) ==
  IF \A i \in uses : i.state = "whole"
  THEN [pkg |-> p, src |-> src[p], uses |-> uses, state |-> "whole"] ELSE Flaw(p)

\* What the compiler finds through the links.
Compiled(p) == Built(p, UNION {img[d] : d \in sysroot[p]})

\* Mutant of Compile: the file is pushed under the checksum of its sources.
CompilePushesOwn(p) ==
  /\ p \in run
  /\ ~ Match(p)
  /\ img'   = [img EXCEPT ![p] = {Compiled(p)}]
  /\ cache' = [cache EXCEPT ![p] = {[key |-> KeyOwn(p), img |-> Compiled(p)]}]
  /\ Done(p)
  /\ UNCHANGED <<given, sysroot>>

\* ... without a match: compile and push.
Compile(p) ==
  /\ p \in run
  /\ ~ Match(p)
  /\ img'   = [img EXCEPT ![p] = {Compiled(p)}]
  /\ cache' = [cache EXCEPT ![p] = {[key |-> Key(p), img |-> Compiled(p)]}]
  /\ Done(p)
  /\ UNCHANGED <<given, sysroot>>

\* The compilation fails before the old image is removed, after that, or when `make install`
\* or do_append has put part of the new one in its place: make starts nothing more and waits
\* for the other jobs. The cache keeps the file of the last build.
CompileFails(p) ==
  /\ p \in run
  /\ ~ Match(p)
  /\ \E i \in {img[p], {}, {Flaw(p)}} : img' = [img EXCEPT ![p] = i]
  /\ todo' = {}
  /\ run'  = run \ {p}
  /\ UNCHANGED <<given, sysroot, cache, fresh>>
-----------------------------------------------------------------------------
(* The user. *)

\* make <package>; make all_targets is that for all selected packages.
Make(goals) ==
  /\ AtRest
  /\ todo' = goals \cup UNION {Below(p) : p \in goals}
  /\ UNCHANGED <<given, img, sysroot, cache, run, fresh>>

\* make <package>_single
Single(p) ==
  /\ AtRest
  /\ p \in on /\ Deps(p, on) # {}
  /\ Below(p) \subseteq fresh \/ "single" \in Usage
  /\ todo' = {p}
  /\ UNCHANGED <<given, img, sysroot, cache, run, fresh>>

Edit(p, v) ==
  /\ AtRest
  /\ v # src[p]
  /\ src' = [src EXCEPT ![p] = v]
  /\ fresh' = {}
  /\ UNCHANGED <<on, img, sysroot, cache, todo, run>>

\* make menuconfig
Select(c) ==
  /\ AtRest
  /\ c # on
  /\ (\A p \in Packages : sysroot[p] \subseteq Reach(p, c)) \/ "deselect" \in Usage
  /\ on' = c
  /\ fresh' = {}
  /\ UNCHANGED <<src, img, sysroot, cache, todo, run>>

\* make <package>_clean: rm -rf $(OUT_PATH)
Clean(p) ==
  /\ AtRest
  /\ img'     = [img EXCEPT ![p] = {}]
  /\ sysroot' = [sysroot EXCEPT ![p] = {}]
  /\ fresh'   = {}
  /\ UNCHANGED <<given, cache, todo, run>>
-----------------------------------------------------------------------------
Next ==
  \/ \E p \in Packages : \/ Psysroot(p) \/ Pull(p) \/ Compile(p) \/ CompileFails(p)
                         \/ Single(p) \/ Clean(p)
                         \/ \E v \in Versions[p] : Edit(p, v)
  \/ \E p \in on : Make({p})
  \/ \E c \in Configs : Select(c)

Spec     == Init /\ [][Next]_vars
\* make keeps running its jobs, and a compilation comes to an end.
FairSpec ==
  Spec /\ \A p \in Packages : WF_vars(Psysroot(p)) /\ WF_vars(Pull(p) \/ Compile(p))
-----------------------------------------------------------------------------
\* What a build from nothing would make of a package, given its dependencies.
Uses(p)  == UNION {img[d] : d \in Below(p)}
Clear(p) == Built(p, Uses(p))

\* A failed installation left a part of an image of p, or of a package below p, or p was
\* compiled with one, and no compilation has replaced it. When the edit that caused the
\* failure is taken back, the old cache file matches and `pull` keeps what is there.
WholeBelow(p) == \A i \in Uses(p) : i.state = "whole"
Flawed(p)     == ~ WholeBelow(p) \/ \E i \in img[p] : i.state # "whole"

\* An incremental build is a clean build: whatever was edited, selected,
\* cleaned, or failed before, a package whose target has succeeded is the
\* current sources compiled with the current images of all its dependencies, unless a part
\* of an image that a failed installation left is among them.
Coherent ==
  \A p \in fresh : /\ Flawed(p) \/ img[p] = {Clear(p)}
                   /\ \A d \in Below(p) \cup {p} : img[d] # {}

\* Nothing enters an image from a package that is not a dependency of it:
\* that is what the sysroot of the package is for.
OnlyDeclared ==
  \A p \in fresh : \A i \in img[p] :
    i.state = "whole" => \A j \in i.uses : j.pkg \in Below(p)

\* A package is compiled only when its cache file is not what a clean build
\* would give: "Use busybox Cache". (Where a dependency is flawed, nothing is clean.)
NoNeedlessCompile ==
  [][\A p \in Packages :
       Compile(p) => \A f \in cache[p] : ~ (f.img = Clear(p) /\ f.img.state = "whole")]_vars

\* make comes to an end: targets wait for their dependencies, not for each other.
MakeEnds == todo # {} ~> AtRest
=============================================================================
