-------------------------- MODULE DependCacheProofs --------------------------
(***************************************************************************)
(* Proofs about DependCache, for every set of packages with any strong and *)
(* weak dependencies, circles among them, and any versions of sources.     *)
(*                                                                         *)
(* Whether a file of the cache is what a clean build would give is a       *)
(* question about the past: its key names the keys of the files its        *)
(* dependencies had then, which may have been replaced since.  So the      *)
(* invariant speaks of a set of files that stay as they are (Honest): the  *)
(* ones pushed so far, except those of images that were compiled with a    *)
(* part that a failed installation left.  The rest of it is about the      *)
(* present: make builds in order (OrderInv), and what has been built is    *)
(* not touched (BuiltInv).                                                 *)
(*                                                                         *)
(* At the end, why make comes to an end: it is never stuck, and each step  *)
(* uses up one of finitely many.                                           *)
(***************************************************************************)
EXTENDS DependCache, FiniteSetTheorems, WellFoundedInduction, TLAPS

\* The user leaves out no dependency and deselects none behind the back of the
\* packages that use it; every dependency enters the checksum.
Plain == Usage = {} /\ Manual = {} /\ \A p \in Packages : Cond[p] = {}

TypeInv ==
  /\ src \in [Packages -> UNION {Versions[p] : p \in Packages}]
  /\ img = [p \in Packages |-> img[p]]
  /\ cache = [p \in Packages |-> cache[p]]
  /\ sysroot \in [Packages -> SUBSET Packages]
  /\ on \subseteq Packages
  /\ todo \subseteq on /\ run \subseteq on /\ fresh \subseteq on

\* make runs a target after its prerequisites.
OrderInv ==
  /\ \A p \in todo : Deps(p, on) \subseteq todo \cup run \cup fresh
  /\ \A p \in run \cup fresh : Deps(p, on) \subseteq fresh

\* A package has one file in the cache, and an image is that of the file, or what a failed
\* installation left.
FileInv ==
  \A p \in Packages :
    /\ \A f, g \in cache[p] : f = g /\ f.key.pkg = p /\ (f.img.state = "whole" \/ f.img = Flaw(p))
    /\ img[p] # {} => \/ cache[p] # {} /\ img[p] = {f.img : f \in cache[p]}
                      \/ img[p] = {Flaw(p)}

\* Only dependencies are linked, and all of them before a compilation.
LinkInv ==
  /\ \A p \in Packages : sysroot[p] \subseteq Below(p)
  /\ \A p \in run : Match(p) \/ Below(p) \subseteq sysroot[p]

\* What has been built has its file in the cache and is clean or flawed.
BuiltInv ==
  \A p \in fresh : Match(p) /\ img[p] # {} /\ (Flawed(p) \/ img[p] = {Clear(p)})

\* A file of a whole image.
Shaped(g) ==
  /\ g = [key |-> g.key, img |-> g.img]
  /\ g.key = [pkg |-> g.key.pkg, src |-> g.key.src, deps |-> g.key.deps]
  /\ g.img = [pkg |-> g.key.pkg, src |-> g.key.src, uses |-> g.img.uses, state |-> "whole"]

\* The key of g names files of M, and the image of g has been compiled with
\* their images and with what these have been compiled with.
Genuine(g, M) ==
  /\ Shaped(g)
  /\ g.img.uses = UNION {{h.img} \cup h.img.uses : h \in {k \in M : k.key \in g.key.deps}}
  /\ g.key.deps = {h.key : h \in {k \in M : /\ k.img \in g.img.uses
                                            /\ k.key.pkg \in Strong[g.key.pkg] \cup Weak[g.key.pkg]}}
  /\ g.img.uses \subseteq {h.img : h \in M}

\* In M equal keys mean equal images, and the other way round.
Honest(M) ==
  /\ \A g, h \in M : g.key = h.key \/ g.img = h.img => g = h
  /\ \A g \in M : Genuine(g, M)

\* M has all files of the cache but those of flawed images.
Pushed(M) ==
  Honest(M) /\ \A p \in Packages : \A f \in cache[p] : f.img.state = "whole" => f \in M

PresentInv == TypeInv /\ OrderInv /\ FileInv /\ LinkInv /\ BuiltInv

BuildInv == PresentInv /\ \E M : Pushed(M)

-----------------------------------------------------------------------------
(* Dependencies of dependencies. *)

\* Reach is the smallest set with the dependencies in it that is closed, so it is
\* what the dependencies are and what they reach.
LEMMA Reaching ==
  ASSUME NEW c \in SUBSET Packages, NEW p \in Packages
  PROVE  /\ Deps(p, c) \subseteq Reach(p, c)
         /\ Reach(p, c) \subseteq c
         /\ \A d \in Deps(p, c) : Reach(d, c) \subseteq Reach(p, c)
         /\ \A q \in Reach(p, c) : q \in Deps(p, c) \/ \E d \in Deps(p, c) : q \in Reach(d, c)
         /\ \A S \in SUBSET c : Deps(p, c) \subseteq S /\ Closed(S, c) => Reach(p, c) \subseteq S
         /\ Closed(Reach(p, c), c)
<1>1. \A q \in Packages : Deps(q, c) \subseteq c
  BY DEF Deps
<1>2. \A q \in Packages : Deps(q, c) \subseteq Reach(q, c) /\ Reach(q, c) \subseteq c
  BY <1>1 DEF Reach
<1>3. \A S \in SUBSET c : Deps(p, c) \subseteq S /\ Closed(S, c) => Reach(p, c) \subseteq S
  BY DEF Reach
<1>4. \A d \in Deps(p, c) : Reach(d, c) \subseteq Reach(p, c)
  <2> SUFFICES ASSUME NEW d \in Deps(p, c), NEW q \in Reach(d, c),
                      NEW S \in SUBSET c, Deps(p, c) \subseteq S, Closed(S, c)
               PROVE  q \in S
    BY DEF Reach
  <2>1. Deps(d, c) \subseteq S
    BY DEF Closed
  <2> QED BY <2>1 DEF Reach
<1>5. ASSUME NEW q \in Packages PROVE Closed(Reach(q, c), c)
  <2> SUFFICES ASSUME NEW d \in Reach(q, c), NEW e \in Deps(d, c),
                      NEW S \in SUBSET c, Deps(q, c) \subseteq S, Closed(S, c)
               PROVE  e \in S
    BY <1>1, <1>2 DEF Closed, Reach
  <2>1. d \in S
    BY DEF Reach
  <2> QED BY <2>1 DEF Closed
<1>6. \A q \in Reach(p, c) : q \in Deps(p, c) \/ \E d \in Deps(p, c) : q \in Reach(d, c)
  <2> DEFINE T == Deps(p, c) \cup UNION {Reach(d, c) : d \in Deps(p, c)}
  <2>1. T \in SUBSET c
    BY <1>1, <1>2
  <2>2. Closed(T, c)
    <3> SUFFICES ASSUME NEW e \in T PROVE Deps(e, c) \subseteq T
      BY DEF Closed
    <3>1. CASE e \in Deps(p, c)
      BY <3>1, <1>1, <1>2
    <3>2. ASSUME NEW d \in Deps(p, c), e \in Reach(d, c) PROVE Deps(e, c) \subseteq T
      <4>1. Deps(e, c) \subseteq Reach(d, c)
        BY <3>2, <1>1, <1>5 DEF Closed
      <4> QED BY <4>1
    <3> QED BY <3>1, <3>2
  <2>3. Reach(p, c) \subseteq T
    BY <1>3, <2>1, <2>2
  <2> QED BY <2>3
<1> QED BY <1>2, <1>3, <1>4, <1>5, <1>6

-----------------------------------------------------------------------------
(* A package whose dependencies have been built. *)

\* What is below it has been built too.
LEMMA BelowBuilt ==
  ASSUME PresentInv, NEW p \in Packages, Deps(p, on) \subseteq fresh
  PROVE  Below(p) \subseteq fresh
<1>1. fresh \in SUBSET on /\ Closed(fresh, on) /\ on \in SUBSET Packages
  BY DEF PresentInv, TypeInv, OrderInv, Closed
<1> QED BY <1>1, Reaching DEF Below

\* Where nothing below a package is flawed, nothing below those is.
LEMMA WholeDown ==
  ASSUME PresentInv, NEW p \in Packages, WholeBelow(p), NEW d \in Below(p)
  PROVE  d \in Packages /\ Below(d) \subseteq Below(p) /\ ~ Flawed(d)
<1>1. on \in SUBSET Packages /\ Below(p) \in SUBSET on
  BY Reaching DEF PresentInv, TypeInv, Below
<1>2. Deps(d, on) \subseteq Below(p) /\ Closed(Below(p), on)
  BY <1>1, Reaching DEF Below, Closed
<1>3. Below(d) \subseteq Below(p)
  BY <1>1, <1>2, Reaching DEF Below
<1> QED BY <1>1, <1>3 DEF Flawed, WholeBelow, Uses

\* The clean image of such a package.
LEMMA ClearIs ==
  ASSUME NEW p, WholeBelow(p)
  PROVE  Clear(p) = [pkg |-> p, src |-> src[p], uses |-> Uses(p), state |-> "whole"]
BY DEF Clear, Built, WholeBelow

\* The file and the image of a package that has been built.
LEMMA BuiltFile ==
  ASSUME PresentInv, NEW M, Pushed(M), NEW d \in fresh, ~ Flawed(d)
  PROVE  \E f \in M : /\ cache[d] = {f} /\ img[d] = {f.img}
                      /\ f.key.pkg = d /\ f.key = Key(d) /\ f.img = Clear(d)
<1>1. d \in Packages /\ Match(d) /\ img[d] = {Clear(d)}
  BY DEF PresentInv, TypeInv, BuiltInv
<1>2. PICK f \in cache[d] : f.key = Key(d)
  BY <1>1 DEF Match
<1>3. cache[d] = {f} /\ f.key.pkg = d
  BY <1>1, <1>2 DEF PresentInv, FileInv
<1>4. img[d] # {Flaw(d)} /\ Clear(d).state = "whole"
  BY <1>1, ClearIs DEF Flawed, Flaw
<1>5. img[d] = {f.img} /\ f.img = Clear(d)
  BY <1>1, <1>3, <1>4 DEF PresentInv, FileInv
<1> QED BY <1>1, <1>2, <1>3, <1>4, <1>5 DEF Pushed

\* The images below a package are those of its dependencies and what these have been
\* compiled with.
LEMMA BelowUses ==
  ASSUME PresentInv, NEW M, Pushed(M), NEW p \in Packages, Deps(p, on) \subseteq fresh,
         WholeBelow(p), NEW i
  PROVE  i \in Uses(p)
           <=> \E d \in Deps(p, on) : \E f \in cache[d] : i = f.img \/ i \in f.img.uses
<1>1. on \in SUBSET Packages /\ fresh \in SUBSET Packages /\ Below(p) \subseteq fresh
  BY BelowBuilt DEF PresentInv, TypeInv
<1>3. ASSUME NEW d \in Deps(p, on)
      PROVE  /\ d \in Below(p) /\ Below(d) \subseteq Below(p)
             /\ \E f \in M : /\ cache[d] = {f} /\ img[d] = {f.img}
                              /\ f.img.uses = UNION {img[e] : e \in Below(d)}
  <2>1. d \in Below(p) /\ Below(d) \subseteq Below(p)
    BY <1>1, Reaching DEF Below
  <2>2. PICK f \in M : cache[d] = {f} /\ img[d] = {f.img} /\ f.img = Clear(d)
    BY <2>1, WholeDown, BuiltFile
  <2>3. f.img.uses = UNION {img[e] : e \in Below(d)}
    BY <2>1, <2>2, WholeDown, ClearIs DEF Flawed, Uses
  <2> QED BY <2>1, <2>2, <2>3
<1>4. ASSUME i \in Uses(p)
      PROVE  \E d \in Deps(p, on) : \E f \in cache[d] : i = f.img \/ i \in f.img.uses
  <2>1. PICK e \in Below(p) : i \in img[e]
    BY <1>4 DEF Uses
  <2>2. CASE e \in Deps(p, on)
    BY <2>1, <2>2, <1>3
  <2>3. ASSUME NEW d \in Deps(p, on), e \in Below(d)
        PROVE  \E f \in cache[d] : i \in f.img.uses
    BY <2>1, <2>3, <1>3
  <2> QED BY <1>1, <2>2, <2>3, Reaching DEF Below
<1>5. ASSUME NEW d \in Deps(p, on), NEW f \in cache[d], i = f.img \/ i \in f.img.uses
      PROVE  i \in Uses(p)
  BY <1>3, <1>5 DEF Uses
<1> QED BY <1>4, <1>5

\* What the key of a package lists are the keys of its dependencies' files.
LEMMA KeyDeps ==
  ASSUME PresentInv, Plain, NEW M, Pushed(M), NEW p \in Packages, Deps(p, on) \subseteq fresh,
         NEW k
  PROVE  k \in Key(p).deps <=> \E d \in Deps(p, on) : \E f \in cache[d] : k = f.key
<1>1. Listed(p) = Deps(p, on)
  BY DEF Plain, Listed, Deps
<1> QED BY <1>1 DEF Key

\* What the images below a package are, told by the files that its key names ...
LEMMA UsesAre ==
  ASSUME PresentInv, Plain, NEW M, Pushed(M), NEW p \in Packages, Deps(p, on) \subseteq fresh,
         WholeBelow(p), NEW i
  PROVE  i \in Uses(p)
           <=> \E h \in M : h.key \in Key(p).deps /\ (i = h.img \/ i \in h.img.uses)
<1>1. \A d \in Deps(p, on) : cache[d] \subseteq M
  <2>1. on \in SUBSET Packages
    BY DEF PresentInv, TypeInv
  <2> QED BY <2>1, Reaching, WholeDown, BuiltFile DEF Below
<1>2. (\E h \in M : h.key \in Key(p).deps /\ (i = h.img \/ i \in h.img.uses))
        <=> \E h \in M : /\ \E d \in Deps(p, on) : \E g \in cache[d] : h.key = g.key
                         /\ i = h.img \/ i \in h.img.uses
  BY KeyDeps
<1>3. @ <=> \E d \in Deps(p, on) : \E g \in cache[d] : i = g.img \/ i \in g.img.uses
  BY <1>1 DEF Pushed, Honest
<1> QED BY <1>2, <1>3, BelowUses

\* ... and which keys the key lists, told by the images.
LEMMA DepsAre ==
  ASSUME PresentInv, Plain, NEW M, Pushed(M), NEW p \in Packages, Deps(p, on) \subseteq fresh,
         WholeBelow(p), NEW k
  PROVE  k \in Key(p).deps
           <=> \E h \in M : /\ k = h.key /\ h.img \in Uses(p)
                            /\ h.key.pkg \in Strong[p] \cup Weak[p]
<1>1. /\ \A d \in Deps(p, on) : d \in Packages /\ cache[d] \subseteq M
      /\ Below(p) \subseteq fresh /\ Below(p) \subseteq on /\ on \subseteq Packages
  <2>1. /\ on \in SUBSET Packages /\ Below(p) \subseteq fresh /\ Below(p) \subseteq on
        /\ Deps(p, on) \subseteq Below(p)
    BY BelowBuilt, Reaching DEF PresentInv, TypeInv, Below
  <2> QED BY <2>1, WholeDown, BuiltFile
<1>2. ASSUME NEW h \in M, h.img \in Uses(p), h.key.pkg \in Strong[p] \cup Weak[p]
      PROVE  \E d \in Deps(p, on) : h \in cache[d]
  <2>1. PICK e \in Below(p) : h.img \in img[e]
    BY <1>2 DEF Uses
  <2>2. PICK g \in M : cache[e] = {g} /\ img[e] = {g.img} /\ g.key.pkg = e
    BY <1>1, WholeDown, BuiltFile
  <2>3. h = g
    BY <2>1, <2>2 DEF Pushed, Honest
  <2>4. e \in Deps(p, on)
    BY <1>1, <1>2, <2>2, <2>3 DEF Deps
  <2> QED BY <2>2, <2>3, <2>4
<1>3. ASSUME NEW d \in Deps(p, on), NEW h \in cache[d]
      PROVE  h \in M /\ h.img \in Uses(p) /\ h.key.pkg \in Strong[p] \cup Weak[p]
  <2>1. h \in M /\ h.img \in Uses(p)
    BY <1>1, <1>3, BelowUses
  <2>2. h.key.pkg = d
    BY <1>1 DEF PresentInv, FileInv
  <2> QED BY <2>1, <2>2 DEF Plain, Deps
<1> QED BY <1>1, <1>2, <1>3, KeyDeps

\* A file with the key that the package has now holds what a clean build would give.
LEMMA KeyMeansClear ==
  ASSUME PresentInv, Plain, NEW M, Pushed(M), NEW p \in Packages, Deps(p, on) \subseteq fresh,
         WholeBelow(p), NEW f \in M, f.key = Key(p)
  PROVE  f.img = Clear(p)
<1>1. f.img = [pkg |-> p, src |-> src[p], uses |-> f.img.uses, state |-> "whole"]
  <2>1. f.img = [pkg |-> f.key.pkg, src |-> f.key.src, uses |-> f.img.uses, state |-> "whole"]
    BY DEF Pushed, Honest, Genuine, Shaped
  <2> QED BY <2>1 DEF Key
<1>2. \A i : i \in f.img.uses
               <=> \E h \in M : h.key \in Key(p).deps /\ (i = h.img \/ i \in h.img.uses)
  BY DEF Pushed, Honest, Genuine
<1>3. \A i : i \in f.img.uses <=> i \in Uses(p)
  BY <1>2, UsesAre
<1>4. f.img.uses = Uses(p)
  BY <1>3
<1> QED BY <1>1, <1>4, ClearIs

\* ... and a file that holds it has that key.
LEMMA ClearMeansKey ==
  ASSUME PresentInv, Plain, NEW M, Pushed(M), NEW p \in Packages, Deps(p, on) \subseteq fresh,
         WholeBelow(p), NEW f \in M, f.img = Clear(p)
  PROVE  f.key = Key(p)
<1>1. f.key = [pkg |-> p, src |-> src[p], deps |-> f.key.deps]
  <2>1. /\ f.key = [pkg |-> f.key.pkg, src |-> f.key.src, deps |-> f.key.deps]
        /\ f.img.pkg = f.key.pkg /\ f.img.src = f.key.src
    <3>1. Shaped(f)
      BY DEF Pushed, Honest, Genuine
    <3>2. f.key = [pkg |-> f.key.pkg, src |-> f.key.src, deps |-> f.key.deps]
      BY <3>1 DEF Shaped
    <3>3. f.img = [pkg |-> f.key.pkg, src |-> f.key.src, uses |-> f.img.uses, state |-> "whole"]
      BY <3>1 DEF Shaped
    <3> QED BY <3>2, <3>3
  <2> QED BY <2>1, ClearIs DEF Key
<1>2. \A k : k \in f.key.deps
               <=> \E h \in M : /\ k = h.key /\ h.img \in Uses(p)
                                /\ h.key.pkg \in Strong[p] \cup Weak[p]
  <2>1. f.img.uses = Uses(p)
    BY ClearIs
  <2> QED BY <1>1, <2>1 DEF Pushed, Honest, Genuine
<1>3. \A k : k \in f.key.deps <=> k \in Key(p).deps
  BY <1>2, DepsAre
<1>4. f.key.deps = Key(p).deps
  BY <1>3
<1> QED BY <1>1, <1>4 DEF Key

\* So a clean image may be pushed under the key: the files pushed so far and this one
\* are honest.
LEMMA PushClear ==
  ASSUME PresentInv, Plain, NEW M, Pushed(M), NEW p \in Packages, Deps(p, on) \subseteq fresh,
         WholeBelow(p)
  PROVE  \E N : Honest(N) /\ M \subseteq N /\ [key |-> Key(p), img |-> Clear(p)] \in N
<1> DEFINE new == [key |-> Key(p), img |-> Clear(p)]
           N   == M \cup {new}
<1>1. new.key = Key(p) /\ new.img = Clear(p)
  OBVIOUS
<1>2. ASSUME NEW h \in M, h.key = Key(p) PROVE new \in M
  <2>1. h.img = Clear(p)
    BY <1>2, KeyMeansClear
  <2>2. h = [key |-> h.key, img |-> h.img]
    BY DEF Pushed, Honest, Genuine, Shaped
  <2> QED BY <1>2, <2>1, <2>2
<1>3. CASE \E h \in M : h.key = Key(p)
  BY <1>2, <1>3 DEF Pushed
<1>4. CASE \A h \in M : h.key # Key(p)
  <2>1. \A h \in M : h.img # Clear(p)
    BY <1>4, ClearMeansKey
  <2>2. \A g, h \in N : g.key = h.key \/ g.img = h.img => g = h
    BY <1>1, <1>4, <2>1 DEF Pushed, Honest
  <2>3. Key(p) \notin Key(p).deps
    BY <1>4, DepsAre
  <2>4. Uses(p) \subseteq {h.img : h \in M}
    <3> SUFFICES ASSUME NEW i \in Uses(p) PROVE \E h \in M : i = h.img
      OBVIOUS
    <3>1. PICK h \in M : i = h.img \/ i \in h.img.uses
      BY UsesAre
    <3> QED BY <3>1 DEF Pushed, Honest, Genuine
  <2>5. Clear(p) \notin Uses(p)
    BY <2>1, <2>4
  <2>6. ASSUME NEW g \in M PROVE Genuine(g, N)
    <3>1. Genuine(g, M)
      BY DEF Pushed, Honest
    <3>2. new.key \notin g.key.deps /\ new.img \notin g.img.uses
      BY <3>1, <1>1, <1>4, <2>1 DEF Genuine
    <3> HIDE DEF new
    <3>3. {k \in N : k.key \in g.key.deps} = {k \in M : k.key \in g.key.deps}
      BY <3>2
    <3>4. {k \in N : /\ k.img \in g.img.uses
                     /\ k.key.pkg \in Strong[g.key.pkg] \cup Weak[g.key.pkg]}
            = {k \in M : /\ k.img \in g.img.uses
                         /\ k.key.pkg \in Strong[g.key.pkg] \cup Weak[g.key.pkg]}
      BY <3>2
    <3>5. g.img.uses \subseteq {h.img : h \in N}
      BY <3>1 DEF Genuine
    <3> QED BY <3>1, <3>3, <3>4, <3>5 DEF Genuine
  <2>7. Genuine(new, N)
    <3>1. /\ Key(p).pkg = p /\ Key(p).src = src[p]
          /\ Key(p) = [pkg |-> p, src |-> src[p], deps |-> Key(p).deps]
      BY DEF Key
    <3>2. Clear(p) = [pkg |-> p, src |-> src[p], uses |-> Uses(p), state |-> "whole"]
      BY ClearIs
    <3>3. Shaped(new)
      BY <1>1, <3>1, <3>2 DEF Shaped
    <3> HIDE DEF new
    <3>4. ASSUME NEW i
          PROVE  i \in Uses(p)
                   <=> \E h \in N : h.key \in Key(p).deps /\ (i = h.img \/ i \in h.img.uses)
      BY <1>1, <2>3, UsesAre
    <3>5. ASSUME NEW k
          PROVE  k \in Key(p).deps
                   <=> \E h \in N : /\ k = h.key /\ h.img \in Uses(p)
                                    /\ h.key.pkg \in Strong[p] \cup Weak[p]
      BY <1>1, <2>5, DepsAre
    <3>6. new.img.uses
            = UNION {{h.img} \cup h.img.uses : h \in {k \in N : k.key \in new.key.deps}}
      BY <1>1, <3>2, <3>4
    <3>7. new.key.deps
            = {h.key : h \in {k \in N : /\ k.img \in new.img.uses
                                        /\ k.key.pkg \in Strong[new.key.pkg] \cup Weak[new.key.pkg]}}
      BY <1>1, <3>1, <3>2, <3>5
    <3> QED BY <1>1, <2>4, <3>2, <3>3, <3>6, <3>7 DEF Genuine
  <2> QED BY <2>2, <2>6, <2>7 DEF Honest
<1> QED BY <1>3, <1>4
-----------------------------------------------------------------------------
(* Steps. *)

\* As long as nothing that has been built changes, neither does what the key or the clean
\* image of a package is whose dependencies have been built.
LEMMA Frozen ==
  ASSUME PresentInv, Plain, src' = src, on' = on,
         \A e \in fresh : img'[e] = img[e] /\ cache'[e] = cache[e],
         NEW q \in Packages, Deps(q, on) \subseteq fresh
  PROVE  /\ Key(q)' = Key(q) /\ Clear(q)' = Clear(q)
         /\ WholeBelow(q)' <=> WholeBelow(q)
<1>1. Listed(q) = Deps(q, on) /\ Listed(q)' = Listed(q)
  BY DEF Plain, Listed, Deps
<1>2. Below(q)' = Below(q) /\ Below(q) \subseteq fresh
  BY BelowBuilt DEF Below
<1>3. UNION {cache'[d] : d \in Listed(q)} = UNION {cache[d] : d \in Listed(q)}
  BY <1>1
<1>4. Uses(q)' = Uses(q)
  BY <1>2 DEF Uses
<1> QED BY <1>1, <1>2, <1>3, <1>4 DEF Key, Clear, Built, Flaw, WholeBelow

\* Edits, deselections and cleaning leave nothing that counts as built.
LEMMA RestKept ==
  ASSUME PresentInv, AtRest, TypeInv', todo' = {}, run' = {}, fresh' = {}, cache' = cache,
         \A p \in Packages : img'[p] = img[p] \/ img'[p] = {},
         \A p \in Packages : sysroot'[p] \subseteq Below(p)'
  PROVE  PresentInv'
BY DEF PresentInv, OrderInv, FileInv, LinkInv, BuiltInv

LEMMA PsysrootKeeps ==
  ASSUME PresentInv, Plain, NEW p \in Packages, Psysroot(p)
  PROVE  PresentInv' /\ cache' = cache
<1> USE DEF PresentInv
<1>1. Deps(p, on) \subseteq fresh
  BY DEF OrderInv, Psysroot, Ready
<1>2. Below(p) \subseteq fresh /\ Below(p) \subseteq on /\ on \subseteq Packages
  BY <1>1, BelowBuilt, Reaching DEF TypeInv, Below
<1>3. \A d \in Below(p) : img[d] # {}
  BY <1>2 DEF BuiltInv
<1>4. /\ src' = src /\ on' = on /\ img' = img /\ cache' = cache /\ fresh' = fresh
      /\ \A q \in Packages : Below(q)' = Below(q) /\ Match(q)' = Match(q) /\ Clear(q)' = Clear(q)
      /\ \A q \in Packages : (Flawed(q)' <=> Flawed(q))
  BY DEF Psysroot, given, Below, Match, Key, Listed, Clear, Built, Uses, Flawed, WholeBelow
<1>5. TypeInv'
  BY <1>2, <1>4 DEF TypeInv, Psysroot, Ready
<1>6. OrderInv'
  BY <1>1, <1>4 DEF OrderInv, Psysroot
<1>7. FileInv' /\ BuiltInv'
  <2>1. FileInv'
    BY <1>4 DEF FileInv, Flaw
  <2>2. \A q \in fresh' : Match(q)' /\ img'[q] # {} /\ (Flawed(q)' \/ img'[q] = {Clear(q)'})
    BY <1>4 DEF BuiltInv, TypeInv
  <2> QED BY <2>1, <2>2 DEF BuiltInv
<1>8. LinkInv'
  <2>1. CASE Match(p)
    BY <2>1, <1>4 DEF LinkInv, Psysroot, TypeInv
  <2>2. CASE ~ Match(p)
    <3>1. sysroot' = [sysroot EXCEPT ![p] = sysroot[p] \cup Below(p)] /\ run' = run \cup {p}
      BY <2>2, <1>3 DEF Psysroot
    <3> QED BY <3>1, <1>4 DEF LinkInv, TypeInv
  <2> QED BY <2>1, <2>2
<1> QED BY <1>4, <1>5, <1>6, <1>7, <1>8

\* What the end of cachebuild has to do for the package whose target it is.
LEMMA DoneKeeps ==
  ASSUME PresentInv, Plain, NEW p \in run, Done(p), UNCHANGED <<src, on, sysroot>>,
         \A e \in fresh : img'[e] = img[e] /\ cache'[e] = cache[e],
         NEW f, cache' = [cache EXCEPT ![p] = {f}], f.key = Key(p),
         f.img.state = "whole" \/ f.img = Flaw(p),
         NEW i, img' = [img EXCEPT ![p] = {i}], i = Flaw(p) \/ i = f.img,
         WholeBelow(p) /\ i # Flaw(p) => i = Clear(p)
  PROVE  PresentInv'
<1> USE DEF PresentInv
<1>1. p \in Packages /\ Deps(p, on) \subseteq fresh
  BY DEF OrderInv, TypeInv
<1>2. \A q \in fresh \cup run : /\ q \in Packages /\ Key(q)' = Key(q) /\ Clear(q)' = Clear(q)
                                /\ WholeBelow(q)' <=> WholeBelow(q)
  <2> SUFFICES ASSUME NEW q \in fresh \cup run
               PROVE  /\ q \in Packages /\ Key(q)' = Key(q) /\ Clear(q)' = Clear(q)
                      /\ WholeBelow(q)' <=> WholeBelow(q)
    OBVIOUS
  <2>1. q \in Packages /\ Deps(q, on) \subseteq fresh
    BY DEF OrderInv, TypeInv
  <2> QED BY <2>1, Frozen
<1>3. /\ fresh' = fresh \cup {p} /\ run' = run \ {p} /\ todo' = todo /\ on' = on
      /\ \A q \in Packages : Below(q)' = Below(q)
  BY DEF Done, Below
<1>4. img'[p] = {i} /\ cache'[p] = {f}
  BY <1>1 DEF TypeInv
<1>5. TypeInv'
  BY <1>3 DEF TypeInv
<1>6. OrderInv'
  BY <1>1, <1>3 DEF OrderInv
<1>7. FileInv'
  <2>1. f.key.pkg = p
    BY DEF Key
  <2>2. \A q \in Packages \ {p} : img'[q] = img[q] /\ cache'[q] = cache[q]
    BY DEF TypeInv
  <2> QED BY <2>1, <2>2, <1>4 DEF FileInv, Flaw
<1>8. LinkInv'
  <2>1. \A q \in run' : q \in run /\ q # p /\ q \in Packages
    BY <1>3 DEF TypeInv
  <2>2. \A q \in run' : cache'[q] = cache[q] /\ Key(q)' = Key(q)
    BY <2>1, <1>2 DEF TypeInv
  <2>3. \A q \in run' : Match(q)' <=> Match(q)
    BY <2>2 DEF Match
  <2> QED BY <2>1, <2>3, <1>3 DEF LinkInv
<1>9. BuiltInv'
  <2>1. Match(p)'
    BY <1>2, <1>4 DEF Match
  <2>2. \A q \in fresh : Match(q)' /\ img'[q] # {} /\ (Flawed(q)' \/ img'[q] = {Clear(q)'})
    BY <1>2 DEF BuiltInv, Match, Flawed
  <2>3. Flawed(p)' \/ img'[p] = {Clear(p)'}
    BY <1>2, <1>4 DEF Flawed, Flaw
  <2> QED BY <2>1, <2>2, <2>3, <1>3, <1>4 DEF BuiltInv
<1> QED BY <1>5, <1>6, <1>7, <1>8, <1>9

\* A match is the clean image, so a pull leaves that, or what a failed installation left.
LEMMA PullKeeps ==
  ASSUME PresentInv, Plain, NEW M, Pushed(M), NEW p \in Packages, Pull(p)
  PROVE  PresentInv' /\ cache' = cache
<1> USE DEF PresentInv
<1>1. p \in run /\ Match(p) /\ Done(p) /\ UNCHANGED <<src, on, sysroot>> /\ cache' = cache
  BY DEF Pull, given
<1>2. Deps(p, on) \subseteq fresh
  BY <1>1 DEF OrderInv
<1>3. PICK f \in cache[p] : f.key = Key(p)
  BY <1>1 DEF Match
<1>4. cache[p] = {f}
  BY <1>3 DEF FileInv
<1>5. PICK i : i \in {Flaw(p), f.img} /\ img' = [img EXCEPT ![p] = {i}]
  <2>1. CASE img[p] = {}
    BY <1>4, <2>1 DEF Pull
  <2>2. CASE img[p] # {}
    <3>1. img' = [img EXCEPT ![p] = img[p]]
      BY <2>2 DEF Pull
    <3>2. img[p] = {Flaw(p)} \/ img[p] = {g.img : g \in cache[p]}
      BY <2>2 DEF FileInv
    <3>3. {g.img : g \in cache[p]} = {f.img}
      BY <1>4
    <3> QED BY <3>1, <3>2, <3>3
  <2> QED BY <2>1, <2>2
<1>6. \A e \in fresh : e # p \/ img'[e] = img[e]
  <2>1. ASSUME p \in fresh PROVE img'[p] = img[p]
    BY <2>1, <1>1 DEF BuiltInv, Pull, TypeInv
  <2> QED BY <2>1
<1>7. \A e \in fresh : img'[e] = img[e] /\ cache'[e] = cache[e]
  BY <1>1, <1>5, <1>6 DEF TypeInv
<1>8. cache' = [cache EXCEPT ![p] = {f}]
  BY <1>1, <1>4 DEF TypeInv
<1>9. ASSUME WholeBelow(p), i # Flaw(p) PROVE i = Clear(p)
  <2>1. i = f.img
    BY <1>5, <1>9
  <2>2. f.img.state = "whole"
    BY <2>1, <1>3, <1>9 DEF FileInv
  <2> QED BY <1>2, <1>3, <1>9, <2>1, <2>2, KeyMeansClear DEF Pushed
<1>10. f.img.state = "whole" \/ f.img = Flaw(p)
  BY <1>3 DEF FileInv
<1> QED BY <1>1, <1>3, <1>5, <1>7, <1>8, <1>9, <1>10, DoneKeeps

\* With all that is below a package in its sysroot, and nothing else, the compiler makes the
\* clean image.
LEMMA CompiledIsClear ==
  ASSUME PresentInv, NEW p \in run, ~ Match(p)
  PROVE  Compiled(p) = Clear(p)
<1>1. sysroot[p] = Below(p)
  BY DEF PresentInv, LinkInv, TypeInv
<1> QED BY <1>1 DEF Compiled, Clear, Uses

LEMMA CompileKeeps ==
  ASSUME PresentInv, Plain, NEW M, Pushed(M), NEW p \in Packages, Compile(p)
  PROVE  PresentInv' /\ \E N : Pushed(N)'
<1> DEFINE f == [key |-> Key(p), img |-> Clear(p)]
<1>1. /\ p \in run /\ ~ Match(p) /\ Done(p) /\ UNCHANGED <<src, on, sysroot>>
      /\ Deps(p, on) \subseteq fresh
  BY DEF Compile, given, PresentInv, OrderInv
<1>2. img' = [img EXCEPT ![p] = {Clear(p)}] /\ cache' = [cache EXCEPT ![p] = {f}]
  BY <1>1, CompiledIsClear DEF Compile
<1>3. f.key = Key(p) /\ f.img = Clear(p)
  OBVIOUS
<1>4. PICK N : Honest(N) /\ M \subseteq N /\ (f.img.state = "whole" => f \in N)
  <2>1. CASE WholeBelow(p)
    BY <1>1, <2>1, PushClear
  <2>2. CASE ~ WholeBelow(p)
    <3>1. Clear(p).state # "whole"
      BY <2>2 DEF Clear, Built, Flaw, WholeBelow
    <3> QED BY <1>3, <3>1 DEF Pushed
  <2> QED BY <2>1, <2>2
<1>9. f.img.state = "whole" \/ f.img = Flaw(p)
  BY <1>3 DEF Clear, Built
<1> HIDE DEF f
<1>5. \A e \in fresh : img'[e] = img[e] /\ cache'[e] = cache[e]
  BY <1>1, <1>2 DEF PresentInv, BuiltInv, TypeInv
<1>6. PresentInv'
  BY <1>1, <1>2, <1>3, <1>5, <1>9, DoneKeeps
<1>7. \A q \in Packages : \A g \in cache'[q] : g.img.state = "whole" => g \in N
  BY <1>2, <1>4 DEF Pushed, PresentInv, TypeInv
<1>8. Pushed(N)'
  BY <1>4, <1>7 DEF Pushed
<1> QED BY <1>6, <1>8

LEMMA CompileFailsKeeps ==
  ASSUME PresentInv, Plain, NEW p \in Packages, CompileFails(p)
  PROVE  PresentInv' /\ cache' = cache
<1> USE DEF PresentInv
<1>1. /\ p \in run /\ p \notin fresh /\ todo' = {} /\ run' = run \ {p} /\ cache' = cache
      /\ UNCHANGED <<src, on, sysroot, fresh>>
  BY DEF CompileFails, given, BuiltInv
<1>2. PICK i \in {img[p], {}, {Flaw(p)}} : img' = [img EXCEPT ![p] = i]
  BY DEF CompileFails
<1>3. \A e \in fresh : img'[e] = img[e] /\ cache'[e] = cache[e]
  BY <1>1, <1>2 DEF TypeInv
<1>4. \A q \in fresh \cup run : /\ q \in Packages /\ Key(q)' = Key(q) /\ Clear(q)' = Clear(q)
                                /\ WholeBelow(q)' <=> WholeBelow(q)
  <2> SUFFICES ASSUME NEW q \in fresh \cup run
               PROVE  /\ q \in Packages /\ Key(q)' = Key(q) /\ Clear(q)' = Clear(q)
                      /\ WholeBelow(q)' <=> WholeBelow(q)
    OBVIOUS
  <2>1. q \in Packages /\ Deps(q, on) \subseteq fresh
    BY DEF OrderInv, TypeInv
  <2> QED BY <2>1, <1>1, <1>3, Frozen
<1>5. TypeInv'
  BY <1>1, <1>2 DEF TypeInv
<1>6. OrderInv'
  BY <1>1 DEF OrderInv
<1>7. FileInv'
  BY <1>1, <1>2 DEF FileInv, TypeInv, Flaw
<1>8. LinkInv'
  BY <1>1, <1>4 DEF LinkInv, Match, Below
<1>9. BuiltInv'
  BY <1>1, <1>3, <1>4 DEF BuiltInv, Match, Flawed
<1> QED BY <1>1, <1>5, <1>6, <1>7, <1>8, <1>9

\* Starting make changes nothing of what has been built.
LEMMA StartKeeps ==
  ASSUME PresentInv, UNCHANGED <<src, on, img, sysroot, cache, run, fresh>>
  PROVE  FileInv' /\ LinkInv' /\ BuiltInv'
<1>1. TypeInv /\ FileInv /\ LinkInv /\ BuiltInv
  BY DEF PresentInv
<1>2. \A q \in Packages : /\ Below(q)' = Below(q) /\ Match(q)' = Match(q)
                          /\ Clear(q)' = Clear(q) /\ (Flawed(q)' <=> Flawed(q))
  BY DEF Below, Match, Key, Listed, Clear, Built, Uses, Flawed, WholeBelow
<1>3. FileInv'
  BY <1>1 DEF FileInv
<1>4. LinkInv'
  BY <1>1, <1>2 DEF LinkInv, TypeInv
<1>5. BuiltInv'
  BY <1>1, <1>2 DEF BuiltInv, TypeInv
<1> QED BY <1>3, <1>4, <1>5

\* The user starts make, or changes what there is to build, while nothing runs.
LEMMA MakeKeeps ==
  ASSUME PresentInv, NEW p \in on, Make({p})
  PROVE  PresentInv' /\ cache' = cache
<1> USE DEF PresentInv
<1>1. /\ todo' = {p} \cup Below(p) /\ todo = {} /\ run = {}
      /\ UNCHANGED <<src, on, img, sysroot, cache, run, fresh>>
  BY DEF Make, given, AtRest
<1>2. on \in SUBSET Packages /\ p \in Packages
  BY DEF TypeInv
<1>3. Deps(p, on) \subseteq Below(p) /\ Below(p) \subseteq on
  BY <1>2, Reaching DEF Below
<1>4. ASSUME NEW q \in Below(p) PROVE Deps(q, on) \subseteq Below(p)
  <2> SUFFICES ASSUME NEW e \in Deps(q, on), NEW S \in SUBSET on,
                      Deps(p, on) \subseteq S, Closed(S, on)
               PROVE  e \in S
    BY DEF Below, Reach, Deps
  <2>1. q \in S
    BY DEF Below, Reach
  <2> QED BY <2>1 DEF Closed
<1>5. OrderInv'
  BY <1>1, <1>3, <1>4 DEF OrderInv
<1>6. TypeInv'
  BY <1>1, <1>3 DEF TypeInv
<1> QED BY <1>1, <1>5, <1>6, StartKeeps

LEMMA SingleKeeps ==
  ASSUME PresentInv, Plain, NEW p \in Packages, Single(p)
  PROVE  PresentInv' /\ cache' = cache
<1> USE DEF PresentInv
<1>1. /\ todo' = {p} /\ todo = {} /\ run = {} /\ p \in on /\ Below(p) \subseteq fresh
      /\ UNCHANGED <<src, on, img, sysroot, cache, run, fresh>>
  BY DEF Single, given, AtRest, Plain
<1>2. Deps(p, on) \subseteq fresh
  BY <1>1, Reaching DEF TypeInv, Below
<1>3. TypeInv' /\ OrderInv'
  BY <1>1, <1>2 DEF TypeInv, OrderInv
<1> QED BY <1>1, <1>3, StartKeeps

LEMMA EditKeeps ==
  ASSUME PresentInv, NEW p \in Packages, NEW v \in Versions[p], Edit(p, v)
  PROVE  PresentInv' /\ cache' = cache
<1>1. TypeInv /\ \A q \in Packages : sysroot[q] \subseteq Below(q)
  BY DEF PresentInv, LinkInv
<1>2. TypeInv'
  BY <1>1 DEF TypeInv, Edit, AtRest
<1>3. \A q \in Packages : sysroot'[q] \subseteq Below(q)'
  BY <1>1 DEF Edit, Below
<1> QED BY <1>2, <1>3, RestKept DEF Edit, AtRest

LEMMA CleanKeeps ==
  ASSUME PresentInv, NEW p \in Packages, Clean(p)
  PROVE  PresentInv' /\ cache' = cache
<1>1. TypeInv /\ \A q \in Packages : sysroot[q] \subseteq Below(q)
  BY DEF PresentInv, LinkInv
<1>2. TypeInv'
  BY <1>1 DEF TypeInv, Clean, given, AtRest
<1>3. \A q \in Packages : sysroot'[q] \subseteq Below(q)'
  BY <1>1 DEF Clean, given, Below, TypeInv
<1>4. \A q \in Packages : img'[q] = img[q] \/ img'[q] = {}
  BY <1>1 DEF Clean, TypeInv
<1> QED BY <1>2, <1>3, <1>4, RestKept DEF Clean, AtRest

LEMMA SelectKeeps ==
  ASSUME PresentInv, Plain, NEW c \in Configs, Select(c)
  PROVE  PresentInv' /\ cache' = cache
<1>1. TypeInv'
  BY DEF PresentInv, TypeInv, Select, AtRest, Configs
<1>2. \A q \in Packages : sysroot'[q] \subseteq Below(q)'
  BY DEF Select, Below, Plain
<1> QED BY <1>1, <1>2, RestKept DEF Select, AtRest

LEMMA InitBuild == Init => BuildInv
<1> SUFFICES ASSUME Init PROVE BuildInv
  OBVIOUS
<1>1. PresentInv
  BY DEF Init, Sources, Configs, PresentInv, TypeInv, OrderInv, FileInv, LinkInv, BuiltInv
<1>2. Pushed({})
  BY DEF Init, Pushed, Honest
<1> QED BY <1>1, <1>2 DEF BuildInv

LEMMA NextBuild ==
  ASSUME Plain
  PROVE  BuildInv /\ [Next]_vars => BuildInv'
<1> SUFFICES ASSUME BuildInv, [Next]_vars PROVE BuildInv'
  OBVIOUS
<1>1. PresentInv
  BY DEF BuildInv
<1>2. PICK M : Pushed(M)
  BY DEF BuildInv
<1>3. ASSUME PresentInv', cache' = cache PROVE BuildInv'
  <2>1. Pushed(M)'
    BY <1>2, <1>3 DEF Pushed
  <2> QED BY <1>3, <2>1 DEF BuildInv
<1>4. ASSUME NEW p \in Packages, Psysroot(p) PROVE BuildInv'
  BY <1>1, <1>3, <1>4, PsysrootKeeps
<1>5. ASSUME NEW p \in Packages, Pull(p) PROVE BuildInv'
  BY <1>1, <1>2, <1>3, <1>5, PullKeeps
<1>6. ASSUME NEW p \in Packages, Compile(p) PROVE BuildInv'
  BY <1>1, <1>2, <1>6, CompileKeeps DEF BuildInv
<1>7. ASSUME NEW p \in Packages, CompileFails(p) PROVE BuildInv'
  BY <1>1, <1>3, <1>7, CompileFailsKeeps
<1>8. ASSUME NEW p \in Packages, Single(p) PROVE BuildInv'
  BY <1>1, <1>3, <1>8, SingleKeeps
<1>9. ASSUME NEW p \in Packages, Clean(p) PROVE BuildInv'
  BY <1>1, <1>3, <1>9, CleanKeeps
<1>10. ASSUME NEW p \in Packages, NEW v \in Versions[p], Edit(p, v) PROVE BuildInv'
  BY <1>1, <1>3, <1>10, EditKeeps
<1>11. ASSUME NEW p \in on, Make({p}) PROVE BuildInv'
  BY <1>1, <1>3, <1>11, MakeKeeps
<1>12. ASSUME NEW c \in Configs, Select(c) PROVE BuildInv'
  BY <1>1, <1>3, <1>12, SelectKeeps
<1>13. CASE UNCHANGED vars
  <2>1. PresentInv'
    <3>1. TypeInv' /\ OrderInv'
      BY <1>1, <1>13 DEF vars, PresentInv, TypeInv, OrderInv
    <3> QED BY <1>1, <1>13, <3>1, StartKeeps DEF vars, PresentInv
  <2> QED BY <1>3, <1>13, <2>1 DEF vars
<1> QED
  BY <1>4, <1>5, <1>6, <1>7, <1>8, <1>9, <1>10, <1>11, <1>12, <1>13 DEF Next

LEMMA BuildAlways == ASSUME Plain PROVE Spec => []BuildInv
BY InitBuild, NextBuild, PTL DEF Spec

-----------------------------------------------------------------------------
\* Whatever is edited, reconfigured, cleaned or fails, and in whatever order make runs its
\* jobs: a package whose target has succeeded since the last change is the current
\* sources compiled with current images of all its dependencies, unless a part of an image
\* that a failed installation left is among these.
THEOREM BuildsAreClean == Plain => (Spec => []Coherent)
<1> SUFFICES ASSUME Plain PROVE Spec => []Coherent
  OBVIOUS
<1>1. BuildInv => Coherent
  <2> SUFFICES ASSUME PresentInv, NEW p \in fresh
               PROVE  /\ Flawed(p) \/ img[p] = {Clear(p)}
                      /\ \A d \in Below(p) \cup {p} : img[d] # {}
    BY DEF BuildInv, Coherent
  <2>1. p \in Packages /\ Deps(p, on) \subseteq fresh
    BY DEF PresentInv, TypeInv, OrderInv
  <2>2. Below(p) \subseteq fresh
    BY <2>1, BelowBuilt
  <2> QED BY <2>2 DEF PresentInv, BuiltInv
<1> QED BY BuildAlways, <1>1, PTL

\* Nothing is compiled whose clean image, a whole one, is in the cache: the name of the
\* file tells it, although it speaks of the names of the dependencies' files and not of their images.
THEOREM CompilesAreNeeded == Plain => (Spec => NoNeedlessCompile)
<1> SUFFICES ASSUME Plain PROVE Spec => NoNeedlessCompile
  OBVIOUS
<1> DEFINE Needed ==
             \A p \in Packages :
               Compile(p) => \A f \in cache[p] : ~ (f.img = Clear(p) /\ f.img.state = "whole")
<1>1. BuildInv => Needed
  <2> SUFFICES ASSUME PresentInv, NEW M, Pushed(M), NEW p \in Packages, Compile(p),
                      NEW f \in cache[p], f.img = Clear(p), f.img.state = "whole"
               PROVE  FALSE
    BY DEF BuildInv
  <2>1. f \in M /\ ~ Match(p) /\ Deps(p, on) \subseteq fresh
    BY DEF Pushed, Compile, PresentInv, OrderInv
  <2>2. WholeBelow(p)
    BY DEF Clear, Built, Flaw, WholeBelow
  <2> QED BY <2>1, <2>2, ClearMeansKey DEF Match
<1>2. Spec => [][Needed]_vars
  BY BuildAlways, <1>1, PTL
<1> QED BY <1>2 DEF NoNeedlessCompile
-----------------------------------------------------------------------------
(* make comes to an end, also where Plain does not hold. *)

\* The packages have an order in which each comes after its dependencies: what
\* sort_items finds, or the script writes no Makefile (OrderRespectsDeps of
\* ChainSortProofs).
Ordered ==
  \E level \in [Packages -> Nat] :
    \A p \in Packages : \A d \in Strong[p] \cup Weak[p] \cup Cond[p] : level[d] < level[p]

TargetsInv == on \subseteq Packages /\ todo \subseteq on /\ run \subseteq on

LEMMA TargetsAlways == Spec => []TargetsInv
<1>1. Init => TargetsInv
  BY DEF Init, Configs, TargetsInv
<1>2. TargetsInv /\ [Next]_vars => TargetsInv'
  <2> SUFFICES ASSUME TargetsInv, [Next]_vars PROVE TargetsInv'
    OBVIOUS
  <2> USE DEF TargetsInv
  <2>1. ASSUME NEW p \in Packages, Psysroot(p) PROVE TargetsInv'
    BY <2>1 DEF Psysroot, Ready, given
  <2>2. ASSUME NEW p \in Packages, Pull(p) \/ Compile(p) PROVE TargetsInv'
    BY <2>2 DEF Pull, Compile, Done, given
  <2>3. ASSUME NEW p \in Packages, CompileFails(p) PROVE TargetsInv'
    BY <2>3 DEF CompileFails, given
  <2>4. ASSUME NEW p \in Packages, Single(p) PROVE TargetsInv'
    BY <2>4 DEF Single, given
  <2>5. ASSUME NEW p \in Packages, Clean(p) PROVE TargetsInv'
    BY <2>5 DEF Clean, given
  <2>6. ASSUME NEW p \in Packages, NEW v \in Versions[p], Edit(p, v) PROVE TargetsInv'
    BY <2>6 DEF Edit
  <2>7. ASSUME NEW p \in on, Make({p}) PROVE TargetsInv'
    <3>1. Below(p) \subseteq on
      BY Reaching DEF Below
    <3> QED BY <2>7, <3>1 DEF Make, given
  <2>8. ASSUME NEW c \in Configs, Select(c) PROVE TargetsInv'
    BY <2>8 DEF Select, AtRest, Configs
  <2>9. CASE UNCHANGED vars
    BY <2>9 DEF vars
  <2> QED BY <2>1, <2>2, <2>3, <2>4, <2>5, <2>6, <2>7, <2>8, <2>9 DEF Next
<1> QED BY <1>1, <1>2, PTL DEF Spec

LEMMA LeastOf ==
  ASSUME NEW S, S # {}, NEW f \in [S -> Nat]
  PROVE  \E x \in S : \A y \in S : ~ (f[y] < f[x])
<1> DEFINE T == {f[x] : x \in S}
<1>1. IsWellFoundedOn(OpToRel(<, Nat), Nat)
  BY NatLessThanWellFounded
<1>2. T \subseteq Nat /\ T # {}
  OBVIOUS
<1>3. PICK n \in T : \A m \in T : ~ (<<m, n>> \in OpToRel(<, Nat))
  <2> HIDE DEF T
  <2> QED BY <1>1, <1>2, WFMin
<1>4. \A m \in T : ~ (m < n)
  BY <1>2, <1>3 DEF OpToRel
<1> QED BY <1>4

\* make -j is never stuck: while targets are left and no job runs, the
\* dependencies of one of them are all made, whatever was asked for, left out with
\* _single, or failed before.
THEOREM MakeNeverStuck ==
  Ordered => (Spec => [](todo # {} /\ run = {} => \E p \in Packages : Ready(p)))
<1> SUFFICES ASSUME Ordered PROVE Spec => [](todo # {} /\ run = {} => \E p \in Packages : Ready(p))
  OBVIOUS
<1>1. TargetsInv => (todo # {} /\ run = {} => \E p \in Packages : Ready(p))
  <2> SUFFICES ASSUME TargetsInv, todo # {}, run = {} PROVE \E p \in Packages : Ready(p)
    OBVIOUS
  <2>1. PICK level \in [Packages -> Nat] :
          \A p \in Packages : \A d \in Strong[p] \cup Weak[p] \cup Cond[p] : level[d] < level[p]
    BY DEF Ordered
  <2>2. todo \subseteq Packages
    BY DEF TargetsInv
  <2> DEFINE f == [q \in todo |-> level[q]]
  <2>3. f \in [todo -> Nat]
    BY <2>2
  <2>4. PICK p \in todo : \A d \in todo : ~ (f[d] < f[p])
    <3> HIDE DEF f
    <3> QED BY <2>3, LeastOf
  <2>5. Deps(p, on) \cap todo = {}
    BY <2>1, <2>2, <2>4 DEF Deps
  <2> QED BY <2>2, <2>5 DEF Ready
<1> QED BY TargetsAlways, <1>1, PTL

\* What make has yet to do: two steps of a target that waits, one of a job that runs.
JobsLeft == 2 * Cardinality(todo) + Cardinality(run)

\* While make runs, every step uses one of them up, a failed compilation too: a target is
\* run once however many packages need it, and a failure starts nothing again. So with
\* MakeNeverStuck make ends.
THEOREM JobsEnd ==
  IsFiniteSet(Packages) => (Spec => [][~ AtRest => JobsLeft' < JobsLeft]_vars)
<1> SUFFICES ASSUME IsFiniteSet(Packages) PROVE Spec => [][~ AtRest => JobsLeft' < JobsLeft]_vars
  OBVIOUS
<1>1. TargetsInv /\ Next => (~ AtRest => JobsLeft' < JobsLeft)
  <2> SUFFICES ASSUME TargetsInv, Next, ~ AtRest PROVE JobsLeft' < JobsLeft
    OBVIOUS
  <2>1. /\ IsFiniteSet(todo) /\ IsFiniteSet(run)
        /\ Cardinality(todo) \in Nat /\ Cardinality(run) \in Nat
    BY FS_Subset, FS_CardinalityType DEF TargetsInv
  <2>2. ASSUME NEW p \in Packages, Psysroot(p) PROVE JobsLeft' < JobsLeft
    <3>1. p \in todo /\ todo' = todo \ {p} /\ run' = run \cup {p}
      BY <2>2 DEF Psysroot, Ready
    <3>2. Cardinality(todo') = Cardinality(todo) - 1
      BY <2>1, <3>1, FS_RemoveElement
    <3>3. Cardinality(run') = Cardinality(run) \/ Cardinality(run') = Cardinality(run) + 1
      BY <2>1, <3>1, FS_AddElement
    <3> QED BY <2>1, <3>2, <3>3 DEF JobsLeft
  <2>3. ASSUME NEW p \in Packages, Pull(p) \/ Compile(p) \/ CompileFails(p) PROVE JobsLeft' < JobsLeft
    <3>1. p \in run /\ run' = run \ {p} /\ todo' \in {todo, {}}
      BY <2>3 DEF Pull, Compile, CompileFails, Done
    <3>2. Cardinality(run') = Cardinality(run) - 1
      BY <2>1, <3>1, FS_RemoveElement
    <3>3. Cardinality(todo') \in Nat /\ Cardinality(todo') <= Cardinality(todo)
      BY <2>1, <3>1, FS_EmptySet
    <3> QED BY <2>1, <3>2, <3>3 DEF JobsLeft
  <2> QED BY <2>2, <2>3 DEF Next, Single, Clean, Edit, Make, Select
<1> QED BY TargetsAlways, <1>1, PTL DEF Spec
=============================================================================
