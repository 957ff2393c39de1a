--------------------------- MODULE BuildCacheProofs ---------------------------
(***************************************************************************)
(* Proofs about BuildCache, for every set of workspaces and of versions.   *)
(*                                                                         *)
(* A step of one workspace leaves the others alone (Locality).  TypeOK is  *)
(* not inductive by itself: that a cache file has a name and a content     *)
(* when it is moved in place needs StageInv.  So types, StageInv and       *)
(* OnlyTornIsPartial are proved together (AtomicInv), then the names       *)
(* (NamesInv) and what becomes of force files (HonourInv).  SharedInv      *)
(* follows an image from the cache file to the image directory: a build    *)
(* that ends well has the one of its checksum, or one that it found there. *)
(*                                                                         *)
(* For one workspace without faults (Alone) SoundInv adds that there is    *)
(* one cache file at most, and that an image left by an earlier build is   *)
(* the one in that file.  SoundImage follows, and that every step is one   *)
(* of CachePromise or a stutter (PromiseKept).                             *)
(***************************************************************************)
EXTENDS BuildCache, TLAPS

\* The state of workspace u, except its force file, is the same after a step.
Same(u) ==
  /\ pc'[u] = pc[u]
  /\ mode'[u] = mode[u]
  /\ ins'[u] = ins[u]
  /\ sum'[u] = sum[u]
  /\ buf'[u] = buf[u]

\* What a workspace or its user does changes nothing of another workspace.
LEMMA Locality ==
  ASSUME TypeOK, NEW w \in Workspaces, Step(w) \/ User(w),
         NEW u \in Workspaces, u # w
  PROVE  Same(u)
<1> USE DEF TypeOK, Same, GoTo, At, disk
<1>1. CASE User(w) BY <1>1 DEF User, Start, SetForce, UnsetForce, Clean, Kill
<1>2. CASE CheckForced(w) BY <1>2 DEF CheckForced, Unmatched
<1>3. CASE CheckSum(w) BY <1>3 DEF CheckSum
<1>4. CASE CheckError(w) BY <1>4 DEF CheckError
<1>5. CASE LookupHit(w) BY <1>5 DEF LookupHit, Matched
<1>6. CASE LookupMiss(w) BY <1>6 DEF LookupMiss, Unmatched
<1>7. CASE PullKeeps(w) BY <1>7 DEF PullKeeps
<1>8. CASE PullError(w) BY <1>8 DEF PullError
<1>9. CASE PullUntars(w) BY <1>9 DEF PullUntars, Named
<1>10. CASE Untarred(w) BY <1>10 DEF Untarred
<1>11. CASE ConfigureFails(w) BY <1>11 DEF ConfigureFails
<1>12. CASE RemoveImage(w) BY <1>12 DEF RemoveImage
<1>13. CASE MakeRuns(w) BY <1>13 DEF MakeRuns
<1>14. CASE MakeFails(w) BY <1>14 DEF MakeFails, Compiled
<1>15. CASE InstallEnds(w) BY <1>15 DEF InstallEnds, Compiled
<1>16. CASE InstallFails(w) BY <1>16 DEF InstallFails
<1>17. CASE PushNoImage(w) BY <1>17 DEF PushNoImage
<1>18. CASE PushSums(w) BY <1>18 DEF PushSums
<1>19. CASE PushSumError(w) BY <1>19 DEF PushSumError
<1>20. CASE PushTars(w) BY <1>20 DEF PushTars
<1>21. CASE PushDeletes(w) BY <1>21 DEF PushDeletes
<1>22. CASE PushMoves(w) BY <1>22 DEF PushMoves, Named
<1>23. CASE LookupMirror(w) BY <1>23 DEF LookupMirror
<1>24. CASE CurlEnds(w) BY <1>24 DEF CurlEnds, Matched, Open, Closed
<1>25. CASE CurlBreaks(w) BY <1>25 DEF CurlBreaks, Unmatched, Open, Closed
<1>26. CASE MirrorClears(w) BY <1>26 DEF MirrorClears
<1>27. CASE CurlOpens(w) BY <1>27 DEF CurlOpens, Named
<1>28. CASE PushTarFails(w) BY <1>28 DEF PushTarFails
<1>29. CASE PushMovesNothing(w) BY <1>29 DEF PushMovesNothing
<1> QED BY <1>1, <1>2, <1>3, <1>4, <1>5, <1>6, <1>7, <1>8, <1>9, <1>10, <1>11, <1>12, <1>13, <1>14, <1>15, <1>16, <1>17, <1>18, <1>19, <1>20, <1>21, <1>22, <1>23, <1>24, <1>25, <1>26, <1>27, <1>28, <1>29 DEF Step

\* Closing the file curl writes to, complete or not, leaves cache files.
LEMMA ClosedFiles ==
  ASSUME TypeOK, NEW w \in Workspaces
  PROVE  /\ (cache \ Open(w)) \cup {Closed(f, f.img) : f \in Open(w)} \in SUBSET Files
         /\ (cache \ Open(w)) \cup {Closed(f, Whole(f.img.ver)) : f \in Open(w)}
              \in SUBSET Files
<1>1. \A f \in Files : Closed(f, f.img) \in Files
  BY DEF Closed, Files
<1>2. \A f \in Files : Closed(f, Whole(f.img.ver)) \in Files
  BY DEF Closed, Files, Images, States, Whole
<1>3. cache \subseteq Files /\ Open(w) \subseteq cache BY DEF TypeOK, Open
<1> QED BY <1>1, <1>2, <1>3

\* A step of the scripts keeps types, stages and the atomicity of a push.
LEMMA StepAtomic ==
  ASSUME AtomicInv, NEW w \in Workspaces, Step(w)
  PROVE  TypeOK' /\ StageInv(w)' /\ OnlyTornIsPartial'
<1>a. TypeOK /\ StageInv(w) /\ OnlyTornIsPartial BY DEF AtomicInv
<1> USE <1>a, ConstantsAssumption
    DEF TypeOK, StageInv, Locs, Rest, Modes, Keys, Images, Marks,
        States, IsWhole, TornBy, Asking, GoTo, At, Whole, Part, Torn, PlainKey, disk
<1>1. CASE CheckForced(w) BY <1>1 DEF CheckForced, Unmatched, OnlyTornIsPartial
<1>2. CASE CheckSum(w) BY <1>2 DEF CheckSum, OnlyTornIsPartial
<1>3. CASE CheckError(w) BY <1>3 DEF CheckError, OnlyTornIsPartial
<1>4. CASE LookupHit(w) BY <1>4 DEF LookupHit, Matched, OnlyTornIsPartial
<1>5. CASE LookupMiss(w) BY <1>5 DEF LookupMiss, Unmatched, OnlyTornIsPartial
<1>6. CASE PullKeeps(w) BY <1>6 DEF PullKeeps, OnlyTornIsPartial
<1>7. CASE PullError(w) BY <1>7 DEF PullError, OnlyTornIsPartial
<1>8. CASE PullUntars(w)
  <2>1. PICK f \in Files : /\ buf' = [buf EXCEPT ![w] = f.img]
                           /\ ins' = [ins EXCEPT ![w] = Part(f.img.ver)]
    BY <1>8 DEF PullUntars, Named
  <2>2. f.img \in Images /\ Part(f.img.ver) \in Images BY DEF Files
  <2> QED BY <1>8, <2>1, <2>2 DEF PullUntars, OnlyTornIsPartial
<1>9. CASE Untarred(w) BY <1>9 DEF Untarred, OnlyTornIsPartial
<1>10. CASE ConfigureFails(w) BY <1>10 DEF ConfigureFails, OnlyTornIsPartial
<1>11. CASE RemoveImage(w) BY <1>11 DEF RemoveImage, OnlyTornIsPartial
<1>12. CASE MakeRuns(w)
  <2>1. Whole(src) \in Images /\ Part(src) \in Images /\ IsWhole(Whole(src)) OBVIOUS
  <2> HIDE DEF Whole, Part
  <2> QED BY <1>12, <2>1 DEF MakeRuns, OnlyTornIsPartial
<1>13. CASE MakeFails(w) BY <1>13 DEF MakeFails, Compiled, OnlyTornIsPartial
<1>14. CASE InstallEnds(w) BY <1>14 DEF InstallEnds, Compiled, OnlyTornIsPartial
<1>15. CASE InstallFails(w) BY <1>15 DEF InstallFails, OnlyTornIsPartial
<1>16. CASE PushNoImage(w) BY <1>16 DEF PushNoImage, OnlyTornIsPartial
<1>17. CASE PushSums(w) BY <1>17 DEF PushSums, OnlyTornIsPartial
<1>18. CASE PushSumError(w) BY <1>18 DEF PushSumError, OnlyTornIsPartial
<1>19. CASE PushTars(w) BY <1>19 DEF PushTars, OnlyTornIsPartial
<1>20. CASE CurlOpens(w)
  <2>1. sum[w] \in Keys /\ sum[w] = PlainKey(sum[w].src)
    BY <1>20 DEF CurlOpens
  <2>2. cache' \in SUBSET Files BY <1>20, <2>1 DEF CurlOpens, Named, Files
  <2>3. OnlyTornIsPartial' BY <1>20, <2>1 DEF CurlOpens, Named, OnlyTornIsPartial
  <2> QED BY <1>20, <2>2, <2>3 DEF CurlOpens
<1>21. CASE CurlEnds(w)
  <2>1. cache' \in SUBSET Files
    BY <1>21, ClosedFiles DEF CurlEnds
  <2>2. OnlyTornIsPartial' BY <1>21 DEF CurlEnds, Open, Closed, OnlyTornIsPartial, Files
  <2> QED BY <1>21, <2>1, <2>2 DEF CurlEnds, Matched
<1>22. CASE CurlBreaks(w)
  <2>1. cache' \in SUBSET Files
    BY <1>22, ClosedFiles DEF CurlBreaks
  <2>2. OnlyTornIsPartial' BY <1>22 DEF CurlBreaks, Open, Closed, OnlyTornIsPartial, Files
  <2> QED BY <1>22, <2>1, <2>2 DEF CurlBreaks, Unmatched
<1>23. CASE PushDeletes(w) BY <1>23 DEF PushDeletes, OnlyTornIsPartial
<1>24. CASE PushMoves(w)
  <2>1. sum[w] \in Keys /\ buf[w] \in Images /\ (IsWhole(buf[w]) \/ TornBy(w))
    BY <1>24 DEF PushMoves
  <2>2. cache' \in SUBSET Files BY <1>24, <2>1 DEF PushMoves, Named, Files
  <2>3. OnlyTornIsPartial' BY <1>24, <2>1 DEF PushMoves, Named, OnlyTornIsPartial
  <2> QED BY <1>24, <2>1, <2>2, <2>3 DEF PushMoves
<1>25. CASE LookupMirror(w) BY <1>25 DEF LookupMirror, OnlyTornIsPartial
<1>26. CASE MirrorClears(w) BY <1>26 DEF MirrorClears, OnlyTornIsPartial
<1>27. CASE PushTarFails(w)
  <2>1. PICK left \in {Absent, Torn(ins[w].ver)} : buf' = [buf EXCEPT ![w] = left]
    BY <1>27 DEF PushTarFails
  <2>2. ins[w] \in Images BY <1>27 DEF PushTarFails
  <2>3. left \in Images \cup {Absent} /\ (left = Absent \/ left.state = "torn") BY <2>2
  <2> QED BY <1>27, <2>1, <2>3 DEF PushTarFails, OnlyTornIsPartial
<1>28. CASE PushMovesNothing(w) BY <1>28 DEF PushMovesNothing, OnlyTornIsPartial
<1> QED BY <1>1, <1>2, <1>3, <1>4, <1>5, <1>6, <1>7, <1>8, <1>9, <1>10, <1>11, <1>12, <1>13, <1>14, <1>15, <1>16, <1>17, <1>18, <1>19, <1>20, <1>21, <1>22, <1>23, <1>24, <1>25, <1>26, <1>27, <1>28 DEF Step

\* So do the commands of a user between two builds, and an interruption.
LEMMA UserAtomic ==
  ASSUME AtomicInv, NEW w \in Workspaces, User(w)
  PROVE  TypeOK' /\ StageInv(w)' /\ OnlyTornIsPartial'
<1>a. TypeOK /\ StageInv(w) /\ OnlyTornIsPartial BY DEF AtomicInv
<1> USE <1>a DEF TypeOK, StageInv, IsWhole, TornBy, Asking, Locs, Rest, Modes, GoTo, At, disk
<1>1. ASSUME NEW m \in Modes, Start(w, m) PROVE TypeOK' /\ StageInv(w)' /\ OnlyTornIsPartial'
  BY <1>1 DEF Start, OnlyTornIsPartial
<1>2. ASSUME NEW f \in {"always", "once"}, SetForce(w, f)
      PROVE  TypeOK' /\ StageInv(w)' /\ OnlyTornIsPartial'
  BY <1>2 DEF SetForce, OnlyTornIsPartial
<1>3. CASE UnsetForce(w) BY <1>3 DEF UnsetForce, OnlyTornIsPartial
<1>4. CASE Clean(w) BY <1>4 DEF Clean, OnlyTornIsPartial
<1>5. CASE Kill(w)
  <2>1. cache' \in SUBSET Files BY <1>5, ClosedFiles DEF Kill
  <2>2. OnlyTornIsPartial' BY <1>5 DEF Kill, Open, Closed, OnlyTornIsPartial
  <2> QED BY <1>5, <2>1, <2>2 DEF Kill
<1> QED BY <1>1, <1>2, <1>3, <1>4, <1>5 DEF User

LEMMA InitAtomic == Init => AtomicInv
BY ConstantsAssumption
   DEF Init, AtomicInv, TypeOK, StageInv, Asking, OnlyTornIsPartial, At, Locs, Rest, Modes

\* AtomicInv is inductive: the workspace that moves by the lemmas above, the
\* others because nothing of theirs changes.
LEMMA NextAtomic == AtomicInv /\ [Next]_vars => AtomicInv'
<1> SUFFICES ASSUME AtomicInv, [Next]_vars PROVE AtomicInv'
  OBVIOUS
<1>1. ASSUME NEW w \in Workspaces, Step(w) \/ User(w) PROVE AtomicInv'
  <2>1. TypeOK' /\ StageInv(w)' /\ OnlyTornIsPartial'
    BY <1>1, StepAtomic, UserAtomic
  <2>2. ASSUME NEW u \in Workspaces, u # w PROVE StageInv(u)'
    <3>1. Same(u) BY <1>1, <2>2, Locality DEF AtomicInv
    <3>2. StageInv(u) BY DEF AtomicInv
    <3> QED BY <3>1, <3>2 DEF Same, StageInv, TornBy, Asking, At
  <2> QED BY <2>1, <2>2 DEF AtomicInv
<1>2. ASSUME NEW v \in Versions, Edit(v) PROVE AtomicInv'
  BY <1>2 DEF Edit, disk, AtomicInv, TypeOK, StageInv, TornBy, Asking, At, OnlyTornIsPartial
<1>3. CASE UNCHANGED vars
  BY <1>3 DEF vars, AtomicInv, TypeOK, StageInv, TornBy, Asking, At, OnlyTornIsPartial
<1> QED BY <1>1, <1>2, <1>3 DEF Next

\* The variables keep their types in every behaviour.
THEOREM TypeCorrect == Spec => []TypeOK
<1>1. AtomicInv => TypeOK BY DEF AtomicInv
<1> QED BY InitAtomic, NextAtomic, <1>1, PTL DEF Spec

\* No failed or killed installation ever leads to a part of an image in the cache, for every
\* set of workspaces and of faults: only a download from the mirror or a failing tar leaves
\* something there that is not whole, and then an archive that is torn.
THEOREM PartsStayOut == Spec => []OnlyTornIsPartial
<1>1. AtomicInv => OnlyTornIsPartial BY DEF AtomicInv
<1> QED BY InitAtomic, NextAtomic, <1>1, PTL DEF Spec

\* The names of the cache files are true.
NamesTrue == \A f \in cache : f.img.ver = f.key.src

\* A step of the scripts keeps key and image of the build on the current
\* sources and the names of the cache files true.
LEMMA StepNames ==
  ASSUME NamesInv, NEW w \in Workspaces, Step(w)
  PROVE  FreshInv(w)' /\ NamesTrue'
<1>a. TypeOK /\ StageInv(w) /\ FreshInv(w) /\ NamesTrue
  BY DEF NamesInv, AtomicInv, NamesTrue
<1> USE <1>a, ConstantsAssumption
    DEF TypeOK, StageInv, FreshInv, IsWhole, TornBy, Asking, Locs, Rest, Modes, GoTo, At, PlainKey, disk
<1>1. CASE CheckForced(w) BY <1>1 DEF CheckForced, Unmatched, NamesTrue
<1>2. CASE CheckSum(w) BY <1>2 DEF CheckSum, NamesTrue
<1>3. CASE CheckError(w) BY <1>3 DEF CheckError, NamesTrue
<1>4. CASE LookupHit(w) BY <1>4 DEF LookupHit, Matched, NamesTrue
<1>5. CASE LookupMiss(w) BY <1>5 DEF LookupMiss, Unmatched, NamesTrue
<1>6. CASE PullKeeps(w) BY <1>6 DEF PullKeeps, NamesTrue
<1>7. CASE PullError(w) BY <1>7 DEF PullError, NamesTrue
<1>8. CASE PullUntars(w) BY <1>8 DEF PullUntars, Named, NamesTrue
<1>9. CASE Untarred(w) BY <1>9 DEF Untarred, NamesTrue
<1>10. CASE ConfigureFails(w) BY <1>10 DEF ConfigureFails, NamesTrue
<1>11. CASE RemoveImage(w) BY <1>11 DEF RemoveImage, NamesTrue
<1>12. CASE MakeRuns(w) BY <1>12 DEF MakeRuns, NamesTrue, Whole, Part
<1>13. CASE MakeFails(w) BY <1>13 DEF MakeFails, Compiled, NamesTrue
<1>14. CASE InstallEnds(w) BY <1>14 DEF InstallEnds, Compiled, NamesTrue
<1>15. CASE InstallFails(w) BY <1>15 DEF InstallFails, NamesTrue
<1>16. CASE PushNoImage(w) BY <1>16 DEF PushNoImage, NamesTrue
<1>17. CASE PushSums(w) BY <1>17 DEF PushSums, NamesTrue
<1>18. CASE PushSumError(w) BY <1>18 DEF PushSumError, NamesTrue
<1>19. CASE PushTars(w) BY <1>19 DEF PushTars, NamesTrue
<1>20. CASE CurlOpens(w)
  <2>1. NamesTrue' BY <1>20 DEF CurlOpens, NamesTrue, Named, Torn
  <2> QED BY <1>20, <2>1 DEF CurlOpens
<1>21. CASE CurlEnds(w)
  <2>1. NamesTrue' BY <1>21 DEF CurlEnds, Open, Closed, NamesTrue, Whole
  <2> QED BY <1>21, <2>1 DEF CurlEnds, Matched
<1>22. CASE CurlBreaks(w)
  <2>1. NamesTrue' BY <1>22 DEF CurlBreaks, Open, Closed, NamesTrue
  <2> QED BY <1>22, <2>1 DEF CurlBreaks, Unmatched
<1>23. CASE PushDeletes(w) BY <1>23 DEF PushDeletes, NamesTrue
<1>24. CASE PushMoves(w)
  <2>1. sum[w].src = buf[w].ver BY <1>24 DEF PushMoves
  <2>2. NamesTrue' BY <1>24, <2>1 DEF PushMoves, Named, NamesTrue
  <2> QED BY <1>24, <2>2 DEF PushMoves
<1>25. CASE LookupMirror(w) BY <1>25 DEF LookupMirror, NamesTrue
<1>26. CASE MirrorClears(w) BY <1>26 DEF MirrorClears, NamesTrue
<1>27. CASE PushTarFails(w) BY <1>27 DEF PushTarFails, NamesTrue, Torn
<1>28. CASE PushMovesNothing(w) BY <1>28 DEF PushMovesNothing, NamesTrue
<1> QED BY <1>1, <1>2, <1>3, <1>4, <1>5, <1>6, <1>7, <1>8, <1>9, <1>10, <1>11, <1>12, <1>13, <1>14, <1>15, <1>16, <1>17, <1>18, <1>19, <1>20, <1>21, <1>22, <1>23, <1>24, <1>25, <1>26, <1>27, <1>28 DEF Step

LEMMA UserNames ==
  ASSUME NamesInv, NEW w \in Workspaces, User(w)
  PROVE  FreshInv(w)' /\ NamesTrue' /\ src' = src
<1>a. TypeOK /\ StageInv(w) /\ FreshInv(w) /\ NamesTrue
  BY DEF NamesInv, AtomicInv, NamesTrue
<1> USE <1>a DEF TypeOK, StageInv, FreshInv, Asking, Rest, Modes, GoTo, At, disk
<1>1. CASE Kill(w)
  <2>1. NamesTrue' BY <1>1 DEF Kill, Open, Closed, NamesTrue
  <2> QED BY <1>1, <2>1 DEF Kill
<1>2. ASSUME NEW m \in Modes, Start(w, m) PROVE FreshInv(w)' /\ NamesTrue' /\ src' = src
  BY <1>2 DEF Start, NamesTrue
<1>3. CASE UnsetForce(w) BY <1>3 DEF UnsetForce, NamesTrue
<1>4. CASE Clean(w) BY <1>4 DEF Clean, NamesTrue
<1>5. ASSUME NEW f \in {"always", "once"}, SetForce(w, f)
      PROVE  FreshInv(w)' /\ NamesTrue' /\ src' = src
  BY <1>5 DEF SetForce, NamesTrue
<1> QED BY <1>1, <1>2, <1>3, <1>4, <1>5 DEF User

LEMMA StepKeepsSources ==
  ASSUME NEW w \in Workspaces, Step(w) PROVE src' = src
BY DEF Step, disk, CheckForced, CheckSum, CheckError, LookupHit, LookupMiss, PullKeeps, PullError, PullUntars, Untarred, ConfigureFails, RemoveImage, MakeRuns, MakeFails, InstallEnds, InstallFails, PushNoImage, PushSums, PushSumError, PushTars, PushTarFails, PushMovesNothing, PushDeletes, PushMoves, LookupMirror, MirrorClears, CurlOpens, CurlEnds, CurlBreaks

\* NamesInv is inductive when no edit happens under a running build: an edit
\* finds every workspace at rest, where FreshInv says nothing.
LEMMA NextNames ==
  ASSUME "edit" \notin Faults
  PROVE  NamesInv /\ [Next]_vars => NamesInv'
<1> SUFFICES ASSUME NamesInv, [Next]_vars PROVE NamesInv'
  OBVIOUS
<1>0. AtomicInv' BY NextAtomic DEF NamesInv
<1>1. ASSUME NEW w \in Workspaces, Step(w) \/ User(w) PROVE NamesInv'
  <2>1. FreshInv(w)' /\ NamesTrue' /\ src' = src
    BY <1>1, StepNames, UserNames, StepKeepsSources
  <2>2. ASSUME NEW u \in Workspaces, u # w PROVE FreshInv(u)'
    <3>1. Same(u) BY <1>1, <2>2, Locality DEF NamesInv, AtomicInv
    <3>2. FreshInv(u) BY DEF NamesInv
    <3> QED BY <2>1, <3>1, <3>2 DEF Same, FreshInv, Asking, At
  <2> QED BY <1>0, <2>1, <2>2 DEF NamesInv, NamesTrue
<1>2. ASSUME NEW v \in Versions, Edit(v) PROVE NamesInv'
  <2>1. \A w \in Workspaces : FreshInv(w)'
    BY <1>2 DEF Edit, disk, FreshInv, Asking, At, Rest
  <2>2. UNCHANGED cache BY <1>2 DEF Edit, disk
  <2> QED BY <1>0, <2>1, <2>2 DEF NamesInv
<1>3. CASE UNCHANGED vars
  BY <1>0, <1>3 DEF vars, NamesInv, FreshInv, Asking, At
<1> QED BY <1>1, <1>2, <1>3 DEF Next

\* Whatever is killed or fails, and however the workspaces interleave, a
\* complete cache file holds a build of the version in its name, provided
\* that nobody edits the sources under a running build.
THEOREM CacheNamesTrue == "edit" \notin Faults => (Spec => []TrueNames)
<1> SUFFICES ASSUME "edit" \notin Faults PROVE Spec => []TrueNames
  OBVIOUS
<1>1. Init => NamesInv
  BY InitAtomic DEF Init, NamesInv, FreshInv, Asking, At
<1>2. NamesInv /\ [Next]_vars => NamesInv' BY NextNames
<1>3. NamesInv => TrueNames BY DEF NamesInv, TrueNames
<1> QED BY <1>1, <1>2, <1>3, PTL DEF Spec

\* A step of the scripts keeps ForceInv of its workspace, and the force files of the others.
LEMMA StepForce ==
  ASSUME HonourInv, NEW w \in Workspaces, Step(w)
  PROVE  /\ ForceInv(w)'
         /\ \A u \in Workspaces : u # w => force'[u] = force[u]
<1>a. TypeOK /\ StageInv(w) /\ ForceInv(w) BY DEF HonourInv, AtomicInv
<1> USE <1>a, ConstantsAssumption
    DEF TypeOK, StageInv, ForceInv, Asking, Locs, Rest, Modes, GoTo, At, disk
<1>1. CASE CheckForced(w) BY <1>1 DEF CheckForced, Unmatched
<1>2. CASE CheckSum(w) BY <1>2 DEF CheckSum
<1>3. CASE CheckError(w) BY <1>3 DEF CheckError
<1>4. CASE LookupHit(w) BY <1>4 DEF LookupHit, Matched
<1>5. CASE LookupMiss(w) BY <1>5 DEF LookupMiss, Unmatched
<1>6. CASE LookupMirror(w) BY <1>6 DEF LookupMirror
<1>7. CASE CurlEnds(w) BY <1>7 DEF CurlEnds, Matched
<1>8. CASE CurlBreaks(w) BY <1>8 DEF CurlBreaks, Unmatched
<1>9. CASE PullKeeps(w) BY <1>9 DEF PullKeeps
<1>10. CASE PullUntars(w) BY <1>10 DEF PullUntars
<1>11. CASE PullError(w) BY <1>11 DEF PullError
<1>12. CASE Untarred(w) BY <1>12 DEF Untarred
<1>13. CASE ConfigureFails(w) BY <1>13 DEF ConfigureFails
<1>14. CASE RemoveImage(w) BY <1>14 DEF RemoveImage
<1>15. CASE MakeRuns(w) BY <1>15 DEF MakeRuns
<1>16. CASE MakeFails(w) BY <1>16 DEF MakeFails, Compiled
<1>17. CASE InstallEnds(w) BY <1>17 DEF InstallEnds, Compiled
<1>18. CASE InstallFails(w) BY <1>18 DEF InstallFails
<1>19. CASE PushNoImage(w) BY <1>19 DEF PushNoImage
<1>20. CASE PushSums(w) BY <1>20 DEF PushSums
<1>21. CASE PushSumError(w) BY <1>21 DEF PushSumError
<1>22. CASE PushTars(w) BY <1>22 DEF PushTars
<1>23. CASE PushDeletes(w) BY <1>23 DEF PushDeletes
<1>24. CASE PushMoves(w) BY <1>24 DEF PushMoves
<1>25. CASE MirrorClears(w) BY <1>25 DEF MirrorClears
<1>26. CASE CurlOpens(w) BY <1>26 DEF CurlOpens
<1>27. CASE PushTarFails(w) BY <1>27 DEF PushTarFails
<1>28. CASE PushMovesNothing(w) BY <1>28 DEF PushMovesNothing
<1> QED BY <1>1, <1>2, <1>3, <1>4, <1>5, <1>6, <1>7, <1>8, <1>9, <1>10, <1>11, <1>12, <1>13, <1>14, <1>15, <1>16, <1>17, <1>18, <1>19, <1>20, <1>21, <1>22, <1>23, <1>24, <1>25, <1>26, <1>27, <1>28 DEF Step

\* So does a user, who touches a force file only between two builds.
LEMMA UserForce ==
  ASSUME HonourInv, NEW w \in Workspaces, User(w)
  PROVE  /\ ForceInv(w)'
         /\ \A u \in Workspaces : u # w => force'[u] = force[u]
<1>a. TypeOK /\ StageInv(w) /\ ForceInv(w) BY DEF HonourInv, AtomicInv
<1> USE <1>a DEF TypeOK, StageInv, ForceInv, Asking, Rest, Modes, GoTo, At, disk
<1> DEFINE Good == /\ ForceInv(w)'
                   /\ \A u \in Workspaces : u # w => force'[u] = force[u]
<1>1. ASSUME NEW m \in Modes, Start(w, m) PROVE Good BY <1>1 DEF Start
<1>2. ASSUME NEW f \in {"always", "once"}, SetForce(w, f) PROVE Good BY <1>2 DEF SetForce
<1>3. CASE UnsetForce(w) BY <1>3 DEF UnsetForce
<1>4. CASE Clean(w) BY <1>4 DEF Clean
<1>5. CASE Kill(w) BY <1>5 DEF Kill
<1> QED BY <1>1, <1>2, <1>3, <1>4, <1>5 DEF User

LEMMA NextForce == HonourInv /\ [Next]_vars => HonourInv'
<1> SUFFICES ASSUME HonourInv, [Next]_vars PROVE HonourInv'
  OBVIOUS
<1>0. AtomicInv' BY NextAtomic DEF HonourInv
<1>1. ASSUME NEW w \in Workspaces, Step(w) \/ User(w) PROVE HonourInv'
  <2>1. /\ ForceInv(w)'
        /\ \A u \in Workspaces : u # w => force'[u] = force[u]
    BY <1>1, StepForce, UserForce
  <2>2. ASSUME NEW u \in Workspaces, u # w PROVE ForceInv(u)'
    <3>1. Same(u) BY <1>1, <2>2, Locality DEF HonourInv, AtomicInv
    <3>2. ForceInv(u) BY DEF HonourInv
    <3> QED BY <2>1, <2>2, <3>1, <3>2 DEF Same, ForceInv, Asking, At
  <2> QED BY <1>0, <2>1, <2>2 DEF HonourInv
<1>2. ASSUME NEW v \in Versions, Edit(v) PROVE HonourInv'
  BY <1>0, <1>2 DEF Edit, disk, HonourInv, ForceInv, Asking, At
<1>3. CASE UNCHANGED vars
  BY <1>0, <1>3 DEF vars, HonourInv, ForceInv, Asking, At
<1> QED BY <1>1, <1>2, <1>3 DEF Next

\* A force file is honoured and a one-time force file spent, whatever is killed, fails or
\* is edited, for every set of workspaces and versions.
THEOREM ForceIsHonoured == Spec => []ForceHonoured
<1>1. Init => HonourInv
  BY InitAtomic DEF Init, HonourInv, ForceInv, Asking, At
<1>2. HonourInv => ForceHonoured BY DEF HonourInv, AtomicInv, TypeOK, ForceInv, Asking, ForceHonoured
<1> QED BY <1>1, <1>2, NextForce, PTL DEF Spec
-----------------------------------------------------------------------------
(* Several workspaces: what a build takes from the others.                 *)

TornFor(img, k) ==
  img.state = "torn" /\ (k \in {PlainKey(v) : v \in Mirror} \/ "tar" \in Faults)

\* The image of w belongs to its checksum, and is whole unless it was unpacked from a torn
\* archive, which only a mirror or a failing tar can have left.
OfItsSum(w) ==
  /\ sum[w] # Absent /\ ins[w] # Absent
  /\ ins[w].ver = sum[w].src
  /\ IsWhole(ins[w]) \/ TornFor(ins[w], sum[w])

\* A build that ends well has kept the image directory that was there, unseen (pull_cache),
\* or has unpacked or pushed an image that belongs to its checksum.
KeptOrOfItsSum ==
  \A w \in Workspaces :
    mode[w] = "cachebuild" /\ ~ At(w, "done") /\ At(w, "done")' =>
      (At(w, "pull") /\ ins[w] # Absent /\ ins'[w] = ins[w]) \/ OfItsSum(w)'

\* What tar unpacks belongs to the checksum.
TakenInv(w) ==
  /\ At(w, "untar") => /\ sum[w] # Absent /\ buf[w] # Absent /\ buf[w].ver = sum[w].src
                       /\ IsWhole(buf[w]) \/ TornFor(buf[w], sum[w])

SharedInv == NamesInv /\ \A w \in Workspaces : TakenInv(w)

\* A step of the scripts keeps TakenInv of its workspace.
LEMMA StepTaken ==
  ASSUME SharedInv, NEW w \in Workspaces, Step(w)
  PROVE  TakenInv(w)'
<1>a. TypeOK /\ StageInv(w) /\ OnlyTornIsPartial /\ NamesTrue /\ TakenInv(w)
  BY DEF SharedInv, NamesInv, AtomicInv, NamesTrue
<1>b. \A f \in cache : f.key \in Keys /\ f.img \in Images /\ f.key # Absent /\ f.img # Absent
  BY <1>a, ConstantsAssumption DEF TypeOK, Files
<1> USE <1>a, <1>b DEF TypeOK, StageInv, TakenInv, Rest, GoTo, At, disk
<1>1. CASE CheckForced(w) BY <1>1 DEF CheckForced, Unmatched
<1>2. CASE CheckSum(w) BY <1>2 DEF CheckSum
<1>3. CASE CheckError(w) BY <1>3 DEF CheckError
<1>4. CASE LookupHit(w) BY <1>4 DEF LookupHit, Matched
<1>5. CASE LookupMiss(w) BY <1>5 DEF LookupMiss, Unmatched
<1>6. CASE LookupMirror(w) BY <1>6 DEF LookupMirror
<1>7. CASE CurlEnds(w) BY <1>7 DEF CurlEnds, Matched
<1>8. CASE CurlBreaks(w) BY <1>8 DEF CurlBreaks, Unmatched
<1>9. CASE PullKeeps(w) BY <1>9 DEF PullKeeps
<1>10. CASE PullUntars(w)
  <2>1. PICK f \in cache : f.key = sum[w] /\ buf' = [buf EXCEPT ![w] = f.img]
    BY <1>10 DEF PullUntars, Named
  <2>2. /\ sum[w] # Absent /\ f.img # Absent /\ f.img.ver = sum[w].src
        /\ IsWhole(f.img) \/ TornFor(f.img, sum[w])
    BY <2>1 DEF Files, NamesTrue, OnlyTornIsPartial, TornFor
  <2>3. pc'[w] = "untar" /\ sum' = sum
    BY <1>10 DEF PullUntars
  <2>4. buf'[w] = f.img
    BY <2>1
  <2> QED BY <2>2, <2>3, <2>4
<1>11. CASE PullError(w) BY <1>11 DEF PullError
<1>12. CASE Untarred(w) BY <1>12 DEF Untarred
<1>13. CASE ConfigureFails(w) BY <1>13 DEF ConfigureFails
<1>14. CASE RemoveImage(w) BY <1>14 DEF RemoveImage
<1>15. CASE MakeRuns(w) BY <1>15 DEF MakeRuns
<1>16. CASE MakeFails(w) BY <1>16 DEF MakeFails, Compiled
<1>17. CASE InstallEnds(w) BY <1>17 DEF InstallEnds, Compiled
<1>18. CASE InstallFails(w) BY <1>18 DEF InstallFails
<1>19. CASE PushNoImage(w) BY <1>19 DEF PushNoImage
<1>20. CASE PushSums(w) BY <1>20 DEF PushSums
<1>21. CASE PushSumError(w) BY <1>21 DEF PushSumError
<1>22. CASE PushTars(w) BY <1>22 DEF PushTars
<1>23. CASE PushDeletes(w) BY <1>23 DEF PushDeletes
<1>24. CASE PushMoves(w) BY <1>24 DEF PushMoves
<1>25. CASE MirrorClears(w) BY <1>25 DEF MirrorClears
<1>26. CASE CurlOpens(w) BY <1>26 DEF CurlOpens
<1>27. CASE PushTarFails(w) BY <1>27 DEF PushTarFails
<1>28. CASE PushMovesNothing(w) BY <1>28 DEF PushMovesNothing
<1> QED BY <1>1, <1>2, <1>3, <1>4, <1>5, <1>6, <1>7, <1>8, <1>9, <1>10, <1>11, <1>12, <1>13, <1>14, <1>15, <1>16, <1>17, <1>18, <1>19, <1>20, <1>21, <1>22, <1>23, <1>24, <1>25, <1>26, <1>27, <1>28 DEF Step

\* SharedInv is inductive when no edit happens under a running build.
LEMMA NextShared ==
  ASSUME "edit" \notin Faults
  PROVE  SharedInv /\ [Next]_vars => SharedInv'
<1> SUFFICES ASSUME SharedInv, [Next]_vars PROVE SharedInv'
  OBVIOUS
<1>0. NamesInv' /\ TypeOK
  BY NextNames DEF SharedInv, NamesInv, AtomicInv
<1>1. ASSUME NEW w \in Workspaces, Step(w) \/ User(w) PROVE SharedInv'
  <2>1. ASSUME User(w) PROVE TakenInv(w)'
    <3>1. pc'[w] \in {"idle", "check", "compile"}
      BY <1>0, <2>1 DEF User, Start, SetForce, UnsetForce, Clean, Kill, TypeOK, GoTo
    <3> QED BY <3>1 DEF TakenInv, At
  <2>2. ASSUME NEW u \in Workspaces, u # w PROVE TakenInv(u)'
    <3>1. Same(u) BY <1>0, <1>1, <2>2, Locality
    <3>2. TakenInv(u) BY DEF SharedInv
    <3> QED BY <3>1, <3>2 DEF Same, TakenInv, At
  <2>3. TakenInv(w)'
    BY <1>1, <2>1, StepTaken
  <2> QED BY <1>0, <2>2, <2>3 DEF SharedInv
<1>2. ASSUME NEW v \in Versions, Edit(v) PROVE SharedInv'
  BY <1>0, <1>2 DEF Edit, disk, SharedInv, TakenInv, At
<1>3. CASE UNCHANGED vars
  BY <1>0, <1>3 DEF vars, SharedInv, TakenInv, At
<1> QED BY <1>1, <1>2, <1>3 DEF Next

\* The ways to end well.
LEMMA StepEndsWell ==
  ASSUME SharedInv, NEW w \in Workspaces, Step(w), At(w, "done")', mode[w] = "cachebuild"
  PROVE  PullKeeps(w) \/ Untarred(w) \/ PushMoves(w) \/ PushMovesNothing(w)
<1>a. TypeOK
  BY DEF SharedInv, NamesInv, AtomicInv
<1> QED BY <1>a DEF Step, At, GoTo, TypeOK, Unmatched, Matched, Compiled, CheckForced, CheckSum,
     CheckError, LookupHit, LookupMiss, PullError, PullUntars, ConfigureFails, RemoveImage, MakeRuns,
     MakeFails, InstallEnds, InstallFails, PushNoImage, PushSums, PushSumError, PushTars, PushTarFails, PushDeletes,
     PushMovesNothing, LookupMirror, MirrorClears, CurlOpens, CurlEnds, CurlBreaks

\* However many workspaces share the cache directory, and whatever is killed or fails, a
\* build that unpacks a file or pushes one has an image of the version its checksum names,
\* and a whole one unless it unpacked a torn archive; an image of another version is
\* delivered only when its directory was there already. So the stale image that the run
\* cache_stale shows has no other cause.
THEOREM OnlyKeptIsStale == "edit" \notin Faults => (Spec => [][KeptOrOfItsSum]_vars)
<1> SUFFICES ASSUME "edit" \notin Faults PROVE Spec => [][KeptOrOfItsSum]_vars
  OBVIOUS
<1>1. Init => SharedInv
  BY InitAtomic DEF Init, SharedInv, NamesInv, FreshInv, Asking, TakenInv, At
<1>2. SharedInv /\ [Next]_vars => SharedInv'
  BY NextShared
<1>3. SharedInv /\ [Next]_vars => [KeptOrOfItsSum]_vars
  <2> SUFFICES ASSUME SharedInv, Next, NEW w \in Workspaces,
                      mode[w] = "cachebuild", ~ At(w, "done"), At(w, "done")'
               PROVE  (At(w, "pull") /\ ins[w] # Absent /\ ins'[w] = ins[w]) \/ OfItsSum(w)'
    BY DEF KeptOrOfItsSum
  <2>a. TypeOK /\ StageInv(w) /\ FreshInv(w) /\ TakenInv(w)
    BY DEF SharedInv, NamesInv, AtomicInv
  <2>1. Step(w)
    <3>1. ASSUME NEW v \in Versions, Edit(v) PROVE FALSE
      BY <3>1 DEF Edit, At
    <3>2. ASSUME NEW u \in Workspaces, u # w, Step(u) \/ User(u) PROVE FALSE
      BY <2>a, <3>2, Locality DEF Same, At
    <3>3. ASSUME User(w) PROVE FALSE
      BY <2>a, <3>3 DEF User, Start, SetForce, UnsetForce, Clean, Kill, TypeOK, GoTo, At
    <3> QED BY <3>1, <3>2, <3>3 DEF Next
  <2>2. CASE PullKeeps(w)
    BY <2>2 DEF PullKeeps, disk, At
  <2>3. CASE Untarred(w)
    <3>1. ins'[w] = buf[w] /\ sum'[w] = sum[w] /\ At(w, "untar")
      BY <2>a, <2>3 DEF Untarred, TypeOK
    <3> QED BY <2>a, <3>1 DEF OfItsSum, TakenInv
  <2>4. CASE PushMoves(w) \/ PushMovesNothing(w)
    <3>1. ins'[w] = ins[w] /\ sum'[w] = sum[w] /\ At(w, "deleted")
      BY <2>a, <2>4 DEF PushMoves, PushMovesNothing, disk
    <3> QED BY <2>a, <3>1 DEF OfItsSum, StageInv, FreshInv, IsWhole, At
  <2> QED BY <2>1, <2>2, <2>3, <2>4, StepEndsWell
<1> QED BY <1>1, <1>2, <1>3, PTL DEF Spec
-----------------------------------------------------------------------------
(* One workspace that nothing disturbs: what the cache delivers.           *)

Alone == Faults = {} /\ \A u, w \in Workspaces : u = w

\* The cache has at most one file, and an image that a build has left is the one in it.
AloneInv(w) ==
  /\ mode[w] # "srcbuild"
  /\ \A f, g \in cache : f = g
  /\ \A f \in cache : IF At(w, "curl") THEN f.by = w /\ f.key = sum[w] ELSE IsWhole(f.img)
  /\ At(w, "curl") => ins[w] = Absent /\ sum[w] # Absent /\ cache # {}
  /\ pc[w] \in Rest \cup {"check", "lookup", "mirror", "pull", "compile"} /\ ins[w] # Absent
       => IsWhole(ins[w]) /\ \A f \in cache : f.img = ins[w]
  /\ Asking(w) \/ pc[w] \in {"curl", "pull", "untar"} => sum[w] # Absent /\ sum[w].src = src
  /\ At(w, "fetch") => ins[w] = Absent /\ cache = {}
  /\ At(w, "pull") => Named(sum[w]) # {}
  /\ At(w, "untar") => buf[w] = Whole(src) /\ \A f \in cache : f.img = buf[w]
  /\ pc[w] \in {"tarred", "deleted"} => ins[w] = buf[w]
  /\ At(w, "deleted") => cache = {}
  /\ At(w, "done") => sum[w] # Absent /\ ins[w] = Whole(sum[w].src)

SoundInv == NamesInv /\ \A w \in Workspaces : AloneInv(w)

\* A step of the scripts keeps AloneInv.
LEMMA StepAlone ==
  ASSUME Alone, SoundInv, NEW w \in Workspaces, Step(w)
  PROVE  AloneInv(w)'
<1>a. TypeOK /\ StageInv(w) /\ FreshInv(w) /\ NamesTrue /\ AloneInv(w) /\ Faults = {}
  BY DEF SoundInv, NamesInv, AtomicInv, NamesTrue, Alone
<1>b. \A v : /\ Whole(v).ver = v /\ Whole(v).state = "whole" /\ Torn(v).ver = v
             /\ PlainKey(v).src = v
  BY DEF Whole, Torn, PlainKey
<1>c. /\ \A k \in Keys : k # Absent /\ k.src \in Versions
      /\ \A i \in Images : i # Absent /\ (i.state = "whole" => i = Whole(i.ver))
      /\ \A v \in Versions : Whole(v) \in Images /\ Torn(v) \in Images /\ PlainKey(v) \in Keys
  BY ConstantsAssumption DEF Keys, Images, States, Whole, Torn, PlainKey, Marks
<1>d. \A f \in cache : f.key \in Keys /\ f.img \in Images
  BY <1>a DEF TypeOK, Files
<1> USE <1>a, <1>b, <1>c, <1>d
    DEF TypeOK, StageInv, FreshInv, NamesTrue, AloneInv, IsWhole, TornBy, Asking, Rest, GoTo, At, Named,
        disk
<1>1. CASE CheckForced(w) BY <1>1 DEF CheckForced, Unmatched
<1>2. CASE CheckSum(w) BY <1>2 DEF CheckSum
<1>3. CASE CheckError(w) BY <1>3 DEF CheckError
<1>4. CASE LookupHit(w)
  <2>1. /\ pc' = [pc EXCEPT ![w] = IF mode[w] = "psysroot" THEN "idle" ELSE "pull"]
        /\ UNCHANGED <<src, mode, buf, cache, ins, sum>>
        /\ Named(sum[w]) # {} /\ sum[w] # Absent
    BY <1>4 DEF LookupHit, Matched
  <2>2. CASE mode[w] = "psysroot" BY <2>1, <2>2, <1>4 DEF LookupHit
  <2>3. CASE mode[w] = "cachebuild" BY <2>1, <2>3, <1>4 DEF LookupHit
  <2> QED BY <2>2, <2>3 DEF Modes
<1>5. CASE CurlOpens(w)
  <2> DEFINE f == [key |-> sum[w], img |-> Torn(sum[w].src), by |-> w]
  <2>1. /\ cache' = {f} /\ f.key = sum[w] /\ f.img = Torn(sum[w].src) /\ f.by = w
        /\ sum[w] # Absent /\ pc[w] = "fetch" /\ pc'[w] = "curl" /\ ins'[w] = Absent
        /\ UNCHANGED <<src, mode, sum>>
    BY <1>5 DEF CurlOpens
  <2> HIDE DEF f
  <2>2. sum[w].src = src BY <2>1
  <2> QED BY <2>1, <2>2
<1>6. CASE LookupMiss(w) BY <1>6 DEF LookupMiss, Unmatched
<1>7. CASE CurlEnds(w)
  <2>1. PICK f \in cache : cache = {f} /\ f.by = w /\ f.key = sum[w]
    BY <1>7 DEF CurlEnds
  <2> DEFINE g == Closed(f, Whole(f.img.ver))
  <2>2. cache' = {g} /\ g.key = sum[w] /\ g.img = Whole(f.img.ver)
    BY <1>7, <2>1 DEF CurlEnds, Open, Closed
  <2> HIDE DEF g
  <2>3. /\ pc[w] = "curl" /\ pc'[w] \in {"idle", "pull"}
        /\ ins[w] = Absent /\ UNCHANGED <<src, mode, ins, sum, buf>>
    BY <1>7 DEF CurlEnds, Matched
  <2> QED BY <2>2, <2>3
<1>8. CASE CurlBreaks(w) BY <1>8 DEF CurlBreaks
<1>9. CASE PullKeeps(w) BY <1>9 DEF PullKeeps
<1>10. CASE PullUntars(w) BY <1>10 DEF PullUntars
<1>11. CASE PullError(w) BY <1>11 DEF PullError
<1>12. CASE Untarred(w) BY <1>12 DEF Untarred
<1>13. CASE ConfigureFails(w) BY <1>13 DEF ConfigureFails
<1>14. CASE RemoveImage(w) BY <1>14 DEF RemoveImage
<1>15. CASE MakeRuns(w) BY <1>15 DEF MakeRuns
<1>16. CASE MakeFails(w) BY <1>16 DEF MakeFails, Compiled
<1>17. CASE InstallEnds(w) BY <1>17 DEF InstallEnds, Compiled
<1>18. CASE InstallFails(w) BY <1>18 DEF InstallFails
<1>19. CASE PushNoImage(w) BY <1>19 DEF PushNoImage
<1>20. CASE PushSums(w) BY <1>20 DEF PushSums
<1>21. CASE PushSumError(w) BY <1>21 DEF PushSumError
<1>22. CASE PushTars(w) BY <1>22 DEF PushTars
<1>23. CASE PushDeletes(w) BY <1>23 DEF PushDeletes
<1>24. CASE PushMoves(w) BY <1>24 DEF PushMoves
<1>25. CASE LookupMirror(w) BY <1>25 DEF LookupMirror
<1>26. CASE MirrorClears(w) BY <1>26 DEF MirrorClears
<1>27. CASE PushTarFails(w) BY <1>27 DEF PushTarFails
<1>28. CASE PushMovesNothing(w) BY <1>28 DEF PushMovesNothing
<1> QED BY <1>1, <1>2, <1>3, <1>4, <1>5, <1>6, <1>7, <1>8, <1>9, <1>10, <1>11, <1>12, <1>13, <1>14, <1>15, <1>16, <1>17, <1>18, <1>19, <1>20, <1>21, <1>22, <1>23, <1>24, <1>25, <1>26, <1>27, <1>28 DEF Step

LEMMA NextAlone ==
  ASSUME Alone
  PROVE  SoundInv /\ [Next]_vars => SoundInv'
<1> SUFFICES ASSUME SoundInv, [Next]_vars PROVE SoundInv'
  OBVIOUS
<1>1. NamesInv'
  BY NextNames DEF SoundInv, Alone
<1>2. ASSUME NEW w \in Workspaces, Step(w) PROVE SoundInv'
  BY <1>1, <1>2, StepAlone DEF SoundInv, Alone
<1>3. ASSUME NEW w \in Workspaces, User(w) PROVE SoundInv'
  <2>a. TypeOK /\ AloneInv(w) /\ \A u \in Workspaces : u = w
    BY DEF SoundInv, NamesInv, AtomicInv, Alone
  <2> USE DEF TypeOK, AloneInv, Asking, At, GoTo, Rest, Named, disk
  <2>1. ASSUME NEW m \in Modes, Start(w, m) PROVE AloneInv(w)'
    BY <2>a, <2>1 DEF Start, Alone
  <2>2. ASSUME NEW f \in {"always", "once"}, SetForce(w, f) PROVE AloneInv(w)'
    BY <2>a, <2>2 DEF SetForce
  <2>3. ASSUME UnsetForce(w) \/ Clean(w) PROVE AloneInv(w)'
    BY <2>a, <2>3 DEF UnsetForce, Clean
  <2>4. ~ Kill(w)
    BY DEF Kill, Alone
  <2>5. AloneInv(w)'
    BY <1>3, <2>1, <2>2, <2>3, <2>4 DEF User
  <2> QED BY <1>1, <2>a, <2>5 DEF SoundInv
<1>4. ASSUME NEW v \in Versions, Edit(v) PROVE SoundInv'
  <2>1. ASSUME NEW w \in Workspaces PROVE AloneInv(w)'
    <3>1. pc[w] \in Rest /\ UNCHANGED <<pc, mode, buf, disk>> /\ AloneInv(w)
      BY <1>4 DEF Edit, Alone, SoundInv
    <3> QED BY <3>1 DEF AloneInv, Asking, At, Named, Rest, disk
  <2> QED BY <1>1, <2>1 DEF SoundInv
<1>5. CASE UNCHANGED vars
  BY <1>1, <1>5 DEF vars, SoundInv, AloneInv, Asking, At, Named
<1> QED BY <1>2, <1>3, <1>4, <1>5 DEF Next

LEMMA InitAlone == ASSUME Alone PROVE Init => SoundInv
BY InitAtomic DEF Init, SoundInv, NamesInv, FreshInv, AloneInv, Asking, At, Rest

\* Where one workspace has the cache directory for itself and nothing breaks off, a build
\* that ends well leaves the complete image its checksum names, for every set of versions
\* and every mirror: compiled, pulled, downloaded or left from an earlier build.
THEOREM ImageIsSound == Alone => (Spec => []SoundImage)
<1> SUFFICES ASSUME Alone PROVE Spec => []SoundImage
  OBVIOUS
<1>1. SoundInv => SoundImage BY DEF SoundInv, AloneInv, SoundImage
<1> QED BY InitAlone, NextAlone, <1>1, PTL DEF Spec
-----------------------------------------------------------------------------
(* The refinement, step by step: the steps of a build in progress stutter.  *)

\* A step of the only workspace, seen from outside.
LEMMA Seen ==
  ASSUME Alone, NEW w \in Workspaces, NEW st, NEW i,
         Status(w)' = st, Delivered(w)' = i, src' = src
  PROVE  Promise!Become(w, st, i)
<1>1. [u \in Workspaces |-> Status(u)]' = [[u \in Workspaces |-> Status(u)] EXCEPT ![w] = st]
  BY DEF Alone
<1>2. [u \in Workspaces |-> Delivered(u)]' = [[u \in Workspaces |-> Delivered(u)] EXCEPT ![w] = i]
  BY DEF Alone
<1> QED BY <1>1, <1>2 DEF Promise!Become

\* A build ends well by keeping or unpacking an image or by a push, and then it has
\* the image of the sources as they are.
LEMMA StepDelivers ==
  ASSUME Alone, SoundInv, NEW w \in Workspaces, Step(w), At(w, "done")'
  PROVE  ins'[w] = Whole(src)
<1>a. TypeOK /\ StageInv(w) /\ FreshInv(w) /\ AloneInv(w)
  BY DEF SoundInv, NamesInv, AtomicInv
<1>1. PullKeeps(w) \/ Untarred(w) \/ PushMoves(w) \/ PushMovesNothing(w)
  BY <1>a DEF Step, At, GoTo, TypeOK, AloneInv, Unmatched, Matched, Compiled, CheckForced, CheckSum,
     CheckError, LookupHit, LookupMiss, PullError, PullUntars, ConfigureFails, RemoveImage, MakeRuns,
     MakeFails, InstallEnds, InstallFails, PushNoImage, PushSums, PushSumError, PushTars, PushTarFails, PushDeletes,
     PushMovesNothing, LookupMirror, MirrorClears, CurlOpens, CurlEnds, CurlBreaks
<1>2. sum'[w] = sum[w] /\ sum[w].src = src
  BY <1>1, <1>a DEF PullKeeps, Untarred, PushMoves, PushMovesNothing, disk, At, AloneInv, Asking, FreshInv,
                      StageInv
<1>3. AloneInv(w)'
  BY StepAlone
<1> QED BY <1>2, <1>3 DEF AloneInv

\* A step of the shell happens while it is busy.
LEMMA StepIsBusy ==
  ASSUME NEW w \in Workspaces, Step(w) PROVE pc[w] \notin Rest
BY DEF Step, At, Rest, CheckForced, CheckSum, CheckError, LookupHit, LookupMiss, PullKeeps, PullError,
   PullUntars, Untarred, ConfigureFails, RemoveImage, MakeRuns, MakeFails, InstallEnds, InstallFails,
   PushNoImage, PushSums, PushSumError, PushTars, PushTarFails, PushMovesNothing, PushDeletes, PushMoves, LookupMirror, MirrorClears,
   CurlOpens, CurlEnds, CurlBreaks

LEMMA NextKeeps ==
  ASSUME Alone
  PROVE  SoundInv /\ [Next]_vars => [Promise!Next]_(Promise!vars)
<1> SUFFICES ASSUME SoundInv, [Next]_vars PROVE [Promise!Next]_(Promise!vars)
  OBVIOUS
<1>1. ASSUME NEW w \in Workspaces, Step(w) PROVE [Promise!Next]_(Promise!vars)
  <2>1. pc[w] \notin Rest /\ src' = src /\ \A u \in Workspaces : u = w
    BY <1>1, StepIsBusy, StepKeepsSources DEF Alone
  <2>2. Status(w) = "busy" /\ Delivered(w) = Absent
    BY <2>1 DEF Status, Delivered, At, Rest
  <2>3. CASE pc'[w] \notin Rest
    <3>1. Status(w)' = "busy" /\ Delivered(w)' = Absent
      BY <2>3 DEF Status, Delivered, At, Rest
    <3>2. \A u \in Workspaces : Status(u)' = Status(u) /\ Delivered(u)' = Delivered(u)
      BY <2>1, <2>2, <3>1
    <3> QED BY <2>1, <3>2 DEF Promise!vars
  <2>4. CASE At(w, "done")'
    <3>1. Status(w)' = "ok" /\ Delivered(w)' = Whole(src)
      BY <1>1, <2>4, StepDelivers DEF Status, Delivered, At, Rest
    <3>2. Promise!Become(w, "ok", Whole(src))
      BY <2>1, <3>1, Seen
    <3>3. Promise!Deliver(w)
      BY <2>2, <3>2 DEF Promise!Deliver, Whole
    <3> QED BY <3>3 DEF Promise!Next
  <2>5. CASE pc'[w] \in {"idle", "failed"}
    <3>1. Status(w)' = "rest" /\ Delivered(w)' = Absent
      BY <2>5 DEF Status, Delivered, At, Rest
    <3>2. Promise!Become(w, "rest", Absent)
      BY <2>1, <3>1, Seen
    <3> QED BY <2>2, <3>2 DEF Promise!GiveUp, Promise!Next
  <2> QED BY <2>3, <2>4, <2>5 DEF Rest, At
<1>2. ASSUME NEW w \in Workspaces, User(w) PROVE [Promise!Next]_(Promise!vars)
  <2>0. TypeOK /\ (\A u \in Workspaces : u = w) /\ ~ Kill(w)
    BY DEF SoundInv, NamesInv, AtomicInv, Alone, Kill
  <2>1. pc[w] \in Rest /\ src' = src
    BY <1>2, <2>0 DEF User, Start, SetForce, UnsetForce, Clean
  <2>2. CASE \E m \in Modes : Start(w, m)
    <3>1. pc'[w] \in {"check", "compile"}
      BY <2>0, <2>2 DEF Start, GoTo, TypeOK
    <3>2. Status(w)' = "busy" /\ Delivered(w)' = Absent /\ Status(w) # "busy"
      BY <2>1, <3>1 DEF Status, Delivered, At, Rest
    <3>3. Promise!Become(w, "busy", Absent)
      BY <2>1, <3>2, Seen
    <3> QED BY <3>2, <3>3 DEF Promise!Begin, Promise!Next
  <2>3. CASE UnsetForce(w) \/ Clean(w) \/ \E f \in {"always", "once"} : SetForce(w, f)
    <3>1. pc'[w] = "idle"
      BY <2>0, <2>3 DEF UnsetForce, Clean, SetForce, GoTo, TypeOK
    <3>2. Status(w)' = "rest" /\ Delivered(w)' = Absent
      BY <3>1 DEF Status, Delivered, At, Rest
    <3>3. CASE At(w, "done")
      <4>1. Status(w) = "ok"
        BY <3>3 DEF Status, At, Rest
      <4>2. Promise!Become(w, "rest", Absent)
        BY <2>1, <3>2, Seen
      <4> QED BY <4>1, <4>2 DEF Promise!Discard, Promise!Next
    <3>4. CASE ~ At(w, "done")
      <4>1. \A u \in Workspaces : Status(u)' = Status(u) /\ Delivered(u)' = Delivered(u)
        BY <2>0, <2>1, <3>2, <3>4 DEF Status, Delivered, At
      <4> QED BY <2>1, <4>1 DEF Promise!vars
    <3> QED BY <3>3, <3>4
  <2> QED BY <1>2, <2>0, <2>2, <2>3 DEF User
<1>3. ASSUME NEW v \in Versions, Edit(v) PROVE [Promise!Next]_(Promise!vars)
  <2>1. /\ \A w \in Workspaces : Status(w) # "busy"
        /\ src' = v /\ pc' = pc /\ ins' = ins
    BY <1>3 DEF Edit, Alone, Status, disk
  <2>2. \A u \in Workspaces : Status(u)' = Status(u) /\ Delivered(u)' = Delivered(u)
    BY <2>1 DEF Status, Delivered, At
  <2> QED BY <2>1, <2>2 DEF Promise!Edit, Promise!Next
<1>4. CASE UNCHANGED vars
  <2>1. \A u \in Workspaces : Status(u)' = Status(u) /\ Delivered(u)' = Delivered(u)
    BY <1>4 DEF vars, Status, Delivered, At
  <2> QED BY <1>4, <2>1 DEF vars, Promise!vars
<1> QED BY <1>1, <1>2, <1>3, <1>4 DEF Next

\* The cache implements its promise step by step, for every set of versions and every
\* mirror: what a build delivers is the complete image of the sources as they are.
THEOREM PromiseKept == Alone => (Spec => Promise!SafeSpec)
<1> SUFFICES ASSUME Alone PROVE Spec => Promise!SafeSpec
  OBVIOUS
<1>1. Init => Promise!Init
  BY DEF Init, Promise!Init, Status, Delivered, At, Rest
<1>2. SoundInv /\ [Next]_vars => [Promise!Next]_(Promise!vars)
  BY NextKeeps
<1> QED BY <1>1, <1>2, InitAlone, NextAlone, PTL DEF Spec, Promise!SafeSpec
=============================================================================
