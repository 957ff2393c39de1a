-------------------------- MODULE FetchPackageProofs --------------------------
(***************************************************************************)
(* Proofs about FetchPackage, for every set of workspaces and of versions. *)
(*                                                                         *)
(* The package, its hash and the lock are shared; a workspace changes them *)
(* only in the script, and there it is alone (Stage).  So a step is looked *)
(* at for its own workspace, and Outside gives the rest.                   *)
(*                                                                         *)
(* StoreInv holds for all settings.  On it stand WholeInv (trees beside a  *)
(* hash are complete), HealInv (what a run leaves to the next), and the    *)
(* two reasons why a pin is met: WantedInv, where recipes are not edited,  *)
(* and ExactInv, where no run on a clone is killed.                        *)
(***************************************************************************)
EXTENDS FetchPackage, TLAPS

\* The setting and the private state of workspace u are the same after a step.
Same(u) ==
  /\ setting' = setting
  /\ pc'[u] = pc[u]
  /\ job'[u] = job[u]
  /\ arg'[u] = arg[u]
  /\ out'[u] = out[u]
  /\ outhash'[u] = outhash[u]

\* What a workspace does changes nothing private of another one.
LEMMA Locality ==
  ASSUME TypeOK, NEW w \in Workspaces,
         Step(w) \/ Kill(w) \/ \E j \in Jobs : Begin(w, j),
         NEW u \in Workspaces, u # w
  PROVE  Same(u)
<1> USE DEF TypeOK, Same, GoTo, At, call, tree, store
<1>a. CASE Kill(w) \/ \E j \in Jobs : Begin(w, j) BY <1>a DEF Kill, Begin
<1>1. CASE Probe(w) BY <1>1 DEF Probe
<1>2. CASE Sum(w) BY <1>2 DEF Sum
<1>3. CASE Lock(w) BY <1>3 DEF Lock
<1>4. CASE FetchNew(w) BY <1>4 DEF FetchNew
<1>5. CASE FetchKept(w) BY <1>5 DEF FetchKept, Changed
<1>6. CASE FetchChanged(w) BY <1>6 DEF FetchChanged, Changed
<1>7. CASE Switch(w) BY <1>7 DEF Switch
<1>8. CASE SwitchFails(w) BY <1>8 DEF SwitchFails, Breaks, Leave
<1>9. CASE MirrorMiss(w) BY <1>9 DEF MirrorMiss
<1>10. CASE MirrorServes(w) BY <1>10 DEF MirrorServes, Served
<1>11. CASE MirrorRight(w) BY <1>11 DEF MirrorRight, Unwanted
<1>12. CASE MirrorWrong(w) BY <1>12 DEF MirrorWrong, Unwanted
<1>13. CASE MirrorBreaks(w) BY <1>13 DEF MirrorBreaks
<1>14. CASE Pull(w) BY <1>14 DEF Pull
<1>15. CASE OriginServes(w) BY <1>15 DEF OriginServes, Offered
<1>16. CASE OriginEnds(w) BY <1>16 DEF OriginEnds
<1>17. CASE OriginBreaks(w) BY <1>17 DEF OriginBreaks, Breaks, Leave
<1>18. CASE OriginWrong(w) BY <1>18 DEF OriginWrong, Breaks, Leave
<1>19. CASE OriginErrorPage(w) BY <1>19 DEF OriginErrorPage
<1>20. CASE Reset(w) BY <1>20 DEF Reset
<1>21. CASE ResetElsewhere(w) BY <1>21 DEF ResetElsewhere, Fails, Leave
<1>22. CASE ResetFails(w) BY <1>22 DEF ResetFails, Breaks, Leave
<1>23. CASE WriteHash(w) BY <1>23 DEF WriteHash
<1>24. CASE HashWritten(w) BY <1>24 DEF HashWritten
<1>25. CASE FetchOnly(w) BY <1>25 DEF FetchOnly, Leave
<1>26. CASE UnpackKept(w) BY <1>26 DEF UnpackKept, UpToDate, Leave
<1>27. CASE UnpackNew(w) BY <1>27 DEF UnpackNew, UpToDate
<1>28. CASE Removed(w) BY <1>28 DEF Removed
<1>29. CASE Extracted(w) BY <1>29 DEF Extracted
<1>30. CASE Invalid(w) BY <1>30 DEF Invalid, Fails, Leave
<1>31. CASE CopyFails(w) BY <1>31 DEF CopyFails
<1>32. CASE Seal(w) BY <1>32 DEF Seal, Leave
<1> QED BY <1>a, <1>1, <1>2, <1>3, <1>4, <1>5, <1>6, <1>7, <1>8, <1>9,
       <1>10, <1>11, <1>12, <1>13, <1>14, <1>15, <1>16, <1>17, <1>18, <1>19,
       <1>20, <1>21, <1>22, <1>23, <1>24, <1>25, <1>26, <1>27, <1>28, <1>29,
       <1>30, <1>31, <1>32 DEF Step

\* Contents are records, and none is the missing file.
LEMMA Values ==
  /\ \A v \in Versions :
       /\ Whole(v) \in Contents /\ Whole(v).ver = v /\ Whole(v).whole
       /\ Cut(v)   \in Contents /\ Cut(v).ver = v   /\ ~ Cut(v).whole
  /\ \A c \in Contents : /\ c # Absent /\ c # Empty
                         /\ c.ver \in Versions
                         /\ c.whole => c = Whole(c.ver)
<1>1. \A c \in Contents : c # Absent /\ c # Empty
  BY ConstantsAssumption DEF Hashes
<1> QED BY <1>1 DEF Contents, Whole, Cut

\* A step of the script keeps the types, and the stage of its workspace.
LEMMA StepStore ==
  ASSUME StoreInv, NEW w \in Workspaces, Step(w)
  PROVE  TypeOK' /\ HashedIsWhole' /\ Stage(w)'
<1>a. TypeOK /\ HashedIsWhole /\ Stage(w) BY DEF StoreInv
<1>b. Mirror \subseteq Versions
  BY <1>a, ConstantsAssumption DEF TypeOK, AllSettings, Mirror
<1> USE <1>a, <1>b, ConstantsAssumption, Values
    DEF TypeOK, HashedIsWhole, Stage, Verified, Placed, Rebranched, Clones, Pinned, Method,
        Faults, Locs, Critical, Rest, Jobs,
        Hashes, StrikesBound, GoTo, At, call, tree, store
<1>1. CASE Probe(w) BY <1>1 DEF Probe
<1>2. CASE Sum(w) BY <1>2 DEF Sum
<1>3. CASE Lock(w) BY <1>3 DEF Lock
<1>4. CASE FetchNew(w) BY <1>4 DEF FetchNew
<1>5. CASE FetchKept(w) BY <1>5 DEF FetchKept, Changed
<1>6. CASE FetchChanged(w) BY <1>6 DEF FetchChanged, Changed
<1>7. CASE Switch(w) BY <1>7 DEF Switch
<1>8. CASE SwitchFails(w) BY <1>8 DEF SwitchFails, Breaks, Leave
<1>9. CASE MirrorMiss(w) BY <1>9 DEF MirrorMiss
<1>10. CASE MirrorServes(w) BY <1>10 DEF MirrorServes, Served
<1>11. CASE MirrorRight(w) BY <1>11 DEF MirrorRight, Unwanted
<1>12. CASE MirrorWrong(w) BY <1>12 DEF MirrorWrong, Unwanted
<1>13. CASE MirrorBreaks(w) BY <1>13 DEF MirrorBreaks
<1>14. CASE Pull(w) BY <1>14 DEF Pull
<1>15. CASE OriginServes(w) BY <1>15 DEF OriginServes, Offered
<1>16. CASE OriginEnds(w) BY <1>16 DEF OriginEnds
<1>17. CASE OriginBreaks(w) BY <1>17 DEF OriginBreaks, Breaks, Leave
<1>18. CASE OriginWrong(w) BY <1>18 DEF OriginWrong, Breaks, Leave
<1>19. CASE OriginErrorPage(w) BY <1>19 DEF OriginErrorPage
<1>20. CASE Reset(w) BY <1>20 DEF Reset
<1>21. CASE ResetElsewhere(w) BY <1>21 DEF ResetElsewhere, Fails, Leave
<1>22. CASE ResetFails(w) BY <1>22 DEF ResetFails, Breaks, Leave
<1>23. CASE WriteHash(w) BY <1>23 DEF WriteHash
<1>24. CASE HashWritten(w) BY <1>24 DEF HashWritten
<1>25. CASE FetchOnly(w) BY <1>25 DEF FetchOnly, Leave
<1>26. CASE UnpackKept(w) BY <1>26 DEF UnpackKept, UpToDate, Leave
<1>27. CASE UnpackNew(w) BY <1>27 DEF UnpackNew, UpToDate
<1>28. CASE Removed(w) BY <1>28 DEF Removed
<1>29. CASE Extracted(w) BY <1>29 DEF Extracted
<1>30. CASE Invalid(w) BY <1>30 DEF Invalid, Fails, Leave
<1>31. CASE CopyFails(w) BY <1>31 DEF CopyFails
<1>32. CASE Seal(w) BY <1>32 DEF Seal, Leave
<1> QED BY <1>1, <1>2, <1>3, <1>4, <1>5, <1>6, <1>7, <1>8, <1>9, <1>10,
       <1>11, <1>12, <1>13, <1>14, <1>15, <1>16, <1>17, <1>18, <1>19, <1>20,
       <1>21, <1>22, <1>23, <1>24, <1>25, <1>26, <1>27, <1>28, <1>29, <1>30,
       <1>31, <1>32 DEF Step

\* The lock and the shared files change in the hands of their owner only.
LEMMA Outside ==
  ASSUME StoreInv, NEW w \in Workspaces, Step(w),
         NEW u \in Workspaces, u # w
  PROVE  Stage(u)'
<1>a. TypeOK /\ Stage(w) /\ Stage(u) /\ Same(u) BY Locality DEF StoreInv
<1>1. CASE pc[w] \in Critical
  BY <1>1, <1>a DEF Stage, Same, Critical, Verified, Placed, Rebranched, Clones, Pinned, Method,
      Faults
<1>2. CASE At(w, "lock")
  <2>1. Lock(w)
    BY <1>2 DEF Step, At,
       Probe, Sum, Lock, FetchNew, FetchKept, FetchChanged, Switch, SwitchFails,
       MirrorMiss, MirrorServes, MirrorRight, MirrorWrong, MirrorBreaks,
       Pull, OriginServes, OriginEnds, OriginBreaks, OriginWrong,
       OriginErrorPage, Reset, ResetElsewhere, ResetFails, WriteHash,
       HashWritten, FetchOnly, UnpackKept, UnpackNew, Removed, Extracted,
       Invalid, CopyFails, Seal
  <2> QED BY <2>1, <1>a, ConstantsAssumption DEF Lock, Stage, Same, Verified, Placed,
      Rebranched, Clones, Pinned, Method, Faults, store
<1>3. CASE pc[w] \notin Critical /\ ~ At(w, "lock")
  <2>1. Probe(w) \/ Sum(w)
    BY <1>3 DEF Step, At, Critical,
       Probe, Sum, Lock, FetchNew, FetchKept, FetchChanged, Switch, SwitchFails,
       MirrorMiss, MirrorServes, MirrorRight, MirrorWrong, MirrorBreaks,
       Pull, OriginServes, OriginEnds, OriginBreaks, OriginWrong,
       OriginErrorPage, Reset, ResetElsewhere, ResetFails, WriteHash,
       HashWritten, FetchOnly, UnpackKept, UnpackNew, Removed, Extracted,
       Invalid, CopyFails, Seal
  <2>2. UNCHANGED <<pkg, hash, owner>> BY <2>1 DEF Probe, Sum, store
  <2> QED BY <2>2, <1>a DEF Stage, Same, Verified, Placed, Rebranched, Clones, Pinned, Method,
      Faults
<1> QED BY <1>1, <1>2, <1>3

\* So do a new run, an interruption and a change of the recipe.
LEMMA UserStore ==
  ASSUME StoreInv, NEW w \in Workspaces,
         Kill(w) \/ \E j \in Jobs : Begin(w, j)
  PROVE  StoreInv'
<1>a. TypeOK /\ HashedIsWhole BY DEF StoreInv
<1>b. UNCHANGED <<setting, want, pkg, hash, out, outhash>> BY DEF Kill, Begin, store, tree, call
<1>1. TypeOK'
  BY <1>a, <1>b, ConstantsAssumption
  DEF Kill, Begin, TypeOK, GoTo, Locs, Rest, Critical, Jobs, StrikesBound, call,
      store, tree
<1>2. Stage(w)'
  BY <1>a DEF Kill, Begin, TypeOK, Stage, GoTo, Rest, Critical
<1>3. ASSUME NEW u \in Workspaces, u # w PROVE Stage(u)'
  <2>1. Stage(u) /\ Same(u) BY <1>3, Locality DEF StoreInv
  <2>2. owner = u => owner' = u BY <1>3 DEF Kill, Begin
  <2> QED BY <1>b, <2>1, <2>2 DEF Stage, Same, Verified, Placed, Rebranched, Clones, Pinned,
      Method, Faults
<1> QED BY <1>a, <1>b, <1>1, <1>2, <1>3 DEF StoreInv, HashedIsWhole, Verified, Placed,
    Rebranched, Clones, Pinned, Method, Faults

LEMMA InitStore == Init => StoreInv
BY ConstantsAssumption
DEF Init, StoreInv, TypeOK, HashedIsWhole, Stage, Locs, Rest, Critical, Jobs,
    StrikesBound

LEMMA NextStore == StoreInv /\ [Next]_vars => StoreInv'
<1> SUFFICES ASSUME StoreInv, [Next]_vars PROVE StoreInv' OBVIOUS
<1>1. ASSUME NEW w \in Workspaces, Step(w) PROVE StoreInv'
  BY <1>1, StepStore, Outside DEF StoreInv
<1>2. ASSUME NEW w \in Workspaces, Kill(w) \/ \E j \in Jobs : Begin(w, j)
      PROVE  StoreInv'
  BY <1>2, UserStore
<1>3. CASE (\E v \in Versions : Change(v)) \/ UNCHANGED vars
  BY <1>3 DEF Change, vars, store, tree, StoreInv, TypeOK, HashedIsWhole, Stage, Verified,
      Placed, Rebranched, Clones, Pinned, Method, Faults
<1> QED BY <1>1, <1>2, <1>3 DEF Next

\* The state keeps its type: what is unpacked exists, a lock has one owner.
THEOREM TypeCorrect == Spec => []TypeOK
BY InitStore, NextStore, PTL DEF Spec, StoreInv

\* fetch_package.sh writes a hash only beside a complete package, whatever is
\* killed, breaks off or is missing: for every number of workspaces, and for
\* archives with md5 and clones.
THEOREM StoreSound == Spec => []HashedIsWhole
BY InitStore, NextStore, PTL DEF Spec, StoreInv

\* While the recipe pins one version, a hash that an output tree has copied
\* stays in ENV_DOWN_DIR, and nobody is about to write it.
LEMMA SealedStays ==
  ASSUME Pinned, ~ Rebranched, WantedInv, NEW w \in Workspaces, Step(w),
         NEW u \in Workspaces, outhash[u] # Absent
  PROVE  hash' = hash /\ ~ At(w, "hashing")'
<1>a. TypeOK /\ Stage(w) /\ Wanted(w) BY DEF WantedInv, StoreInv
<1>b. /\ hash # Absent /\ pkg = Whole(want) /\ pkg # Absent
      /\ pkg.ver = arg[w] /\ pkg.whole
      /\ ~ At(w, "hashing")
  BY <1>a, Values DEF WantedInv, Wanted, TypeOK, At
<1> USE <1>a, <1>b DEF TypeOK, Stage, Critical, GoTo, At, store
<1>1. CASE Probe(w) BY <1>1 DEF Probe
<1>2. CASE Sum(w) BY <1>2 DEF Sum
<1>3. CASE Lock(w) BY <1>3 DEF Lock
<1>4. CASE FetchNew(w) BY <1>4 DEF FetchNew
<1>5. CASE FetchKept(w) BY <1>5 DEF FetchKept, Changed
<1>6. CASE FetchChanged(w) BY <1>6 DEF FetchChanged, Changed
<1>7. CASE Switch(w) BY <1>7 DEF Switch
<1>8. CASE SwitchFails(w) BY <1>8 DEF SwitchFails, Breaks, Leave
<1>9. CASE MirrorMiss(w) BY <1>9 DEF MirrorMiss
<1>10. CASE MirrorServes(w) BY <1>10 DEF MirrorServes, Served
<1>11. CASE MirrorRight(w) BY <1>11 DEF MirrorRight, Unwanted
<1>12. CASE MirrorWrong(w) BY <1>12 DEF MirrorWrong, Unwanted
<1>13. CASE MirrorBreaks(w) BY <1>13 DEF MirrorBreaks
<1>14. CASE Pull(w) BY <1>14 DEF Pull
<1>15. CASE OriginServes(w) BY <1>15 DEF OriginServes, Offered
<1>16. CASE OriginEnds(w) BY <1>16 DEF OriginEnds
<1>17. CASE OriginBreaks(w) BY <1>17 DEF OriginBreaks, Breaks, Leave
<1>18. CASE OriginWrong(w) BY <1>18 DEF OriginWrong, Breaks, Leave
<1>19. CASE OriginErrorPage(w) BY <1>19 DEF OriginErrorPage
<1>20. CASE Reset(w) BY <1>20 DEF Reset
<1>21. CASE ResetElsewhere(w) BY <1>21 DEF ResetElsewhere, Fails, Leave
<1>22. CASE ResetFails(w) BY <1>22 DEF ResetFails, Breaks, Leave
<1>23. CASE WriteHash(w) BY <1>23 DEF WriteHash
<1>24. CASE HashWritten(w) BY <1>24 DEF HashWritten
<1>25. CASE FetchOnly(w) BY <1>25 DEF FetchOnly, Leave
<1>26. CASE UnpackKept(w) BY <1>26 DEF UnpackKept, UpToDate, Leave
<1>27. CASE UnpackNew(w) BY <1>27 DEF UnpackNew, UpToDate
<1>28. CASE Removed(w) BY <1>28 DEF Removed
<1>29. CASE Extracted(w) BY <1>29 DEF Extracted
<1>30. CASE Invalid(w) BY <1>30 DEF Invalid, Fails, Leave
<1>31. CASE CopyFails(w) BY <1>31 DEF CopyFails
<1>32. CASE Seal(w) BY <1>32 DEF Seal, Leave
<1> QED BY <1>1, <1>2, <1>3, <1>4, <1>5, <1>6, <1>7, <1>8, <1>9, <1>10,
       <1>11, <1>12, <1>13, <1>14, <1>15, <1>16, <1>17, <1>18, <1>19, <1>20,
       <1>21, <1>22, <1>23, <1>24, <1>25, <1>26, <1>27, <1>28, <1>29, <1>30,
       <1>31, <1>32 DEF Step

\* A step keeps what Wanted says of its own workspace.
LEMMA StepWanted ==
  ASSUME Pinned, ~ Rebranched, Method # "svn", "cp" \notin Faults, WantedInv, NEW w \in
      Workspaces, Step(w)
  PROVE  Wanted(w)' /\ (hash # Absent => pkg = Whole(want))'
<1>a. /\ TypeOK /\ Stage(w) /\ Wanted(w)
      /\ hash # Absent => pkg = Whole(want)
  BY DEF WantedInv, StoreInv
<1>b. outhash[w] # Absent => hash' = hash BY SealedStays
<1>c. Whole(want) # Absent /\ Whole(want).ver = want /\ Whole(want).whole
  BY <1>a, Values DEF TypeOK
<1>d. pkg # Absent => pkg.ver \in Versions /\ (pkg.whole => pkg = Whole(pkg.ver))
  BY <1>a, Values DEF TypeOK
<1>e. \A v \in Versions : Cut(v).ver = v BY Values
<1> USE <1>a, <1>b, <1>c, <1>d, <1>e, ConstantsAssumption
    DEF TypeOK, Stage, Wanted, Critical, Verified, Placed, Rebranched, Clones, Pinned, Method,
        Faults, GoTo, At, store, tree, call
<1>1. CASE Probe(w) BY <1>1 DEF Probe
<1>2. CASE Sum(w) BY <1>2 DEF Sum
<1>3. CASE Lock(w) BY <1>3 DEF Lock
<1>4. CASE FetchNew(w) BY <1>4 DEF FetchNew
<1>5. CASE FetchKept(w) BY <1>5 DEF FetchKept, Changed
<1>6. CASE FetchChanged(w) BY <1>6 DEF FetchChanged, Changed
<1>7. CASE Switch(w) BY <1>7 DEF Switch
<1>8. CASE SwitchFails(w) BY <1>8 DEF SwitchFails, Breaks, Leave
<1>9. CASE MirrorMiss(w) BY <1>9 DEF MirrorMiss
<1>10. CASE MirrorServes(w) BY <1>10 DEF MirrorServes, Served
<1>11. CASE MirrorRight(w) BY <1>11 DEF MirrorRight, Unwanted
<1>12. CASE MirrorWrong(w) BY <1>12 DEF MirrorWrong, Unwanted
<1>13. CASE MirrorBreaks(w) BY <1>13 DEF MirrorBreaks
<1>14. CASE Pull(w) BY <1>14 DEF Pull
<1>15. CASE OriginServes(w) BY <1>15 DEF OriginServes, Offered
<1>16. CASE OriginEnds(w) BY <1>16 DEF OriginEnds
<1>17. CASE OriginBreaks(w) BY <1>17 DEF OriginBreaks, Breaks, Leave
<1>18. CASE OriginWrong(w) BY <1>18 DEF OriginWrong, Breaks, Leave
<1>19. CASE OriginErrorPage(w) BY <1>19 DEF OriginErrorPage
<1>20. CASE Reset(w) BY <1>20 DEF Reset
<1>21. CASE ResetElsewhere(w) BY <1>21 DEF ResetElsewhere, Fails, Leave
<1>22. CASE ResetFails(w) BY <1>22 DEF ResetFails, Breaks, Leave
<1>23. CASE WriteHash(w) BY <1>23 DEF WriteHash
<1>24. CASE HashWritten(w) BY <1>24 DEF HashWritten
<1>25. CASE FetchOnly(w) BY <1>25 DEF FetchOnly, Leave
<1>26. CASE UnpackKept(w) BY <1>26 DEF UnpackKept, UpToDate, Leave
<1>27. CASE UnpackNew(w) BY <1>27 DEF UnpackNew, UpToDate
<1>28. CASE Removed(w) BY <1>28 DEF Removed
<1>29. CASE Extracted(w) BY <1>29 DEF Extracted
<1>30. CASE Invalid(w) BY <1>30 DEF Invalid, Fails, Leave
<1>31. CASE CopyFails(w) BY <1>31 DEF CopyFails
<1>32. CASE Seal(w) BY <1>32 DEF Seal, Leave
<1> QED BY <1>1, <1>2, <1>3, <1>4, <1>5, <1>6, <1>7, <1>8, <1>9, <1>10,
       <1>11, <1>12, <1>13, <1>14, <1>15, <1>16, <1>17, <1>18, <1>19, <1>20,
       <1>21, <1>22, <1>23, <1>24, <1>25, <1>26, <1>27, <1>28, <1>29, <1>30,
       <1>31, <1>32 DEF Step

\* Outside the script a step leaves the package alone and cannot fail, only unpacking writes
\* the hash of a tree, and no step of a shell edits the recipe.
LEMMA Frame ==
  ASSUME TypeOK, NEW w \in Workspaces, Step(w)
  PROVE  /\ want' = want /\ setting' = setting
         /\ pc[w] \in Critical \/ UNCHANGED <<pkg, hash, strikes>>
         /\ (pc[w] \in Critical /\ ~ At(w, "hashing")') \/ outhash' = outhash
<1> USE DEF TypeOK, At, GoTo, Critical, call, store, tree
<1>1. CASE Probe(w) BY <1>1 DEF Probe
<1>2. CASE Sum(w) BY <1>2 DEF Sum
<1>3. CASE Lock(w) BY <1>3 DEF Lock
<1>4. CASE FetchNew(w) BY <1>4 DEF FetchNew
<1>5. CASE FetchKept(w) BY <1>5 DEF FetchKept, Changed
<1>6. CASE FetchChanged(w) BY <1>6 DEF FetchChanged, Changed
<1>7. CASE Switch(w) BY <1>7 DEF Switch
<1>8. CASE SwitchFails(w) BY <1>8 DEF SwitchFails, Breaks, Leave
<1>9. CASE MirrorMiss(w) BY <1>9 DEF MirrorMiss
<1>10. CASE MirrorServes(w) BY <1>10 DEF MirrorServes, Served
<1>11. CASE MirrorRight(w) BY <1>11 DEF MirrorRight, Unwanted
<1>12. CASE MirrorWrong(w) BY <1>12 DEF MirrorWrong, Unwanted
<1>13. CASE MirrorBreaks(w) BY <1>13 DEF MirrorBreaks
<1>14. CASE Pull(w) BY <1>14 DEF Pull
<1>15. CASE OriginServes(w) BY <1>15 DEF OriginServes, Offered
<1>16. CASE OriginEnds(w) BY <1>16 DEF OriginEnds
<1>17. CASE OriginBreaks(w) BY <1>17 DEF OriginBreaks, Breaks, Leave
<1>18. CASE OriginWrong(w) BY <1>18 DEF OriginWrong, Breaks, Leave
<1>19. CASE OriginErrorPage(w) BY <1>19 DEF OriginErrorPage
<1>20. CASE Reset(w) BY <1>20 DEF Reset
<1>21. CASE ResetElsewhere(w) BY <1>21 DEF ResetElsewhere, Fails, Leave
<1>22. CASE ResetFails(w) BY <1>22 DEF ResetFails, Breaks, Leave
<1>23. CASE WriteHash(w) BY <1>23 DEF WriteHash
<1>24. CASE HashWritten(w) BY <1>24 DEF HashWritten
<1>25. CASE FetchOnly(w) BY <1>25 DEF FetchOnly, Leave
<1>26. CASE UnpackKept(w) BY <1>26 DEF UnpackKept, UpToDate, Leave
<1>27. CASE UnpackNew(w) BY <1>27 DEF UnpackNew, UpToDate
<1>28. CASE Removed(w) BY <1>28 DEF Removed
<1>29. CASE Extracted(w) BY <1>29 DEF Extracted
<1>30. CASE Invalid(w) BY <1>30 DEF Invalid, Fails, Leave
<1>31. CASE CopyFails(w) BY <1>31 DEF CopyFails
<1>32. CASE Seal(w) BY <1>32 DEF Seal, Leave
<1> QED BY <1>1, <1>2, <1>3, <1>4, <1>5, <1>6, <1>7, <1>8, <1>9, <1>10,
       <1>11, <1>12, <1>13, <1>14, <1>15, <1>16, <1>17, <1>18, <1>19, <1>20,
       <1>21, <1>22, <1>23, <1>24, <1>25, <1>26, <1>27, <1>28, <1>29, <1>30,
       <1>31, <1>32 DEF Step

\* ... and of the others.
LEMMA OutsideWanted ==
  ASSUME Pinned, ~ Rebranched, WantedInv, NEW w \in Workspaces, Step(w),
         NEW u \in Workspaces, u # w
  PROVE  Wanted(u)'
<1>a. TypeOK /\ Stage(w) /\ Stage(u) /\ Wanted(u) /\ Same(u) /\ want' = want
  BY Locality, Frame DEF WantedInv, StoreInv
<1>b. outhash[u] # Absent => hash' = hash BY SealedStays
<1>1. pc[u] \in Critical => pkg' = pkg BY <1>a, Frame DEF Stage
<1> QED BY <1>a, <1>b, <1>1 DEF Wanted, Same, At, Critical, Clones, Method

LEMMA UserWanted ==
  ASSUME Pinned, ~ Rebranched, WantedInv, NEW w \in Workspaces,
         Kill(w) \/ \E j \in Jobs : Begin(w, j)
  PROVE  WantedInv'
<1>a. TypeOK /\ (\A u \in Workspaces : Wanted(u))
  BY DEF WantedInv, StoreInv
<1>b. UNCHANGED <<setting, want, pkg, hash, out, outhash>>
  BY DEF Kill, Begin, store, tree, call
<1>1. StoreInv' BY UserStore DEF WantedInv
<1>2. Wanted(w)'
  BY <1>a, <1>b DEF Kill, Begin, TypeOK, Wanted, At, GoTo, Jobs, call
<1>3. ASSUME NEW u \in Workspaces, u # w PROVE Wanted(u)'
  BY <1>a, <1>b, <1>3, Locality DEF Same, Wanted, At, Clones, Method
<1>4. \A u \in Workspaces : At(u, "hashing")' => At(u, "hashing")
  BY <1>a DEF Kill, Begin, TypeOK, At, GoTo
<1> QED BY <1>b, <1>1, <1>2, <1>3, <1>4 DEF WantedInv

LEMMA InitWanted == Pinned /\ Init => WantedInv
BY InitStore DEF Init, WantedInv, Wanted, At

\* The recipe pins the source, nobody edits it and copies do not fail.
Fixed == Pinned /\ Method # "svn" /\ {"change", "cp"} \cap Faults = {} /\ ~ Rebranched

LEMMA NextWanted ==
  ASSUME Fixed PROVE WantedInv /\ [Next]_vars => WantedInv'
<1> USE DEF Fixed
<1> SUFFICES ASSUME WantedInv, [Next]_vars PROVE WantedInv' OBVIOUS
<1>1. ASSUME NEW w \in Workspaces, Step(w) PROVE WantedInv'
  <2>1. StoreInv' BY <1>1, NextStore DEF Next, WantedInv
  <2>2. Wanted(w)' /\ (hash # Absent => pkg = Whole(want))' BY <1>1, StepWanted
  <2>3. \A u \in Workspaces \ {w} : Wanted(u)' BY <1>1, OutsideWanted
  <2>4. ASSUME NEW u \in Workspaces, NEW v \in Workspaces, At(u, "hashing")'
        PROVE  outhash'[v] = Absent
    <3>a. TypeOK /\ Stage(w) /\ Stage(u) /\ (At(u, "hashing") => outhash[v] = Absent)
      BY DEF WantedInv, StoreInv
    <3>1. u # w => At(u, "hashing")
      BY <1>1, <2>4, <3>a, Locality DEF Same, At
    <3>2. outhash[v] = Absent
      BY <1>1, <2>4, <3>a, <3>1, SealedStays
    <3>3. outhash' = outhash
      BY <1>1, <2>4, <3>a, <3>1, Frame DEF Stage, At, Critical
    <3> QED BY <3>2, <3>3
  <2> QED BY <2>1, <2>2, <2>3, <2>4 DEF WantedInv
<1>2. ASSUME NEW w \in Workspaces, Kill(w) \/ \E j \in Jobs : Begin(w, j)
      PROVE  WantedInv'
  BY <1>2, UserWanted
<1>3. CASE (\E v \in Versions : Change(v)) \/ UNCHANGED vars
  <2>1. StoreInv' BY NextStore DEF WantedInv
  <2> QED BY <1>3, <2>1 DEF Change, vars, WantedInv, Wanted, At, Clones, Method
<1> QED BY <1>1, <1>2, <1>3 DEF Next

\* A clone that the recipe pins may be pinned elsewhere, or get another branch, at any time, if no
\* run is killed.
Movable == Method = "git" /\ Pinned /\ {"kill", "cp"} \cap Faults = {}

\* A step keeps what Exact says of its own workspace.
LEMMA StepExact ==
  ASSUME Movable, ExactInv, NEW w \in Workspaces, Step(w)
  PROVE  Exact(w)' /\ (hash # Absent => hash = pkg)'
<1>a. TypeOK /\ HashedIsWhole /\ Stage(w) /\ Exact(w) /\ (hash # Absent => hash = pkg)
  BY DEF ExactInv, StoreInv
<1>b. \A v \in Versions : /\ Whole(v) # Absent /\ Whole(v).ver = v /\ Whole(v).whole
                          /\ Cut(v).ver = v
  BY Values
<1>c. pkg # Absent => pkg.ver \in Versions /\ (pkg.whole => pkg = Whole(pkg.ver))
  BY <1>a, Values DEF TypeOK
<1>d. Method = "git" /\ Pinned /\ "kill" \notin Faults /\ "cp" \notin Faults
  BY DEF Movable
<1> USE <1>a, <1>b, <1>c, <1>d, ConstantsAssumption
    DEF TypeOK, HashedIsWhole, Stage, Exact, Critical, Verified, Placed, Rebranched, Clones,
        Pinned, Method, Faults, GoTo, At,
        store, tree, call
<1>1. CASE Probe(w) BY <1>1 DEF Probe
<1>2. CASE Sum(w) BY <1>2 DEF Sum
<1>3. CASE Lock(w) BY <1>3 DEF Lock
<1>4. CASE FetchNew(w) BY <1>4 DEF FetchNew
<1>5. CASE FetchKept(w) BY <1>5 DEF FetchKept, Changed
<1>6. CASE FetchChanged(w) BY <1>6 DEF FetchChanged, Changed
<1>7. CASE Switch(w) BY <1>7 DEF Switch
<1>8. CASE SwitchFails(w) BY <1>8 DEF SwitchFails, Breaks, Leave
<1>9. CASE MirrorMiss(w) BY <1>9 DEF MirrorMiss
<1>10. CASE MirrorServes(w) BY <1>10 DEF MirrorServes, Served
<1>11. CASE MirrorRight(w) BY <1>11 DEF MirrorRight, Unwanted
<1>12. CASE MirrorWrong(w) BY <1>12 DEF MirrorWrong, Unwanted
<1>13. CASE MirrorBreaks(w) BY <1>13 DEF MirrorBreaks
<1>14. CASE Pull(w) BY <1>14 DEF Pull
<1>15. CASE OriginServes(w) BY <1>15 DEF OriginServes, Offered
<1>16. CASE OriginEnds(w) BY <1>16 DEF OriginEnds
<1>17. CASE OriginBreaks(w) BY <1>17 DEF OriginBreaks, Breaks, Leave
<1>18. CASE OriginWrong(w) BY <1>18 DEF OriginWrong, Breaks, Leave
<1>19. CASE OriginErrorPage(w) BY <1>19 DEF OriginErrorPage
<1>20. CASE Reset(w) BY <1>20 DEF Reset
<1>21. CASE ResetElsewhere(w) BY <1>21 DEF ResetElsewhere, Fails, Leave
<1>22. CASE ResetFails(w) BY <1>22 DEF ResetFails, Breaks, Leave
<1>23. CASE WriteHash(w) BY <1>23 DEF WriteHash
<1>24. CASE HashWritten(w) BY <1>24 DEF HashWritten
<1>25. CASE FetchOnly(w) BY <1>25 DEF FetchOnly, Leave
<1>26. CASE UnpackKept(w) BY <1>26 DEF UnpackKept, UpToDate, Leave
<1>27. CASE UnpackNew(w) BY <1>27 DEF UnpackNew, UpToDate
<1>28. CASE Removed(w) BY <1>28 DEF Removed
<1>29. CASE Extracted(w) BY <1>29 DEF Extracted
<1>30. CASE Invalid(w) BY <1>30 DEF Invalid, Fails, Leave
<1>31. CASE CopyFails(w) BY <1>31 DEF CopyFails
<1>32. CASE Seal(w) BY <1>32 DEF Seal, Leave
<1> QED BY <1>1, <1>2, <1>3, <1>4, <1>5, <1>6, <1>7, <1>8, <1>9, <1>10,
       <1>11, <1>12, <1>13, <1>14, <1>15, <1>16, <1>17, <1>18, <1>19, <1>20,
       <1>21, <1>22, <1>23, <1>24, <1>25, <1>26, <1>27, <1>28, <1>29, <1>30,
       <1>31, <1>32 DEF Step

LEMMA OutsideExact ==
  ASSUME ExactInv, NEW w \in Workspaces, Step(w), NEW u \in Workspaces, u # w
  PROVE  Exact(u)'
<1>a. TypeOK /\ Stage(w) /\ Stage(u) /\ Exact(u) /\ Same(u)
  BY Locality DEF ExactInv, StoreInv
<1>1. pc[u] \in Critical => pkg' = pkg
  BY <1>a, Frame DEF Stage
<1> QED BY <1>a, <1>1 DEF Exact, Same, At, Critical, Rebranched, Method, Faults

LEMMA NextExact ==
  ASSUME Movable PROVE ExactInv /\ [Next]_vars => ExactInv'
<1> SUFFICES ASSUME ExactInv, [Next]_vars PROVE ExactInv' OBVIOUS
<1>1. StoreInv' /\ TypeOK /\ \A w \in Workspaces : Exact(w)
  BY NextStore DEF ExactInv, StoreInv
<1>2. ASSUME NEW w \in Workspaces, Step(w) PROVE ExactInv'
  BY <1>1, <1>2, StepExact, OutsideExact DEF ExactInv
<1>3. ASSUME NEW w \in Workspaces, Kill(w) PROVE FALSE
  BY <1>3 DEF Kill, Movable
<1>4. ASSUME NEW w \in Workspaces, NEW j \in Jobs, Begin(w, j) PROVE ExactInv'
  <2>1. Exact(w)'
    BY <1>1, <1>4 DEF Begin, Movable, Exact, TypeOK, GoTo, At, Jobs, Rest, tree
  <2>2. ASSUME NEW u \in Workspaces, u # w PROVE Exact(u)'
    <3>1. /\ Exact(u) /\ Same(u) /\ UNCHANGED <<pkg, hash>>
          /\ Rebranched' <=> Rebranched
      BY <1>1, <1>4, <2>2, Locality DEF Begin, Same, store, Rebranched, Method, Faults
    <3> QED BY <3>1 DEF Exact, Same, At
  <2> QED BY <1>1, <1>4, <2>1, <2>2 DEF Begin, ExactInv, store
<1>5. CASE (\E v \in Versions : Change(v)) \/ UNCHANGED vars
  BY <1>1, <1>5 DEF Change, vars, ExactInv, Exact, At, Rebranched, Method, Faults, store, tree
<1> QED BY <1>2, <1>3, <1>4, <1>5 DEF Next

\* The setting stays.
LEMMA SettingStays ==
  ASSUME TypeOK, [Next]_vars PROVE setting' = setting
<1>1. ASSUME NEW w \in Workspaces, Step(w) PROVE setting' = setting
  BY <1>1, Frame
<1>2. ASSUME NEW w \in Workspaces, Kill(w) \/ \E j \in Jobs : Begin(w, j)
      PROVE  setting' = setting
  BY <1>2 DEF Kill, Begin, call
<1>3. CASE (\E v \in Versions : Change(v)) \/ UNCHANGED vars
  BY <1>3 DEF Change, vars
<1> QED BY <1>1, <1>2, <1>3 DEF Next

PinnedInv == StoreInv /\ (Fixed => WantedInv) /\ (Movable => ExactInv)

LEMMA InitPinned == Init => PinnedInv
<1>1. Movable /\ Init => ExactInv
  BY InitStore DEF Init, ExactInv, Exact, At
<1> QED BY <1>1, InitStore, InitWanted DEF PinnedInv, Fixed

LEMMA NextPinned == PinnedInv /\ [Next]_vars => PinnedInv'
<1> SUFFICES ASSUME PinnedInv, [Next]_vars PROVE PinnedInv' OBVIOUS
<1>1. setting' = setting BY SettingStays DEF PinnedInv, StoreInv
<1>2. (Fixed' => Fixed) /\ (Movable' => Movable)
  BY <1>1 DEF Fixed, Movable, Rebranched, Pinned, Method, Faults
<1>3. StoreInv' BY NextStore DEF PinnedInv
<1> QED BY <1>2, <1>3, NextWanted, NextExact DEF PinnedInv

\* A build goes on only with the complete source tree that the recipe pinned when the build
\* started: for every number of workspaces that share the downloads, every kind of recipe
\* whose pin is honoured, every mirror, and whatever is killed, breaks off, is missing or, for
\* a clone, is edited. Where the branch of the recipe is edited the clone may end elsewhere; the
\* tree then has the hash of what it is.
THEOREM SourceWanted == Spec => []DoneIsWanted
<1>1. PinnedInv => DoneIsWanted
  <2> SUFFICES ASSUME PinnedInv, Careful, Honoured, NEW w \in Workspaces,
                      At(w, "done"), job[w] = "build"
               PROVE  out[w] = Whole(arg[w]) \/ (Rebranched /\ out[w] = outhash[w])
    BY DEF DoneIsWanted
  <2>1. setting \in AllSettings
    BY ConstantsAssumption DEF PinnedInv, StoreInv, TypeOK
  <2>2. Fixed \/ Movable
    BY <2>1 DEF Careful, Honoured, Placed, Rebranched, Fixed, Movable, Clones, Method, AllSettings
  <2>3. CASE Fixed
    BY <2>3 DEF PinnedInv, WantedInv, Wanted, At
  <2>4. CASE Movable
    BY <2>4 DEF PinnedInv, ExactInv, Exact, At
  <2> QED BY <2>2, <2>3, <2>4
<1> QED BY <1>1, InitPinned, NextPinned, PTL DEF Spec
-----------------------------------------------------------------------------
(* Complete source trees.                                                  *)

\* Copies do not fail, and no kill leaves a part of a tree beside the hash of a clone's
\* earlier revision.
Tidy == "cp" \notin Faults /\ (Placed => "kill" \notin Faults)

\* Nothing replaces a complete download, except a clone that is pinned elsewhere.
LEMMA Settled ==
  ASSUME StoreInv, ~ Placed, NEW w \in Workspaces, Step(w), ~ At(w, "hashing"),
         hash # Absent, pkg # Absent, pkg.whole
  PROVE  hash' = hash /\ pkg' = pkg /\ ~ At(w, "hashing")'
<1>a. TypeOK /\ Stage(w) BY DEF StoreInv
<1> USE <1>a DEF TypeOK, Stage, Critical, GoTo, At, store
<1>1. CASE Probe(w) \/ Sum(w) \/ Lock(w)
  BY <1>1 DEF Probe, Sum, Lock
<1>2. CASE FetchNew(w) \/ FetchKept(w) \/ FetchChanged(w)
  BY <1>2 DEF FetchNew, FetchKept, FetchChanged, Changed, Placed
<1>3. CASE Switch(w) \/ SwitchFails(w) \/ MirrorMiss(w) \/ MirrorServes(w)
  BY <1>3 DEF Switch, SwitchFails, MirrorMiss, MirrorServes, Breaks, Leave
<1>4. CASE MirrorRight(w) \/ MirrorWrong(w) \/ MirrorBreaks(w) \/ Pull(w)
  BY <1>4 DEF MirrorRight, MirrorWrong, MirrorBreaks, Pull, Unwanted
<1>5. CASE OriginServes(w) \/ OriginEnds(w) \/ OriginBreaks(w)
           \/ OriginWrong(w) \/ OriginErrorPage(w)
  BY <1>5 DEF OriginServes, OriginEnds, OriginBreaks, OriginWrong, OriginErrorPage, Breaks, Leave
<1>6. CASE Reset(w) \/ ResetElsewhere(w) \/ ResetFails(w)
  BY <1>6 DEF Reset, ResetElsewhere, ResetFails, Breaks, Fails, Leave
<1>7. CASE WriteHash(w) \/ HashWritten(w)
  BY <1>7 DEF WriteHash, HashWritten
<1>8. CASE FetchOnly(w) \/ UnpackKept(w) \/ UnpackNew(w) \/ Removed(w)
  BY <1>8 DEF FetchOnly, UnpackKept, UnpackNew, Removed, UpToDate, Leave
<1>9. CASE Extracted(w) \/ Invalid(w) \/ CopyFails(w) \/ Seal(w)
  BY <1>9 DEF Extracted, Invalid, CopyFails, Seal, Fails, Leave
<1> QED BY <1>1, <1>2, <1>3, <1>4, <1>5, <1>6, <1>7, <1>8, <1>9 DEF Step

\* Only UnpackNew starts to remove a tree, and only Seal writes the hash of one.
LEMMA OnlyUnpackRemoves ==
  ASSUME TypeOK, NEW w \in Workspaces, Step(w), UpToDate(w), ~ At(w, "remove")
  PROVE  ~ At(w, "remove")'
<1> USE DEF TypeOK, GoTo, At
<1>1. CASE Probe(w) \/ Sum(w) \/ Lock(w)
  BY <1>1 DEF Probe, Sum, Lock
<1>2. CASE FetchNew(w) \/ FetchKept(w) \/ FetchChanged(w)
  BY <1>2 DEF FetchNew, FetchKept, FetchChanged, Changed, Placed
<1>3. CASE Switch(w) \/ SwitchFails(w) \/ MirrorMiss(w) \/ MirrorServes(w)
  BY <1>3 DEF Switch, SwitchFails, MirrorMiss, MirrorServes, Breaks, Leave
<1>4. CASE MirrorRight(w) \/ MirrorWrong(w) \/ MirrorBreaks(w) \/ Pull(w)
  BY <1>4 DEF MirrorRight, MirrorWrong, MirrorBreaks, Pull, Unwanted
<1>5. CASE OriginServes(w) \/ OriginEnds(w) \/ OriginBreaks(w)
           \/ OriginWrong(w) \/ OriginErrorPage(w)
  BY <1>5 DEF OriginServes, OriginEnds, OriginBreaks, OriginWrong, OriginErrorPage, Breaks, Leave
<1>6. CASE Reset(w) \/ ResetElsewhere(w) \/ ResetFails(w)
  BY <1>6 DEF Reset, ResetElsewhere, ResetFails, Breaks, Fails, Leave
<1>7. CASE WriteHash(w) \/ HashWritten(w)
  BY <1>7 DEF WriteHash, HashWritten
<1>8. CASE FetchOnly(w) \/ UnpackKept(w) \/ UnpackNew(w) \/ Removed(w)
  BY <1>8 DEF FetchOnly, UnpackKept, UnpackNew, Removed, UpToDate, Leave
<1>9. CASE Extracted(w) \/ Invalid(w) \/ CopyFails(w) \/ Seal(w)
  BY <1>9 DEF Extracted, Invalid, CopyFails, Seal, Fails, Leave
<1> QED BY <1>1, <1>2, <1>3, <1>4, <1>5, <1>6, <1>7, <1>8, <1>9 DEF Step

LEMMA OnlySealSeals ==
  ASSUME TypeOK, NEW w \in Workspaces, Step(w), ~ Seal(w), outhash'[w] # Absent
  PROVE  outhash'[w] = outhash[w]
<1> USE DEF TypeOK, tree
<1>1. CASE Probe(w) \/ Sum(w) \/ Lock(w)
  BY <1>1 DEF Probe, Sum, Lock
<1>2. CASE FetchNew(w) \/ FetchKept(w) \/ FetchChanged(w)
  BY <1>2 DEF FetchNew, FetchKept, FetchChanged, Changed, Placed
<1>3. CASE Switch(w) \/ SwitchFails(w) \/ MirrorMiss(w) \/ MirrorServes(w)
  BY <1>3 DEF Switch, SwitchFails, MirrorMiss, MirrorServes, Breaks, Leave
<1>4. CASE MirrorRight(w) \/ MirrorWrong(w) \/ MirrorBreaks(w) \/ Pull(w)
  BY <1>4 DEF MirrorRight, MirrorWrong, MirrorBreaks, Pull, Unwanted
<1>5. CASE OriginServes(w) \/ OriginEnds(w) \/ OriginBreaks(w)
           \/ OriginWrong(w) \/ OriginErrorPage(w)
  BY <1>5 DEF OriginServes, OriginEnds, OriginBreaks, OriginWrong, OriginErrorPage, Breaks, Leave
<1>6. CASE Reset(w) \/ ResetElsewhere(w) \/ ResetFails(w)
  BY <1>6 DEF Reset, ResetElsewhere, ResetFails, Breaks, Fails, Leave
<1>7. CASE WriteHash(w) \/ HashWritten(w)
  BY <1>7 DEF WriteHash, HashWritten
<1>8. CASE FetchOnly(w) \/ UnpackKept(w) \/ UnpackNew(w) \/ Removed(w)
  BY <1>8 DEF FetchOnly, UnpackKept, UnpackNew, Removed, UpToDate, Leave
<1>9. CASE Extracted(w) \/ Invalid(w) \/ CopyFails(w) \/ Seal(w)
  BY <1>9 DEF Extracted, Invalid, CopyFails, Seal, Fails, Leave
<1> QED BY <1>1, <1>2, <1>3, <1>4, <1>5, <1>6, <1>7, <1>8, <1>9 DEF Step

\* A step of the script keeps what Complete says of the tree of its workspace ...
LEMMA StepTree ==
  ASSUME Tidy, WholeInv, NEW w \in Workspaces, Step(w)
  PROVE  /\ pc'[w] \in {"probe", "sum"} => job'[w] = "check"
         /\ outhash'[w] # Absent => out'[w] # Absent /\ (out'[w].whole \/ At(w, "remove")')
         /\ At(w, "extract")' => outhash'[w] = Absent
         /\ At(w, "seal")' => out'[w] # Absent /\ out'[w].whole /\ pkg'.whole
         /\ At(w, "done")' /\ job'[w] = "build" => out'[w] # Absent /\ out'[w].whole
<1>a. TypeOK /\ Stage(w) /\ Complete(w) /\ "cp" \notin Faults
  BY DEF Tidy, WholeInv, StoreInv
<1>b. pkg # Absent => /\ Whole(pkg.ver) # Absent /\ Whole(pkg.ver).whole /\ Cut(pkg.ver) # Absent
  BY <1>a, Values DEF TypeOK
<1>c. out[w] # Absent => Cut(out[w].ver) # Absent
  BY <1>a, Values DEF TypeOK
<1> USE <1>a, <1>b, <1>c DEF TypeOK, Stage, Complete, Critical, GoTo, At, store, tree, call
<1>1. CASE Probe(w) BY <1>1 DEF Probe
<1>2. CASE Sum(w) BY <1>2 DEF Sum
<1>3. CASE Lock(w) BY <1>3 DEF Lock
<1>4. CASE FetchNew(w) BY <1>4 DEF FetchNew
<1>5. CASE FetchKept(w) BY <1>5 DEF FetchKept, Changed
<1>6. CASE FetchChanged(w) BY <1>6 DEF FetchChanged, Changed
<1>7. CASE Switch(w) BY <1>7 DEF Switch
<1>8. CASE SwitchFails(w) BY <1>8 DEF SwitchFails, Breaks, Leave
<1>9. CASE MirrorMiss(w) BY <1>9 DEF MirrorMiss
<1>10. CASE MirrorServes(w) BY <1>10 DEF MirrorServes, Served
<1>11. CASE MirrorRight(w) BY <1>11 DEF MirrorRight, Unwanted
<1>12. CASE MirrorWrong(w) BY <1>12 DEF MirrorWrong, Unwanted
<1>13. CASE MirrorBreaks(w) BY <1>13 DEF MirrorBreaks
<1>14. CASE Pull(w) BY <1>14 DEF Pull
<1>15. CASE OriginServes(w) BY <1>15 DEF OriginServes, Offered
<1>16. CASE OriginEnds(w) BY <1>16 DEF OriginEnds
<1>17. CASE OriginBreaks(w) BY <1>17 DEF OriginBreaks, Breaks, Leave
<1>18. CASE OriginWrong(w) BY <1>18 DEF OriginWrong, Breaks, Leave
<1>19. CASE OriginErrorPage(w) BY <1>19 DEF OriginErrorPage
<1>20. CASE Reset(w) BY <1>20 DEF Reset
<1>21. CASE ResetElsewhere(w) BY <1>21 DEF ResetElsewhere, Fails, Leave
<1>22. CASE ResetFails(w) BY <1>22 DEF ResetFails, Breaks, Leave
<1>23. CASE WriteHash(w) BY <1>23 DEF WriteHash
<1>24. CASE HashWritten(w) BY <1>24 DEF HashWritten
<1>25. CASE FetchOnly(w) BY <1>25 DEF FetchOnly, Leave
<1>26. CASE UnpackKept(w) BY <1>26 DEF UnpackKept, UpToDate, Leave
<1>27. CASE UnpackNew(w) BY <1>27 DEF UnpackNew, UpToDate
<1>28. CASE Removed(w) BY <1>28 DEF Removed
<1>29. CASE Extracted(w) BY <1>29 DEF Extracted
<1>30. CASE Invalid(w) BY <1>30 DEF Invalid, Fails, Leave
<1>31. CASE CopyFails(w) BY <1>31 DEF CopyFails
<1>32. CASE Seal(w) BY <1>32 DEF Seal, Leave
<1> QED BY <1>1, <1>2, <1>3, <1>4, <1>5, <1>6, <1>7, <1>8, <1>9, <1>10,
       <1>11, <1>12, <1>13, <1>14, <1>15, <1>16, <1>17, <1>18, <1>19, <1>20,
       <1>21, <1>22, <1>23, <1>24, <1>25, <1>26, <1>27, <1>28, <1>29, <1>30,
       <1>31, <1>32 DEF Step

\* ... and what it says of the download.
LEMMA StepComplete ==
  ASSUME Tidy, WholeInv, NEW w \in Workspaces, Step(w)
  PROVE  Complete(w)'
<1>a. TypeOK /\ Stage(w) /\ Complete(w) /\ StoreInv
  BY DEF WholeInv, StoreInv
<1>b. Placed' <=> Placed
  BY <1>a, Frame DEF Placed, Rebranched, Clones, Pinned, Method, Faults
<1>1. ASSUME ~ Placed, outhash'[w] # Absent
      PROVE  /\ outhash'[w] = hash' /\ pkg' # Absent /\ pkg'.whole
             /\ ~ At(w, "remove")' /\ \A u \in Workspaces : ~ At(u, "hashing")'
  <2>1. CASE Seal(w)
    <3>1. /\ At(w, "seal") /\ outhash'[w] = hash /\ UNCHANGED <<pkg, hash>>
          /\ pc'[w] \in {"sum", "done"}
      BY <2>1, <1>a DEF Seal, Leave, GoTo, TypeOK, store
    <3>2. \A u \in Workspaces : At(u, "hashing") => u = w
      BY <3>1, <1>a DEF StoreInv, Stage, At, Critical
    <3>3. \A u \in Workspaces : ~ At(u, "hashing")'
      BY <3>1, <3>2, <1>a, Locality DEF At, Same
    <3> QED BY <3>1, <3>3, <1>a DEF Complete, Stage, At, Critical
  <2>2. CASE outhash'[w] = outhash[w] /\ outhash[w] # Absent
    <3>1. /\ outhash[w] = hash /\ pkg # Absent /\ pkg.whole /\ out[w] # Absent
          /\ ~ At(w, "remove") /\ \A u \in Workspaces : ~ At(u, "hashing")
      BY <2>2, <1>1, <1>a DEF Complete
    <3>2. hash' = hash /\ pkg' = pkg /\ ~ At(w, "hashing")'
      BY <2>2, <1>1, <1>a, <3>1, Settled
    <3>3. \A u \in Workspaces : ~ At(u, "hashing")'
      BY <3>1, <3>2, <1>a, Locality DEF At, Same
    <3>4. UpToDate(w)
      BY <2>2, <3>1 DEF UpToDate
    <3>5. ~ At(w, "remove")'
      BY <3>1, <3>4, <1>a, OnlyUnpackRemoves
    <3> QED BY <2>2, <3>1, <3>2, <3>3, <3>5
  <2> QED BY <1>1, <1>a, <2>1, <2>2, OnlySealSeals
<1> QED BY <1>b, <1>1, StepTree DEF Complete

LEMMA OutsideComplete ==
  ASSUME WholeInv, NEW w \in Workspaces, Step(w), NEW u \in Workspaces, u # w
  PROVE  Complete(u)'
<1>a. TypeOK /\ Stage(w) /\ Stage(u) /\ Complete(u) /\ Same(u) /\ setting' = setting /\ StoreInv
  BY Locality, Frame DEF WholeInv, StoreInv
<1>1. At(u, "seal") => pkg' = pkg
  BY <1>a, Frame DEF Stage, At, Critical
<1>2. ASSUME ~ Placed, outhash[u] # Absent
      PROVE  hash' = hash /\ pkg' = pkg /\ \A v \in Workspaces : ~ At(v, "hashing")'
  <2>1. /\ hash # Absent /\ pkg # Absent /\ pkg.whole
        /\ \A v \in Workspaces : ~ At(v, "hashing")
    BY <1>2, <1>a DEF Complete
  <2>2. hash' = hash /\ pkg' = pkg /\ ~ At(w, "hashing")'
    BY <1>2, <1>a, <2>1, Settled
  <2> QED BY <1>a, <2>1, <2>2, Locality DEF At, Same
<1> QED BY <1>a, <1>1, <1>2 DEF Complete, Same, At, Placed, Rebranched, Clones, Pinned, Method,
    Faults

LEMMA UserComplete ==
  ASSUME Tidy, WholeInv, NEW w \in Workspaces, Kill(w) \/ \E j \in Jobs : Begin(w, j)
  PROVE  WholeInv'
<1>a. TypeOK /\ (\A u \in Workspaces : Stage(u) /\ Complete(u))
  BY DEF WholeInv, StoreInv
<1>b. UNCHANGED <<setting, pkg, hash, out, outhash>>
  BY DEF Kill, Begin, store, tree, call
<1>c. \A u \in Workspaces : At(u, "hashing")' => At(u, "hashing")
  BY <1>a DEF Kill, Begin, TypeOK, At, GoTo
<1>d. "kill" \notin Faults => ~ Kill(w)
  BY DEF Kill
<1>1. StoreInv' BY UserStore DEF WholeInv
<1>2. pc'[w] \in {"idle", "probe", "lock"} /\ (pc'[w] = "probe" => job'[w] = "check")
  BY <1>a DEF Kill, Begin, TypeOK, GoTo
<1>3. At(w, "remove") => ~ (\E j \in Jobs : Begin(w, j))
  BY DEF Begin, At, Rest
<1>4. Complete(w)'
  <2>1. CASE At(w, "remove") /\ outhash[w] # Absent
    <3>1. Placed
      BY <1>a, <2>1 DEF Complete
    <3> QED BY <2>1, <3>1, <1>d, <1>3 DEF Tidy
  <2>2. CASE ~ At(w, "remove") \/ outhash[w] = Absent
    BY <1>a, <1>b, <1>c, <1>2, <2>2 DEF Complete, At, Placed, Rebranched, Clones, Pinned,
        Method, Faults
  <2> QED BY <2>1, <2>2
<1>5. ASSUME NEW u \in Workspaces, u # w PROVE Complete(u)'
  BY <1>a, <1>b, <1>c, <1>5, Locality DEF Same, Complete, At, Placed, Rebranched, Clones,
      Pinned, Method, Faults
<1> QED BY <1>1, <1>4, <1>5 DEF WholeInv

LEMMA NextWhole ==
  ASSUME Tidy PROVE WholeInv /\ [Next]_vars => WholeInv'
<1> SUFFICES ASSUME WholeInv, [Next]_vars PROVE WholeInv' OBVIOUS
<1>1. StoreInv' BY NextStore DEF WholeInv
<1>2. ASSUME NEW w \in Workspaces, Step(w) PROVE WholeInv'
  BY <1>1, <1>2, StepComplete, OutsideComplete DEF WholeInv
<1>3. ASSUME NEW w \in Workspaces, Kill(w) \/ \E j \in Jobs : Begin(w, j)
      PROVE  WholeInv'
  BY <1>3, UserComplete
<1>4. CASE (\E v \in Versions : Change(v)) \/ UNCHANGED vars
  BY <1>1, <1>4 DEF Change, vars, WholeInv, Complete, At, Placed, Rebranched, Clones, Pinned,
      Method, Faults, store, tree
<1> QED BY <1>2, <1>3, <1>4 DEF Next

CarefulInv == PinnedInv /\ (Tidy => WholeInv)

\* A build goes on only with a complete source tree: for every number of workspaces, every
\* kind of recipe and mirror, and whatever is killed, breaks off, is missing or is edited, but
\* for the exceptions that Careful names.
THEOREM SourceIsWhole == Spec => []DoneIsWhole
<1>1. Init => CarefulInv
  <2>1. Init => \A w \in Workspaces : Complete(w)
    BY DEF Init, Complete, At
  <2> QED BY <2>1, InitStore, InitPinned DEF CarefulInv, WholeInv
<1>2. CarefulInv /\ [Next]_vars => CarefulInv'
  <2> SUFFICES ASSUME CarefulInv, [Next]_vars PROVE CarefulInv' OBVIOUS
  <2>1. setting' = setting
    BY SettingStays DEF CarefulInv, PinnedInv, StoreInv
  <2>2. Tidy' => Tidy
    BY <2>1 DEF Tidy, Placed, Rebranched, Pinned, Clones, Method, Faults
  <2> QED BY <2>2, NextPinned, NextWhole DEF CarefulInv
<1>3. CarefulInv => DoneIsWhole
  <2> SUFFICES ASSUME CarefulInv, Careful, NEW w \in Workspaces, At(w, "done"), job[w] = "build"
               PROVE  out[w] # Absent /\ out[w].whole
    BY DEF DoneIsWhole
  <2>1. CASE Tidy
    BY <2>1 DEF CarefulInv, WholeInv, Complete
  <2>2. CASE ~ Tidy
    <3>1. Fixed
      BY <2>2 DEF Tidy, Careful, Placed, Fixed, Rebranched
    <3>2. out[w] = Whole(want) /\ want \in Versions
      BY <3>1 DEF CarefulInv, PinnedInv, WantedInv, Wanted, StoreInv, TypeOK
    <3> QED BY <3>2, Values
  <2> QED BY <2>1, <2>2
<1> QED BY <1>1, <1>2, <1>3, PTL DEF Spec
-----------------------------------------------------------------------------
(* Healing.                                                                *)

\* A step that fails on a damaged package finds it for the first time.
LEMMA StepHeal ==
  ASSUME HealInv, ~ (Method = "svn" /\ Pinned), NEW w \in Workspaces, Step(w), strikes' > 0
  PROVE  /\ strikes' = 1
         /\ hash' # Absent => pkg' # Absent /\ pkg'.whole
         /\ pc'[w] \in {"pull", "hash", "hashing"} => pkg'.whole
<1>a. /\ TypeOK /\ Stage(w)
      /\ strikes > 0 => /\ strikes = 1
                        /\ hash # Absent => pkg # Absent /\ pkg.whole
                        /\ pc[w] \in {"pull", "hash", "hashing"} => pkg.whole
  BY DEF HealInv, StoreInv
<1>b. /\ \A v \in Versions : Whole(v) # Absent /\ Whole(v).whole
      /\ pkg # Absent => Whole(pkg.ver).whole
  BY <1>a, Values DEF TypeOK
<1> USE <1>a, <1>b DEF TypeOK, Stage, Critical, Placed, Rebranched, Clones, Pinned, Method,
    GoTo, At, store, StrikesBound
<1>1. CASE Probe(w) BY <1>1 DEF Probe
<1>2. CASE Sum(w) BY <1>2 DEF Sum
<1>3. CASE Lock(w) BY <1>3 DEF Lock
<1>4. CASE FetchNew(w) BY <1>4 DEF FetchNew
<1>5. CASE FetchKept(w) BY <1>5 DEF FetchKept, Changed
<1>6. CASE FetchChanged(w) BY <1>6 DEF FetchChanged, Changed
<1>7. CASE Switch(w) BY <1>7 DEF Switch
<1>8. CASE SwitchFails(w) BY <1>8 DEF SwitchFails, Breaks, Leave
<1>9. CASE MirrorMiss(w) BY <1>9 DEF MirrorMiss
<1>10. CASE MirrorServes(w) BY <1>10 DEF MirrorServes, Served
<1>11. CASE MirrorRight(w) BY <1>11 DEF MirrorRight, Unwanted
<1>12. CASE MirrorWrong(w) BY <1>12 DEF MirrorWrong, Unwanted
<1>13. CASE MirrorBreaks(w) BY <1>13 DEF MirrorBreaks
<1>14. CASE Pull(w) BY <1>14 DEF Pull
<1>15. CASE OriginServes(w) BY <1>15 DEF OriginServes, Offered
<1>16. CASE OriginEnds(w) BY <1>16 DEF OriginEnds
<1>17. CASE OriginBreaks(w) BY <1>17 DEF OriginBreaks, Breaks, Leave
<1>18. CASE OriginWrong(w) BY <1>18 DEF OriginWrong, Breaks, Leave
<1>19. CASE OriginErrorPage(w) BY <1>19 DEF OriginErrorPage
<1>20. CASE Reset(w) BY <1>20 DEF Reset
<1>21. CASE ResetElsewhere(w) BY <1>21 DEF ResetElsewhere, Fails, Leave
<1>22. CASE ResetFails(w) BY <1>22 DEF ResetFails, Breaks, Leave
<1>23. CASE WriteHash(w) BY <1>23 DEF WriteHash
<1>24. CASE HashWritten(w) BY <1>24 DEF HashWritten
<1>25. CASE FetchOnly(w) BY <1>25 DEF FetchOnly, Leave
<1>26. CASE UnpackKept(w) BY <1>26 DEF UnpackKept, UpToDate, Leave
<1>27. CASE UnpackNew(w) BY <1>27 DEF UnpackNew, UpToDate
<1>28. CASE Removed(w) BY <1>28 DEF Removed
<1>29. CASE Extracted(w) BY <1>29 DEF Extracted
<1>30. CASE Invalid(w) BY <1>30 DEF Invalid, Fails, Leave
<1>31. CASE CopyFails(w) BY <1>31 DEF CopyFails
<1>32. CASE Seal(w) BY <1>32 DEF Seal, Leave
<1> QED BY <1>1, <1>2, <1>3, <1>4, <1>5, <1>6, <1>7, <1>8, <1>9, <1>10,
       <1>11, <1>12, <1>13, <1>14, <1>15, <1>16, <1>17, <1>18, <1>19, <1>20,
       <1>21, <1>22, <1>23, <1>24, <1>25, <1>26, <1>27, <1>28, <1>29, <1>30,
       <1>31, <1>32 DEF Step

\* With a package in the hands of one shell, the others are not in the script.
LEMMA NextHeal == HealInv /\ [Next]_vars => HealInv'
<1> SUFFICES ASSUME HealInv, [Next]_vars, strikes' > 0, ~ (Method = "svn" /\ Pinned)
             PROVE  /\ strikes' = 1
                    /\ hash' # Absent => pkg' # Absent /\ pkg'.whole
                    /\ \A w \in Workspaces : pc'[w] \in {"pull", "hash", "hashing"} => pkg'.whole
  <2>1. HealInv => StoreInv /\ TypeOK
    BY DEF HealInv, StoreInv
  <2> QED BY <2>1, NextStore, SettingStays DEF HealInv, Method, Pinned
<1>a. TypeOK /\ \A w \in Workspaces : Stage(w)
  BY DEF HealInv, StoreInv
<1>1. ASSUME NEW w \in Workspaces, Step(w), NEW u \in Workspaces, u # w,
             pc'[u] \in {"pull", "hash", "hashing"}
      PROVE  pkg'.whole
  <2>1. pc[u] \in {"pull", "hash", "hashing"}
    BY <1>1, <1>a, Locality DEF Same
  <2>2. owner = u /\ pc[w] \notin Critical
    BY <1>1, <1>a, <2>1 DEF Stage, Critical
  <2>3. pkg' = pkg /\ strikes' = strikes
    BY <1>1, <1>a, <2>2, Frame
  <2> QED BY <2>1, <2>3 DEF HealInv
<1>2. ASSUME NEW w \in Workspaces, Step(w)
      PROVE  /\ strikes' = 1
             /\ hash' # Absent => pkg' # Absent /\ pkg'.whole
             /\ \A u \in Workspaces : pc'[u] \in {"pull", "hash", "hashing"} => pkg'.whole
  BY <1>1, <1>2, StepHeal
<1>3. ASSUME NEW w \in Workspaces, Kill(w) PROVE FALSE
  BY <1>3 DEF Kill
<1>4. ASSUME NEW w \in Workspaces, NEW j \in Jobs, Begin(w, j)
      PROVE  /\ strikes' = 1
             /\ hash' # Absent => pkg' # Absent /\ pkg'.whole
             /\ \A u \in Workspaces : pc'[u] \in {"pull", "hash", "hashing"} => pkg'.whole
  BY <1>4, <1>a DEF Begin, HealInv, TypeOK, GoTo, store
<1>5. CASE (\E v \in Versions : Change(v)) \/ UNCHANGED vars
  BY <1>5 DEF Change, vars, HealInv, store
<1> QED BY <1>2, <1>3, <1>4, <1>5 DEF Next

\* When nothing goes wrong any more, at most one run still fails, the one that finds a damaged
\* archive and removes it: for every number of workspaces and every kind of recipe but svn
\* with a revision.
THEOREM FailuresHeal == Spec => []RetryHeals
<1>1. Init => HealInv
  BY InitStore DEF Init, HealInv
<1>2. HealInv => RetryHeals
  BY DEF HealInv, StoreInv, TypeOK, RetryHeals, StrikesBound
<1> QED BY <1>1, <1>2, NextHeal, PTL DEF Spec
=============================================================================
