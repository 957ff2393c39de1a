----------------------------- MODULE FetchPackage -----------------------------
(***************************************************************************)
(* scripts/bin/fetch_package.sh: one package (SRC_NAME) is downloaded into *)
(* ENV_DOWN_DIR from the mirror or from its origin, and unpacked into the  *)
(* output tree of a workspace.  ENV_DOWN_DIR is shared by the workspaces;  *)
(* do_fetch of inc.cache.mk and get_source_checksum of process_cache.sh    *)
(* run the script under one flock per package.                             *)
(*                                                                         *)
(* A file, a clone or an unpacked tree is the version it holds and whether *)
(* it is complete; the hash file beside it holds the identity of a         *)
(* content.  zip behaves as tar.  Which commands bring a clone to another  *)
(* branch, tag or revision is the subject of GitClone.                     *)
(***************************************************************************)
EXTENDS Naturals, FiniteSets

CONSTANTS
  Workspaces,   \* the output trees that share ENV_DOWN_DIR
  Versions,     \* what the package's name can stand for
  Settings,     \* the kinds of recipe and of environment, see AllSettings
  Absent,       \* a file that does not exist
  Empty         \* a hash file that has been opened and not written

\* "kill":   a run is interrupted
\* "net":    a transfer breaks off
\* "origin": the origin does not have what the recipe asks for; where that is
\*           an archive, curl saves the error page and succeeds
\* "cp":     the copy of a clone into the output tree fails
\* "change": the recipe is edited, or the unpinned origin moves on
\* "branch": the recipe of a git clone also names a branch, or a tag beside its revision, and
\*           that is edited
FaultNames == {"kill", "net", "origin", "cp", "change", "branch"}

Contents == [ver : Versions, whole : BOOLEAN]
Hashes   == Contents \cup {Empty}

\* FETCH_METHOD; is there a md5 (tar), or a tag or revision; the versions that
\* the mirror server may hold; what can go wrong.
AllSettings == [method : {"tar", "git", "svn"}, pinned : BOOLEAN,
                mirror : SUBSET Versions, faults : SUBSET FaultNames]

ASSUME ConstantsAssumption ==
  /\ Settings \subseteq AllSettings
  /\ Empty \notin Contents
  /\ Absent \notin Hashes \cup Workspaces

VARIABLES
  setting,  \* one of Settings, for ever
  want,     \* what the recipe asks for now
  pkg,      \* ENV_DOWN_DIR/<package>: the archive or the clone
  hash,     \* ENV_DOWN_DIR/<package>.src.hash
  owner,    \* the workspace that holds the flock
  pc,       \* where the shell of a workspace is
  job,      \* what it runs, see Jobs
  arg,      \* the version its recipe asked for when it started
  out,      \* OUT_PATH/<dir>: the unpacked source
  outhash,  \* OUT_PATH/<dir>.src.hash
  key,      \* the source checksum process_cache.sh found
  strikes   \* history: the runs that failed since the last fault

vars  == <<setting, want, pkg, hash, owner, pc, job, arg, out, outhash, key, strikes>>
store == <<pkg, hash>>                          \* shared
tree  == <<out, outhash>>                       \* private
call  == <<setting, want, job, arg, key>>

\* "build": do_fetch; "fetch": dofetch, no unpacking; "check": the checksum.
Jobs == {"build", "fetch", "check"}
Rest == {"idle", "done", "failed"}
Critical == {"fetch", "mirror", "mcurl", "pull", "origin", "ocurl", "reset",
             "switch", "hash", "hashing", "unpack", "remove", "extract", "seal"}
Locs == Rest \cup Critical \cup {"probe", "lock", "sum"}
StrikesBound == 2

Whole(v)   == [ver |-> v, whole |-> TRUE]
Cut(v)     == [ver |-> v, whole |-> FALSE]
At(w, l)   == pc[w] = l
GoTo(w, l) == pc' = [pc EXCEPT ![w] = l]

Method == setting.method
Pinned == setting.pinned
Mirror == setting.mirror
Faults == setting.faults
Clones == Method # "tar"

\* git finds the clone at another branch than the recipe's, or the clone beside another tag.
Rebranched == Method = "git" /\ "branch" \in Faults

\* The recipe says where the clone must be, beyond where `git clone` leaves it.
Placed == (Clones /\ Pinned) \/ Rebranched

\* The name of a clone's tarball on the mirror contains the tag or revision,
\* the name of an archive only what the recipe put into it.
Served(w) == IF Clones /\ Pinned THEN {arg[w]} \cap Mirror ELSE Mirror

\* A pinned clone is at some head until it is reset, an archive is what its
\* URL names.
Offered(w) == IF ~ Pinned THEN {want}
              ELSE IF Clones THEN Versions
              ELSE {arg[w]}

\* The script exits and the lock is free; a check goes on without looking at
\* the exit status.
Leave(w, l) ==
  /\ owner' = Absent
  /\ GoTo(w, IF job[w] = "check" THEN "sum" ELSE l)
Fails(w) ==
  /\ Leave(w, "failed")
  /\ strikes' = IF strikes < StrikesBound THEN strikes + 1 ELSE strikes
Breaks(w) ==
  /\ Leave(w, "failed")
  /\ strikes' = 0

Init ==
  /\ setting \in Settings
  /\ want \in Versions
  /\ pkg = Absent
  /\ hash = Absent
  /\ owner = Absent
  /\ pc  = [w \in Workspaces |-> "idle"]
  /\ job = [w \in Workspaces |-> "build"]
  /\ arg = [w \in Workspaces |-> want]
  /\ out = [w \in Workspaces |-> Absent]
  /\ outhash = [w \in Workspaces |-> Absent]
  /\ key = [w \in Workspaces |-> Absent]
  /\ strikes = 0
-----------------------------------------------------------------------------
(* Around the script. *)

\* The template gives process_cache.sh a source name only without md5, tag
\* and revision.
Begin(w, j) ==
  /\ pc[w] \in Rest
  /\ j = "check" => ~ Pinned
  /\ job' = [job EXCEPT ![w] = j]
  /\ arg' = [arg EXCEPT ![w] = want]
  /\ key' = [key EXCEPT ![w] = Absent]
  /\ GoTo(w, IF j = "check" THEN "probe" ELSE "lock")
  /\ UNCHANGED <<setting, want, owner, store, tree, strikes>>

\* The checksum only fetches what does not exist, and looks without the lock.
Probe(w) ==
  /\ At(w, "probe")
  /\ GoTo(w, IF pkg = Absent THEN "lock" ELSE "sum")
  /\ UNCHANGED <<owner, store, tree, call, strikes>>

\* Mutant of Sum: the hash file is read, which may still be empty.
SumOfHash(w) ==
  /\ At(w, "sum")
  /\ key' = [key EXCEPT ![w] = hash]
  /\ GoTo(w, IF pkg = Absent THEN "failed" ELSE "done")
  /\ UNCHANGED <<setting, want, job, arg, owner, store, tree, strikes>>

Sum(w) ==
  /\ At(w, "sum")
  /\ key' = [key EXCEPT ![w] = pkg]
  /\ GoTo(w, IF pkg = Absent THEN "failed" ELSE "done")
  /\ UNCHANGED <<setting, want, job, arg, owner, store, tree, strikes>>

Lock(w) ==
  /\ At(w, "lock")
  /\ owner = Absent
  /\ owner' = w
  /\ GoTo(w, "fetch")
  /\ UNCHANGED <<store, tree, call, strikes>>
-----------------------------------------------------------------------------
(* do_fetch *)

Changed(w) == Clones /\ Pinned /\ pkg.ver # arg[w]

FetchNew(w) ==
  /\ At(w, "fetch")
  /\ pkg = Absent \/ hash = Absent
  /\ pkg'  = Absent
  /\ hash' = Absent
  /\ GoTo(w, "mirror")
  /\ UNCHANGED <<owner, tree, call, strikes>>

FetchKept(w) ==
  /\ At(w, "fetch")
  /\ pkg # Absent /\ hash # Absent
  /\ ~ Changed(w)
  /\ GoTo(w, "unpack")
  /\ UNCHANGED <<owner, store, tree, call, strikes>>

\* The clone is at another revision than the recipe names, or at another branch.
FetchChanged(w) ==
  /\ At(w, "fetch")
  /\ pkg # Absent /\ hash # Absent
  /\ Changed(w) \/ Rebranched
  /\ hash' = Absent
  /\ GoTo(w, "switch")
  /\ UNCHANGED <<pkg, owner, tree, call, strikes>>

\* git pull, git checkout and git reset, or svn update, in the clone. Whether to reset has
\* been decided before the pull and the checkout: with a new branch the clone may end at the
\* head of that, although it was at the pin before.
Switch(w) ==
  /\ At(w, "switch")
  /\ \E v \in (IF Rebranched THEN Versions ELSE {arg[w]}) : pkg' = Whole(v)
  /\ GoTo(w, "hash")
  /\ UNCHANGED <<hash, owner, tree, call, strikes>>

SwitchFails(w) ==
  /\ At(w, "switch")
  /\ Faults \cap {"net", "origin", "branch"} # {}
  /\ Breaks(w)
  /\ UNCHANGED <<store, tree, call>>

\* No mirror, no such file on it, or no answer within five seconds.
MirrorMiss(w) ==
  /\ At(w, "mirror")
  /\ GoTo(w, "origin")
  /\ UNCHANGED <<owner, store, tree, call, strikes>>

\* curl writes an archive under its final name, tar unpacks a clone there.
MirrorServes(w) ==
  /\ At(w, "mirror")
  /\ \E v \in Served(w) : pkg' = Cut(v)
  /\ GoTo(w, "mcurl")
  /\ UNCHANGED <<hash, owner, tree, call, strikes>>

Unwanted(w) == ~ Clones /\ Pinned /\ pkg.ver # arg[w]

MirrorRight(w) ==
  /\ At(w, "mcurl")
  /\ ~ Unwanted(w)
  /\ pkg' = Whole(pkg.ver)
  /\ GoTo(w, IF Clones /\ ~ Pinned THEN "pull" ELSE "hash")
  /\ UNCHANGED <<hash, owner, tree, call, strikes>>

\* Mutant of MirrorWrong: the archive of the mirror is not verified.
MirrorUnverified(w) ==
  /\ At(w, "mcurl")
  /\ Unwanted(w)
  /\ pkg' = Whole(pkg.ver)
  /\ GoTo(w, "hash")
  /\ UNCHANGED <<hash, owner, tree, call, strikes>>

\* The md5 does not agree: try the origin.
MirrorWrong(w) ==
  /\ At(w, "mcurl")
  /\ Unwanted(w)
  /\ pkg' = Absent
  /\ GoTo(w, "origin")
  /\ UNCHANGED <<hash, owner, tree, call, strikes>>

\* The status of curl is ignored: the md5 or tar finds the damage, and
\* nothing finds it in an archive without md5.
MirrorBreaks(w) ==
  /\ At(w, "mcurl")
  /\ "net" \in Faults
  /\ IF ~ Clones /\ ~ Pinned
       THEN pkg' = pkg    /\ GoTo(w, "hash")
       ELSE pkg' = Absent /\ GoTo(w, "origin")
  /\ strikes' = 0
  /\ UNCHANGED <<hash, owner, tree, call>>

\* git pull or svn update after a clone came from the mirror; its status is ignored.
Pull(w) ==
  /\ At(w, "pull")
  /\ pkg' \in {Whole(want)} \cup (IF "net" \in Faults THEN {pkg} ELSE {})
  /\ GoTo(w, "hash")
  /\ UNCHANGED <<hash, owner, tree, call, strikes>>

OriginServes(w) ==
  /\ At(w, "origin")
  /\ \E v \in Offered(w) : pkg' = Cut(v)
  /\ GoTo(w, "ocurl")
  /\ UNCHANGED <<hash, owner, tree, call, strikes>>

OriginEnds(w) ==
  /\ At(w, "ocurl")
  /\ pkg' = Whole(pkg.ver)
  /\ GoTo(w, IF Placed THEN "reset" ELSE "hash")
  /\ UNCHANGED <<hash, owner, tree, call, strikes>>

\* Mutant of OriginBreaks: the status of the download is ignored.
OriginBreaksUnseen(w) ==
  /\ At(w, "ocurl")
  /\ "net" \in Faults
  /\ GoTo(w, "hash")
  /\ strikes' = 0
  /\ UNCHANGED <<owner, store, tree, call>>

\* curl, git clone or svn checkout fails.
OriginBreaks(w) ==
  /\ At(w, "ocurl")
  /\ "net" \in Faults
  /\ pkg' = Absent
  /\ Breaks(w)
  /\ UNCHANGED <<hash, tree, call>>

\* The md5 of the archive does not agree.
OriginWrong(w) ==
  /\ At(w, "ocurl")
  /\ "origin" \in Faults
  /\ ~ Clones /\ Pinned
  /\ pkg' = Absent
  /\ Breaks(w)
  /\ UNCHANGED <<hash, tree, call>>

\* Without md5 an error page is as good as an archive.
OriginErrorPage(w) ==
  /\ At(w, "ocurl")
  /\ "origin" \in Faults
  /\ ~ Clones /\ ~ Pinned
  /\ strikes' = 0
  /\ GoTo(w, "hash")
  /\ UNCHANGED <<owner, store, tree, call>>

\* git checkout, git reset; without a pin the clone is at the head of the branch.
Reset(w) ==
  /\ At(w, "reset")
  /\ Method = "git"
  /\ \E v \in (IF Pinned THEN {arg[w]} ELSE Versions) : pkg' = Whole(v)
  /\ GoTo(w, "hash")
  /\ UNCHANGED <<hash, owner, tree, call, strikes>>

\* svn update runs where the script was started: there it finds no working
\* copy and fails, or updates a working copy that is not the package.
ResetElsewhere(w) ==
  /\ At(w, "reset")
  /\ Method = "svn"
  /\ \/ Fails(w)
     \/ GoTo(w, "hash") /\ UNCHANGED <<owner, strikes>>
  /\ UNCHANGED <<store, tree, call>>

\* The clone stays, without a hash file.
ResetFails(w) ==
  /\ At(w, "reset")
  /\ Method = "git"
  /\ {"origin", "branch"} \cap Faults # {}
  /\ Breaks(w)
  /\ UNCHANGED <<store, tree, call>>

\* The shell opens the hash file before md5sum has read the archive; the
\* revision of a clone is known when the file is opened.
WriteHash(w) ==
  /\ At(w, "hash")
  /\ IF ~ Clones THEN hash' = Empty /\ GoTo(w, "hashing")
                 ELSE hash' = pkg   /\ GoTo(w, "unpack")
  /\ UNCHANGED <<pkg, owner, tree, call, strikes>>

HashWritten(w) ==
  /\ At(w, "hashing")
  /\ hash' = pkg
  /\ GoTo(w, "unpack")
  /\ UNCHANGED <<pkg, owner, tree, call, strikes>>
-----------------------------------------------------------------------------
(* do_unpack *)

FetchOnly(w) ==
  /\ At(w, "unpack")
  /\ job[w] # "build"
  /\ Leave(w, "done")
  /\ UNCHANGED <<store, tree, call, strikes>>

UpToDate(w) == out[w] # Absent /\ outhash[w] # Absent /\ outhash[w] = hash

UnpackKept(w) ==
  /\ At(w, "unpack")
  /\ job[w] = "build"
  /\ UpToDate(w)
  /\ Leave(w, "done")
  /\ UNCHANGED <<store, tree, call, strikes>>

\* rm -rf <dir> <dir>.src.hash: the directory goes first, file by file.
UnpackNew(w) ==
  /\ At(w, "unpack")
  /\ job[w] = "build"
  /\ ~ UpToDate(w)
  /\ out' = [out EXCEPT ![w] = IF @ = Absent THEN @ ELSE Cut(@.ver)]
  /\ GoTo(w, "remove")
  /\ UNCHANGED <<outhash, owner, store, call, strikes>>

\* Mutant of Removed: the hash file is written before the tree.
RemovedSealsEarly(w) ==
  /\ At(w, "remove")
  /\ out' = [out EXCEPT ![w] = Cut(pkg.ver)]
  /\ outhash' = [outhash EXCEPT ![w] = hash]
  /\ GoTo(w, "extract")
  /\ UNCHANGED <<owner, store, call, strikes>>

\* ... then the hash; the first file is unpacked.
Removed(w) ==
  /\ At(w, "remove")
  /\ out' = [out EXCEPT ![w] = Cut(pkg.ver)]
  /\ outhash' = [outhash EXCEPT ![w] = Absent]
  /\ GoTo(w, "extract")
  /\ UNCHANGED <<owner, store, call, strikes>>

Extracted(w) ==
  /\ At(w, "extract")
  /\ pkg.whole
  /\ out' = [out EXCEPT ![w] = Whole(pkg.ver)]
  /\ GoTo(w, "seal")
  /\ UNCHANGED <<outhash, owner, store, call, strikes>>

\* Mutant of Invalid: the download stays.
InvalidKept(w) ==
  /\ At(w, "extract")
  /\ ~ pkg.whole
  /\ Fails(w)
  /\ UNCHANGED <<store, tree, call>>

\* tar or unzip fails: the download and its hash go.
Invalid(w) ==
  /\ At(w, "extract")
  /\ ~ pkg.whole
  /\ pkg'  = Absent
  /\ hash' = Absent
  /\ Fails(w)
  /\ UNCHANGED <<tree, call>>

\* The status of cp is ignored.
CopyFails(w) ==
  /\ At(w, "extract")
  /\ Clones
  /\ "cp" \in Faults
  /\ strikes' = 0
  /\ GoTo(w, "seal")
  /\ UNCHANGED <<owner, store, tree, call>>

Seal(w) ==
  /\ At(w, "seal")
  /\ outhash' = [outhash EXCEPT ![w] = hash]
  /\ Leave(w, "done")
  /\ UNCHANGED <<out, store, call, strikes>>
-----------------------------------------------------------------------------
(* The user and the environment. *)

\* The kernel releases the lock of a dead process.
Kill(w) ==
  /\ "kill" \in Faults
  /\ pc[w] \notin Rest
  /\ owner' = IF owner = w THEN Absent ELSE owner
  /\ GoTo(w, "idle")
  /\ strikes' = 0
  /\ UNCHANGED <<store, tree, call>>

Change(v) ==
  /\ "change" \in Faults
  /\ v # want
  /\ want' = v
  /\ UNCHANGED <<setting, job, arg, key, pc, owner, store, tree, strikes>>
-----------------------------------------------------------------------------
Step(w) ==
  \/ Probe(w) \/ Sum(w) \/ Lock(w)
  \/ FetchNew(w) \/ FetchKept(w) \/ FetchChanged(w)
  \/ Switch(w) \/ SwitchFails(w)
  \/ MirrorMiss(w) \/ MirrorServes(w) \/ MirrorRight(w) \/ MirrorWrong(w)
  \/ MirrorBreaks(w) \/ Pull(w)
  \/ OriginServes(w) \/ OriginEnds(w) \/ OriginBreaks(w) \/ OriginWrong(w)
  \/ OriginErrorPage(w) \/ Reset(w) \/ ResetElsewhere(w) \/ ResetFails(w)
  \/ WriteHash(w) \/ HashWritten(w)
  \/ FetchOnly(w) \/ UnpackKept(w) \/ UnpackNew(w) \/ Removed(w)
  \/ Extracted(w) \/ Invalid(w) \/ CopyFails(w) \/ Seal(w)

Next ==
  \/ \E w \in Workspaces : Step(w) \/ Kill(w) \/ \E j \in Jobs : Begin(w, j)
  \/ \E v \in Versions : Change(v)

Spec == Init /\ [][Next]_vars
-----------------------------------------------------------------------------
TypeOK ==
  /\ setting \in Settings
  /\ want    \in Versions
  /\ pkg     \in Contents \cup {Absent}
  /\ hash    \in Hashes \cup {Absent}
  /\ owner   \in Workspaces \cup {Absent}
  /\ pc      \in [Workspaces -> Locs]
  /\ job     \in [Workspaces -> Jobs]
  /\ arg     \in [Workspaces -> Versions]
  /\ out     \in [Workspaces -> Contents \cup {Absent}]
  /\ outhash \in [Workspaces -> Hashes \cup {Absent}]
  /\ key     \in [Workspaces -> Contents \cup {Absent}]
  /\ strikes \in 0 .. StrikesBound
-----------------------------------------------------------------------------
(* Safety. *)

\* A damaged download is noticed by its md5, or because it is a clone.
Verified == Clones \/ Pinned

\* do_fetch skips the download when the package and its hash exist, so a hash
\* must never stand beside a package that a kill or an error left unfinished.
\* (An archive without md5 that broke off on the mirror is the exception.)
HashedIsWhole ==
  Verified => (hash # Absent => pkg # Absent /\ pkg.whole)

\* What a build may do to the output tree without its knowledge (README,
\* "Known exceptions"): cp fails, or a run is killed between the two removals
\* and the hash of the revision before comes back, because the recipe does or
\* because svn leaves the clone at whatever the origin has.
Careful ==
  /\ "cp" \notin Faults
  /\ Placed /\ "kill" \in Faults => Method = "git" /\ {"change", "branch"} \cap Faults = {}

\* A build goes on only with a complete source tree.
DoneIsWhole ==
  Careful => \A w \in Workspaces :
    At(w, "done") /\ job[w] = "build" => out[w] # Absent /\ out[w].whole

\* A recipe whose pin is honoured: svn looks for the clone in the wrong place,
\* and the md5 is not compared with an archive that has been there before.
Honoured ==
  /\ Pinned /\ Method # "svn"
  /\ Clones \/ "change" \notin Faults

\* ... of the version that the recipe pinned when the build started. Where branches are edited
\* a run may end elsewhere (Switch); then the tree has at least the hash of what it is, so that
\* the next run finds both out (SecondRunPins of GitClone says where that one ends).
DoneIsWanted ==
  Careful /\ Honoured => \A w \in Workspaces :
    At(w, "done") /\ job[w] = "build" =>
      out[w] = Whole(arg[w]) \/ (Rebranched /\ out[w] = outhash[w])

\* Whatever broke off before, the script heals itself: when nothing goes wrong
\* any more, at most one run still fails, the one that finds a damaged archive
\* and removes it.  (svn with a revision may fail for ever.)
RetryHeals ==
  ~ (Method = "svn" /\ Pinned) => strikes < StrikesBound

(* Inductive invariants. *)

\* Who is in the script holds the lock; while a transfer is under way there
\* is no hash file; what is unpacked has a hash.
Stage(w) ==
  /\ pc[w] \in Critical => owner = w
  /\ pc[w] \in Critical \ {"fetch", "hashing", "unpack", "remove", "extract", "seal"}
       => hash = Absent
  /\ pc[w] \in Critical \ {"fetch", "mirror", "origin"} => pkg # Absent
  /\ pc[w] \in {"unpack", "remove", "extract", "seal"} => hash # Absent
  /\ pc[w] \in {"pull", "reset", "hash", "hashing"} /\ Verified => pkg.whole
  /\ pc[w] = "reset" => Placed

StoreInv == TypeOK /\ HashedIsWhole /\ \A w \in Workspaces : Stage(w)

\* As long as the recipe pins one version: it alone gets a hash, and a hash
\* in an output tree is the one in ENV_DOWN_DIR and stands beside that version.
Wanted(w) ==
  /\ arg[w] = want
  /\ job[w] # "check" /\ pc[w] \notin {"probe", "sum", "pull"}
  /\ At(w, "mcurl") /\ Clones => pkg.ver = want
  /\ At(w, "ocurl") /\ ~ Clones => pkg.ver = want
  /\ pc[w] \in {"hash", "hashing"} => pkg = Whole(want)
  /\ outhash[w] # Absent => outhash[w] = hash /\ out[w] = Whole(want)
  /\ pc[w] \in {"remove", "extract"} => outhash[w] = Absent
  /\ At(w, "seal") => out[w] = Whole(want)
  /\ At(w, "done") /\ job[w] = "build" => out[w] = Whole(want)

WantedInv ==
  /\ StoreInv
  /\ hash # Absent => pkg = Whole(want)
  /\ \A w \in Workspaces : Wanted(w)
  /\ \A u, w \in Workspaces : At(u, "hashing") => outhash[w] = Absent

\* A hash in an output tree stands beside a complete tree, except while that is
\* removed; and where nothing replaces a complete download, it is for ever the
\* one in ENV_DOWN_DIR, so that the tree is not removed.
Complete(w) ==
  /\ pc[w] \in {"probe", "sum"} => job[w] = "check"
  /\ outhash[w] # Absent => out[w] # Absent /\ (out[w].whole \/ At(w, "remove"))
  /\ At(w, "extract") => outhash[w] = Absent
  /\ At(w, "seal") => out[w] # Absent /\ out[w].whole /\ pkg.whole
  /\ At(w, "done") /\ job[w] = "build" => out[w] # Absent /\ out[w].whole
  /\ ~ Placed /\ outhash[w] # Absent =>
       /\ outhash[w] = hash /\ pkg # Absent /\ pkg.whole
       /\ ~ At(w, "remove") /\ \A u \in Workspaces : ~ At(u, "hashing")

WholeInv == StoreInv /\ \A w \in Workspaces : Complete(w)

\* A clone that is pinned, where no run is killed: what is unpacked is what the
\* owner of the lock asked for, unless branches are edited, and a hash in an output tree tells
\* its content.
Exact(w) ==
  /\ job[w] # "check" /\ pc[w] \notin {"probe", "sum", "pull", "hashing"}
  /\ At(w, "mcurl") => pkg.ver = arg[w]
  /\ pc[w] \in {"hash", "unpack", "remove", "extract", "seal"}
       => pkg = Whole(arg[w]) \/ (Rebranched /\ pkg.whole)
  /\ outhash[w] # Absent /\ ~ At(w, "remove") => out[w] = outhash[w]
  /\ At(w, "extract") => outhash[w] = Absent
  /\ At(w, "seal") => out[w] = pkg
  /\ At(w, "done") /\ job[w] = "build"
       => out[w] = Whole(arg[w]) \/ (Rebranched /\ out[w] = outhash[w])

ExactInv ==
  /\ StoreInv
  /\ hash # Absent => hash = pkg
  /\ \A w \in Workspaces : Exact(w)

\* Once a run has failed, and until something breaks again, only complete
\* packages get a hash: so no second run finds a damaged one.
HealInv ==
  /\ StoreInv
  /\ strikes > 0 /\ ~ (Method = "svn" /\ Pinned) =>
       /\ strikes = 1
       /\ hash # Absent => pkg # Absent /\ pkg.whole
       /\ \A w \in Workspaces : pc[w] \in {"pull", "hash", "hashing"} => pkg.whole
=============================================================================
