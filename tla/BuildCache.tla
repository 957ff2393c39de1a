------------------------------ MODULE BuildCache ------------------------------
(***************************************************************************)
(* The compilation cache of one package: scripts/bin/process_cache.sh      *)
(* driven by the targets cachebuild, srcbuild and psysroot of              *)
(* scripts/core/inc.cache.mk.                                              *)
(*                                                                         *)
(* Several output trees (Workspaces: one OUT_PATH per SOC or per checkout) *)
(* build the package from one source tree and share the cache directory    *)
(* ENV_CACHE_DIR, under one cache prefix.  No lock protects that           *)
(* directory.  What the scripts do between two accesses to state another   *)
(* process can see is one action.                                          *)
(*                                                                         *)
(* Everything the checksum covers (source archive, scripts, patches,       *)
(* dependencies, CACHE_APPENDS) is one value, the version `src`; the       *)
(* contents of an image directory or of a cache file is the version it was *)
(* built from and whether it is whole, a part of an image or a torn        *)
(* archive.                                                                *)
(***************************************************************************)
EXTENDS Naturals

CONSTANTS
  Workspaces,   \* the output trees that share ENV_CACHE_DIR
  Versions,     \* the values the checked inputs of the package can take
  Mirror,       \* the versions whose cache file the mirror server holds
  Faults,       \* what can go wrong, see FaultNames
  Absent        \* a file or a directory that does not exist

\* "edit":    the sources change while a build runs
\* "kill":    a build is interrupted (Ctrl-C, power loss)
\* "install": `make install` or do_append fails half way
\* "curl":    the download of a cache file breaks off
\* "tar":     tar cannot pack the image (a full disk, an unreadable file)
\* "sum":     push_cache cannot compute the checksum the forced check skipped
\* "srcbuild": somebody uses the target srcbuild
FaultNames == {"edit", "kill", "install", "curl", "tar", "sum", "srcbuild"}

Marks  == {"plain", "force"}
Keys   == [src : Versions, mark : Marks]             \* what the md5sum identifies
States == {"whole",   \* all of an image
           "part",    \* a directory that make install or tar has only begun to fill
           "torn"}    \* what curl or tar left in an archive it did not finish
Images == [ver : Versions, state : States]           \* contents of an image
Files  == [key : Keys, img : Images, by : Workspaces \cup {Absent}]
          \* a cache file; `by` is the workspace whose curl still writes to it

ASSUME ConstantsAssumption ==
  /\ Mirror \subseteq Versions
  /\ Faults \subseteq FaultNames
  /\ Absent \notin Keys \cup Images \cup Workspaces

VARIABLES
  src,     \* the current value of the checked inputs
  cache,   \* the package's files in ENV_CACHE_DIR
  pc,      \* where the shell of a workspace is
  mode,    \* the make target it runs
  ins,     \* $(INS_PATH): the image directory
  sum,     \* <package>-checksum: the key found by the last check
  force,   \* <package>-force: "no" file, the empty one or the one with "once"
  buf      \* what the running tar, make or curl has read

vars  == <<src, cache, pc, mode, ins, sum, force, buf>>
disk  == <<cache, ins, sum, force>>

Rest  == {"idle", "done", "failed"}
Modes == {"cachebuild", "srcbuild", "psysroot"}
Locs  == Rest \cup {"check", "lookup", "mirror", "fetch", "curl", "pull", "untar", "compile",
                    "make", "install", "push", "tarred", "deleted"}

Whole(v)    == [ver |-> v, state |-> "whole"]
Part(v)     == [ver |-> v, state |-> "part"]
Torn(v)     == [ver |-> v, state |-> "torn"]
UnmarkedKey(v) == [src |-> v]                        \* mutant of PlainKey
PlainKey(v) == [src |-> v, mark |-> "plain"]
Named(k)    == {f \in cache : f.key = k}             \* the glob names at most one
Open(w)     == {f \in cache : f.by = w}              \* what curl of w writes to
IsWhole(img) == img # Absent /\ img.state = "whole"
Closed(f, img) == [key |-> f.key, img |-> img, by |-> Absent]

At(w, l)    == pc[w] = l
GoTo(w, l)  == pc' = [pc EXCEPT ![w] = l]

Init ==
  /\ src \in Versions
  /\ cache = {}
  /\ pc    = [w \in Workspaces |-> "idle"]
  /\ mode  = [w \in Workspaces |-> "cachebuild"]
  /\ ins   = [w \in Workspaces |-> Absent]
  /\ sum   = [w \in Workspaces |-> Absent]
  /\ force = [w \in Workspaces |-> "no"]
  /\ buf   = [w \in Workspaces |-> Absent]
-----------------------------------------------------------------------------
(* The targets. *)

\* make cachebuild / psysroot start with do_check, make srcbuild compiles.
Start(w, m) ==
  /\ pc[w] \in Rest
  /\ m = "srcbuild" => "srcbuild" \in Faults
  /\ mode' = [mode EXCEPT ![w] = m]
  /\ GoTo(w, IF m = "srcbuild" THEN "compile" ELSE "check")
  /\ UNCHANGED <<src, buf, disk>>

\* After do_check without MATCH: cachebuild compiles, psysroot prepares the
\* dependency sysroot in OUT_PATH and is finished.
Unmatched(w) ==
  GoTo(w, IF mode[w] = "psysroot" THEN "idle" ELSE "compile")

\* After a MATCH: cachebuild pulls, psysroot has nothing to do.
Matched(w) ==
  GoTo(w, IF mode[w] = "psysroot" THEN "idle" ELSE "pull")
-----------------------------------------------------------------------------
(* check_cache *)

\* Mutant of CheckForced: the old checksum file stays.
CheckForcedKeepsSum(w) ==
  /\ At(w, "check")
  /\ force[w] # "no"
  /\ Unmatched(w)
  /\ UNCHANGED <<src, mode, buf, disk>>

\* get_checksum check: the old checksum file is removed first; a force file
\* skips the checksum.
CheckForced(w) ==
  /\ At(w, "check")
  /\ force[w] # "no"
  /\ sum' = [sum EXCEPT ![w] = Absent]
  /\ Unmatched(w)
  /\ UNCHANGED <<src, cache, mode, ins, force, buf>>

CheckSum(w) ==
  /\ At(w, "check")
  /\ force[w] = "no"
  /\ sum' = [sum EXCEPT ![w] = PlainKey(src)]
  /\ GoTo(w, "lookup")
  /\ UNCHANGED <<src, cache, mode, ins, force, buf>>

\* A source that cannot be fetched, a checksum item that does not exist:
\* ERROR, exit 1.  cachebuild stops on the word; psysroot does not look for it.
CheckError(w) ==
  /\ At(w, "check")
  /\ force[w] = "no"
  /\ sum' = [sum EXCEPT ![w] = Absent]
  /\ GoTo(w, IF mode[w] = "psysroot" THEN "idle" ELSE "failed")
  /\ UNCHANGED <<src, cache, mode, ins, force, buf>>

LookupHit(w) ==
  /\ At(w, "lookup")
  /\ Named(sum[w]) # {}
  /\ Matched(w)
  /\ UNCHANGED <<src, mode, buf, disk>>

\* The mirror answers the HEAD request with 200.
LookupMirror(w) ==
  /\ At(w, "lookup")
  /\ sum[w] # Absent
  /\ Named(sum[w]) = {}
  /\ sum[w].src \in Mirror
  /\ GoTo(w, "mirror")
  /\ UNCHANGED <<src, mode, buf, disk>>

\* Mutant of MirrorClears: no rm -rf of the image directory.
MirrorClearsKeepsImage(w) ==
  /\ At(w, "mirror")
  /\ cache' = {}
  /\ GoTo(w, "fetch")
  /\ UNCHANGED <<src, mode, ins, sum, force, buf>>

\* Every local file of the package (also one that was pushed since the test) and the
\* image directory go.
MirrorClears(w) ==
  /\ At(w, "mirror")
  /\ cache' = {}
  /\ ins'   = [ins EXCEPT ![w] = Absent]
  /\ GoTo(w, "fetch")
  /\ UNCHANGED <<src, mode, sum, force, buf>>

\* The first bytes arrive: curl opens the final file name, and empties a file that
\* another workspace has put there meanwhile.
CurlOpens(w) ==
  /\ At(w, "fetch")
  /\ sum[w] # Absent
  /\ cache' = (cache \ Named(sum[w]))
                \cup {[key |-> sum[w], img |-> Torn(sum[w].src), by |-> w]}
  /\ GoTo(w, "curl")
  /\ UNCHANGED <<src, mode, ins, sum, force, buf>>

\* Not on the mirror, or the mirror did not answer in five seconds.
LookupMiss(w) ==
  /\ At(w, "lookup")
  /\ Named(sum[w]) = {}
  /\ Unmatched(w)
  /\ UNCHANGED <<src, mode, buf, disk>>

\* The file curl writes to may have been removed or replaced meanwhile.
CurlEnds(w) ==
  /\ At(w, "curl")
  /\ cache' = (cache \ Open(w)) \cup {Closed(f, Whole(f.img.ver)) : f \in Open(w)}
  /\ Matched(w)
  /\ UNCHANGED <<src, mode, ins, sum, force, buf>>

\* `|| exit 1`: neither MATCH nor ERROR is printed, so the target goes on as
\* after a miss; what curl wrote, if it got so far, keeps its final name.
CurlBreaks(w) ==
  /\ pc[w] \in {"fetch", "curl"}
  /\ "curl" \in Faults
  /\ cache' = (cache \ Open(w)) \cup {Closed(f, f.img) : f \in Open(w)}
  /\ Unmatched(w)
  /\ UNCHANGED <<src, mode, ins, sum, force, buf>>
-----------------------------------------------------------------------------
(* pull_cache *)

\* The image directory exists: do nothing, whatever it contains.
PullKeeps(w) ==
  /\ At(w, "pull")
  /\ ins[w] # Absent
  /\ GoTo(w, "done")
  /\ UNCHANGED <<src, mode, buf, disk>>

PullUntars(w) ==
  /\ At(w, "pull")
  /\ ins[w] = Absent
  /\ \E f \in Named(sum[w]) :
       /\ buf' = [buf EXCEPT ![w] = f.img]
       /\ ins' = [ins EXCEPT ![w] = Part(f.img.ver)]
  /\ GoTo(w, "untar")
  /\ UNCHANGED <<src, mode, cache, sum, force>>

\* Another workspace removed the file after the check.
PullError(w) ==
  /\ At(w, "pull")
  /\ ins[w] = Absent
  /\ Named(sum[w]) = {}
  /\ GoTo(w, "failed")
  /\ UNCHANGED <<src, mode, buf, disk>>

\* tar ends; its status is ignored and pull exits with 0.
Untarred(w) ==
  /\ At(w, "untar")
  /\ ins' = [ins EXCEPT ![w] = buf[w]]
  /\ buf' = [buf EXCEPT ![w] = Absent]
  /\ GoTo(w, "done")
  /\ UNCHANGED <<src, mode, cache, sum, force>>
-----------------------------------------------------------------------------
(* do_compile *)

\* After the compilation: srcbuild is over, cachebuild pushes.
Compiled(w) ==
  GoTo(w, IF mode[w] = "srcbuild" THEN "done" ELSE "push")

\* Fetch, patch, do_prepend or configure fails under `set -e`: the image
\* directory of the last build is still there.
ConfigureFails(w) ==
  /\ At(w, "compile")
  /\ GoTo(w, "failed")
  /\ UNCHANGED <<src, mode, buf, disk>>

RemoveImage(w) ==
  /\ At(w, "compile")
  /\ ins' = [ins EXCEPT ![w] = Absent]
  /\ GoTo(w, "make")
  /\ UNCHANGED <<src, mode, cache, sum, force, buf>>

\* `make` reads the sources; then `make install` creates the image directory.
MakeRuns(w) ==
  /\ At(w, "make")
  /\ buf' = [buf EXCEPT ![w] = Whole(src)]
  /\ ins' = [ins EXCEPT ![w] = Part(src)]
  /\ GoTo(w, "install")
  /\ UNCHANGED <<src, mode, cache, sum, force>>

\* `rm && make && make install`: `set -e` ignores a failure of make, which is
\* not the last command of the list, and the recipe continues.
MakeFails(w) ==
  /\ At(w, "make")
  /\ Compiled(w)
  /\ UNCHANGED <<src, mode, buf, disk>>

InstallEnds(w) ==
  /\ At(w, "install")
  /\ ins' = [ins EXCEPT ![w] = buf[w]]
  /\ buf' = [buf EXCEPT ![w] = Absent]
  /\ Compiled(w)
  /\ UNCHANGED <<src, mode, cache, sum, force>>

\* Mutant of InstallFails: the recipe continues, as after a failing make.
InstallFailsPushes(w) ==
  /\ At(w, "install")
  /\ "install" \in Faults
  /\ Compiled(w)
  /\ UNCHANGED <<src, mode, buf, disk>>

\* `make install` is the last command of the list: `set -e` ends the recipe
\* with part of the image in place.
InstallFails(w) ==
  /\ At(w, "install")
  /\ "install" \in Faults
  /\ buf' = [buf EXCEPT ![w] = Absent]
  /\ GoTo(w, "failed")
  /\ UNCHANGED <<src, mode, disk>>
-----------------------------------------------------------------------------
(* push_cache *)

\* Mutant of PushNoImage: exit 0.
PushNoImageOk(w) ==
  /\ At(w, "push")
  /\ ins[w] = Absent
  /\ GoTo(w, "done")
  /\ UNCHANGED <<src, mode, buf, disk>>

PushNoImage(w) ==
  /\ At(w, "push")
  /\ ins[w] = Absent
  /\ GoTo(w, "failed")
  /\ UNCHANGED <<src, mode, buf, disk>>

\* Mutant of PushSums: the one-time force file is not removed.
PushSumsKeepsForce(w) ==
  /\ At(w, "push")
  /\ ins[w] # Absent
  /\ sum[w] = Absent
  /\ sum' = [sum EXCEPT ![w] = PlainKey(src)]
  /\ UNCHANGED <<src, pc, mode, cache, ins, force, buf>>

\* No checksum file (a forced build): get_checksum again.  The empty force
\* file adds the word force to the checksum, the one with "once" is removed.
PushSums(w) ==
  /\ At(w, "push")
  /\ ins[w] # Absent
  /\ sum[w] = Absent
  /\ sum' = [sum EXCEPT ![w] = [src  |-> src,
               mark |-> IF force[w] = "always" THEN "force" ELSE "plain"]]
  /\ force' = [force EXCEPT ![w] = IF @ = "once" THEN "no" ELSE @]
  /\ UNCHANGED <<src, pc, mode, cache, ins, buf>>

\* The checksum fails after the one-time force file has been removed.
PushSumError(w) ==
  /\ At(w, "push")
  /\ "sum" \in Faults
  /\ ins[w] # Absent
  /\ sum[w] = Absent
  /\ force' = [force EXCEPT ![w] = IF @ = "once" THEN "no" ELSE @]
  /\ GoTo(w, "failed")
  /\ UNCHANGED <<src, mode, cache, ins, sum, buf>>

\* tar packs the image into a file outside ENV_CACHE_DIR.
PushTars(w) ==
  /\ At(w, "push")
  /\ ins[w] # Absent
  /\ sum[w] # Absent
  /\ buf' = [buf EXCEPT ![w] = ins[w]]
  /\ GoTo(w, "tarred")
  /\ UNCHANGED <<src, mode, disk>>

\* The script does not look at tar's status: it goes on with the archive that tar left,
\* or with none.
PushTarFails(w) ==
  /\ At(w, "push")
  /\ "tar" \in Faults
  /\ ins[w] # Absent
  /\ sum[w] # Absent
  /\ \E left \in {Absent, Torn(ins[w].ver)} : buf' = [buf EXCEPT ![w] = left]
  /\ GoTo(w, "tarred")
  /\ UNCHANGED <<src, mode, disk>>

\* del_cache: every cache file of the package, also when there is no archive to replace it.
PushDeletes(w) ==
  /\ At(w, "tarred")
  /\ cache' = {}
  /\ GoTo(w, "deleted")
  /\ UNCHANGED <<src, mode, ins, sum, force, buf>>

\* mv: the new file replaces one of the same name.
PushMoves(w) ==
  /\ At(w, "deleted")
  /\ buf[w] # Absent
  /\ cache' = (cache \ Named(sum[w]))
                \cup {[key |-> sum[w], img |-> buf[w], by |-> Absent]}
  /\ buf' = [buf EXCEPT ![w] = Absent]
  /\ GoTo(w, "done")
  /\ UNCHANGED <<src, mode, ins, sum, force>>
\* Without an archive mv fails, and push says that it moved it: exit 0.
PushMovesNothing(w) ==
  /\ At(w, "deleted")
  /\ buf[w] = Absent
  /\ GoTo(w, "done")
  /\ UNCHANGED <<src, mode, buf, disk>>
-----------------------------------------------------------------------------
(* The user and the environment. *)

SetForce(w, f) ==
  /\ pc[w] \in Rest
  /\ f \in {"always", "once"}
  /\ force' = [force EXCEPT ![w] = f]
  /\ GoTo(w, "idle")
  /\ UNCHANGED <<src, mode, cache, ins, sum, buf>>

\* unset_force is called without -g, so its del_cache looks for a file with
\* an empty package name and removes nothing.
UnsetForce(w) ==
  /\ pc[w] \in Rest
  /\ force' = [force EXCEPT ![w] = "no"]
  /\ ins'   = [ins EXCEPT ![w] = Absent]
  /\ GoTo(w, "idle")
  /\ UNCHANGED <<src, mode, cache, sum, buf>>

\* do_clean: rm -rf $(OUT_PATH)
Clean(w) ==
  /\ pc[w] \in Rest
  /\ force' = [force EXCEPT ![w] = "no"]
  /\ ins'   = [ins EXCEPT ![w] = Absent]
  /\ sum'   = [sum EXCEPT ![w] = Absent]
  /\ GoTo(w, "idle")
  /\ UNCHANGED <<src, mode, cache, buf>>

Edit(v) ==
  /\ v # src
  /\ "edit" \in Faults \/ \A w \in Workspaces : pc[w] \in Rest
  /\ src' = v
  /\ UNCHANGED <<pc, mode, buf, disk>>

\* Files stay as they are; a curl that dies stops writing.
Kill(w) ==
  /\ "kill" \in Faults
  /\ pc[w] \notin Rest
  /\ cache' = (cache \ Open(w)) \cup {Closed(f, f.img) : f \in Open(w)}
  /\ buf'   = [buf EXCEPT ![w] = Absent]
  /\ GoTo(w, "idle")
  /\ UNCHANGED <<src, mode, ins, sum, force>>
-----------------------------------------------------------------------------
\* The next command of the shell of workspace w.
Step(w) ==
  \/ CheckForced(w) \/ CheckSum(w) \/ CheckError(w)
  \/ LookupHit(w) \/ LookupMirror(w) \/ LookupMiss(w)
  \/ MirrorClears(w) \/ CurlOpens(w) \/ CurlEnds(w) \/ CurlBreaks(w)
  \/ PullKeeps(w) \/ PullUntars(w) \/ PullError(w) \/ Untarred(w)
  \/ ConfigureFails(w) \/ RemoveImage(w) \/ MakeRuns(w) \/ MakeFails(w)
  \/ InstallEnds(w) \/ InstallFails(w)
  \/ PushNoImage(w) \/ PushSums(w) \/ PushSumError(w) \/ PushTars(w) \/ PushTarFails(w)
  \/ PushDeletes(w) \/ PushMoves(w) \/ PushMovesNothing(w)

User(w) ==
  \/ \E m \in Modes : Start(w, m)
  \/ \E f \in {"always", "once"} : SetForce(w, f)
  \/ UnsetForce(w) \/ Clean(w) \/ Kill(w)

Next ==
  \/ \E w \in Workspaces : Step(w) \/ User(w)
  \/ \E v \in Versions : Edit(v)

Spec     == Init /\ [][Next]_vars
\* The shell of a running build keeps running; users need not do anything.
FairSpec == Spec /\ \A w \in Workspaces : WF_vars(Step(w))
-----------------------------------------------------------------------------
TypeOK ==
  /\ src   \in Versions
  /\ cache \in SUBSET Files
  /\ pc    \in [Workspaces -> Locs]
  /\ mode  \in [Workspaces -> Modes]
  /\ ins   \in [Workspaces -> Images \cup {Absent}]
  /\ sum   \in [Workspaces -> Keys \cup {Absent}]
  /\ force \in [Workspaces -> {"no", "always", "once"}]
  /\ buf   \in [Workspaces -> Images \cup {Absent}]
-----------------------------------------------------------------------------
(* Safety. *)

\* A complete cache file holds a build of what its name says, whatever is
\* interrupted or fails, as long as nobody edits the sources under a running
\* build: the key found before the compilation names the file pushed after it.
TrueNames == \A f \in cache : IsWhole(f.img) => f.img.ver = f.key.src

\* A part of an image that a failed or killed installation left behind never reaches the
\* cache, neither by the build that failed nor by a later one that finds it: what is not
\* whole there is a torn archive. The scripts publish two of them, and only these: a
\* download from the mirror that broke off (or still runs), and what a failing tar left.
OnlyTornIsPartial ==
  \A f \in cache : ~ IsWhole(f.img) =>
    /\ f.img.state = "torn"
    /\ f.key \in {PlainKey(v) : v \in Mirror} \/ "tar" \in Faults

\* A build that ends well leaves the complete image that its checksum names,
\* be it compiled, pulled, downloaded or left over from an earlier build.
SoundImage ==
  \A w \in Workspaces :
    At(w, "done") /\ mode[w] = "cachebuild" =>
      sum[w] # Absent /\ ins[w] = Whole(sum[w].src)

\* While there is a force file the build takes nothing from the cache, the mirror or an old
\* image; and one-time force is spent by the build that honours it: "the next compilation
\* is normal" (README.md:936), also after builds that failed or could not be packed.
ForceHonoured ==
  \A w \in Workspaces :
    /\ force[w] # "no" => pc[w] \notin {"lookup", "mirror", "fetch", "curl", "pull", "untar"}
    /\ At(w, "done") /\ mode[w] = "cachebuild" => force[w] # "once"

(* Inductive invariants. *)

\* The shell of w is about to ask a mirror, or to download from it.
Asking(w)  == pc[w] \in {"lookup", "mirror", "fetch"}
\* tar failed on the image of w, and left a torn archive or none.
TornBy(w)  == "tar" \in Faults /\ (buf[w] = Absent \/ buf[w].state = "torn")

\* The image a build pushes is whole, only cachebuild gets as far as a push, and what is
\* looked up is a plain key.
StageInv(w) ==
  /\ Asking(w)        => sum[w] # Absent /\ sum[w].mark = "plain"
  /\ pc[w] \in {"mirror", "fetch"} => sum[w].src \in Mirror
  /\ pc[w] \in {"compile", "make", "install"} => mode[w] # "psysroot"
  /\ At(w, "make")    => ins[w] = Absent
  /\ At(w, "install") => IsWhole(buf[w])
  /\ pc[w] \in {"push", "tarred", "deleted"} => mode[w] = "cachebuild"
  /\ At(w, "push")    => ins[w] = Absent \/ IsWhole(ins[w])
  /\ pc[w] \in {"tarred", "deleted"} =>
       sum[w] # Absent /\ IsWhole(ins[w]) /\ (IsWhole(buf[w]) \/ TornBy(w))

AtomicInv == TypeOK /\ OnlyTornIsPartial /\ \A w \in Workspaces : StageInv(w)

\* Without edits under a running build, the key and the image of that build
\* both belong to the current sources.
FreshInv(w) ==
  /\ pc[w] \in {"push", "tarred", "deleted"} /\ ins[w] # Absent => ins[w].ver = src
  /\ (Asking(w) \/ pc[w] \in {"curl", "compile", "make", "install", "push", "tarred", "deleted"})
       /\ mode[w] = "cachebuild" /\ sum[w] # Absent => sum[w].src = src
  /\ pc[w] \in {"install", "tarred", "deleted"} /\ buf[w] # Absent => buf[w].ver = src

NamesInv ==
  /\ AtomicInv
  /\ \A f \in cache : f.img.ver = f.key.src
  /\ \A w \in Workspaces : FreshInv(w)

\* What takes an image from elsewhere has found no force file, and a one-time force file that
\* still exists has kept the check from writing a checksum.
ForceInv(w) ==
  /\ Asking(w) \/ pc[w] \in {"curl", "pull", "untar"} => force[w] = "no"
  /\ pc[w] \in {"compile", "make", "install", "push"} /\ mode[w] = "cachebuild" /\ force[w] = "once"
       => sum[w] = Absent
  /\ pc[w] \in {"tarred", "deleted"} => force[w] # "once"
  /\ At(w, "done") /\ mode[w] = "cachebuild" => force[w] # "once"

HonourInv == AtomicInv /\ \A w \in Workspaces : ForceInv(w)

(* Refinement: the image is visible when cachebuild has ended well. *)

Status(w) == CASE pc[w] \notin Rest -> "busy"
               [] At(w, "done")     -> "ok"
               [] OTHER             -> "rest"
Delivered(w) == IF At(w, "done") THEN ins[w] ELSE Absent

Promise == INSTANCE CachePromise WITH
  status <- [w \in Workspaces |-> Status(w)],
  img    <- [w \in Workspaces |-> Delivered(w)]

\* The cache keeps its promise (CachePromise) where one workspace has the
\* cache directory for itself and nothing breaks off: a build delivers the current image or
\* fails, and does one of them in the end.
KeepsPromise == Promise!Spec
=============================================================================
