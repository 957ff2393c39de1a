# Verification of CBuild

TLA+ models of the parts of CBuild (`scripts/`) whose correctness depends on
the order of events or on every input of an algorithm, the TLC runs that check
them on small instances, and TLAPS proofs for every value of the constants.

## 1. The system

CBuild compiles a tree of packages (`mk.deps`, `*.mk`) into an image. A run of
`make` goes through the following parts.

| Part | Source | State it keeps | Operations | What makes it correct |
|---|---|---|---|---|
| Build chain generator | `scripts/bin/gen_build_chain.py` | the list of packages with their strong, weak, conditional and virtual dependencies; files `DEPS`, `Kconfig`, `auto.mk` | parse `#DEPS`/`#VDEPS`/`#INCDEPS`, derive native packages, check dependencies, sort, write Kconfig and Makefile | each package after its dependencies; a cycle is reported and nothing else is; the Makefile written from an accepted chain is acyclic; what Kconfig selects is what Make orders |
| Execution of the chain | generated `auto.mk`, `Makefile` | targets under construction, global and private sysroots | `<pkg>`, `<pkg>_single`, `<pkg>_install_depends`, `_release`, `finally` targets, `make -j` | a package sees the installed output of all its dependencies; `finally` packages come last |
| Compilation cache | `scripts/bin/process_cache.sh`, `scripts/core/inc.cache.mk` | files of `ENV_CACHE_DIR`; per output tree the image, checksum file and force file | check, pull, push, setforce, set1force, unsetforce; `cachebuild`, `srcbuild`, `psysroot`, `clean` | an image is a complete build of the current inputs, wherever it comes from |
| Fetching | `scripts/bin/fetch_package.sh` | `ENV_DOWN_DIR`: package, `.src.hash`; per output tree the unpacked source and its hash | download (tar, zip, git, svn) from mirror or origin, unpack | what is unpacked is what the recipe asks for, whatever broke off before |
| Patching | `scripts/bin/exec_patch.sh`, `inc.cache.mk` `do_patch` | the unpacked source | patch, unpatch | each patch applied exactly once |
| Sysroots | `scripts/bin/process_sysroot.sh`, `do_install` | `ENV_INS_ROOT`, private sysroots | install, link, release, replace | merges are serialised by a lock; relocatable `.pc` files |
| Package configuration | `scripts/core/inc.conf.mk`, `conf_write` and `conf_write_autoconf` of `confdata.c` | `.config`, `.config.old`, `config.h`, `auto.conf`, one file per symbol, default configuration and its md5 stamp | `loadconfig`, `defconfig`, `%_config`, `menuconfig`, header synchronisation | the header the code is compiled with is generated from the current `.config`; what changed is compiled; no configuration is lost |
| Compilation templates | `inc.app.mk`, `inc.mod.mk`, `inc.ins.mk`, `inc.env.mk` | objects and libraries | pattern rules, `safe_copy` | copies into a shared directory are serialised |
| Kconfig engine | `scripts/kconfig/` (`conf.c`, `mconf.c`, `parser/`) | expressions, symbols with cached values, choices, the tree of menus, the screen or walk of a program | parse and rewrite expressions, build and finalize the tree, check for circles, evaluate on demand, set, read and write `.config`, `menuconfig`, the modes of `conf` | rewriting keeps the meaning of the text; values do not depend on the order of evaluation; choices are exclusive; what the user answered is kept, saved and read back; questions end |
| Toolchain | `scripts/toolchain/Makefile` | toolchain directories | build gcc/glibc in stages | stages in order |
| Machine, environment, images | `process_machine.sh`, `meson_cross.sh`, `build.env`, `gen_depends_image.sh` | none | table lookups, text output | |
| Yocto layer, OSS recipes, notes | `examples/meta-cbuild`, `oss/`, `notes/` | none of their own | recipes in the syntax above | |

How they interact: `build.env` places `ENV_DOWN_DIR` and `ENV_CACHE_DIR` under
`output/mirror-cache`, shared by the output trees of all SOCs, while `OUT_PATH`,
configuration and sysroots belong to one SOC. Nothing but the file system
connects the processes: no daemon, no database; `flock` protects a download and
an installation into a sysroot, and nothing protects the cache directory, the
image directory or the patched source. So the hard behaviours are: two `make`
processes (two SOCs, or `-j`) interleaving on shared files; a build that is
killed or fails half way and is started again on the files it left; checks of a
file followed later by its use; retries of downloads from two servers; and the
algorithmic part, where every dependency graph and every Kconfig file is an
input. The Kconfig engine runs in one process, but it is full of caches: values
are computed on demand and marked valid before they are, menus mark symbols as
answered when they are drawn, and every answer may make other symbols visible.

## 2. Modules

| Module | Models | Proofs |
|---|---|---|
| `BuildCache` | `process_cache.sh` and the targets of `inc.cache.mk`: one package, several workspaces | `BuildCacheProofs` |
| `CachePromise` | abstract specification: a successful build leaves a complete image of the current sources; `BuildCache` implements it | its safety in `BuildCacheProofs` |
| `FetchPackage` | `fetch_package.sh` with its mirror, origin, lock, kills and broken transfers | `FetchPackageProofs` |
| `GitClone` | which branch, tag or revision `fetch_package.sh` leaves a clone at | `GitCloneProofs` |
| `DependCache` | the chain of targets of `gen_build_chain.py`, `psysroot` and `cachebuild`, and the checksum of dependencies: several packages, one workspace | `DependCacheProofs` |
| `ChainSort` | `check_item`, `sort_items` and the prerequisites of `gen_make` | `ChainSortProofs` |
| `KRules` | `parser/expr.c`: what each function does with one node of a dependency expression, the calls for the operands being a parameter | |
| `KExpr` | the functions of `expr.c` themselves: building, evaluating, comparing and rewriting expressions | by `KFunctions` |
| `KFunctions` | the same functions as sets of pairs that obey `KRules` at every node; which expressions and valuations there are | `KRulesProofs`, `KLevelProofs` |
| `KDepends` | the expressions that the value stack of the parser can hold; what `KExpr` promises for them | |
| `KSymbol` | `parser/symbol.c`: values on demand with all their flags, choices, select, imply, ranges | |
| `KMenu` | `parser/menu.c`, the check for recursive dependencies | |
| `KParse` | the statements of `parser.y`, `conf_parse`; what the tree promises to the text | |
| `KConf` | setting symbols, `confdata.c`: reading and writing `.config`, minimal configurations; how `conf` sets all symbols | |
| `KSession` | `mconf.c` and `conf.c`: processes one after the other on one `.config` | |
| `KSync` | `inc.conf.mk` with the files `conf` and `mconf` leave, kills and failures at every step | `KSyncProofs` |
| `MC...` | the instances of these modules for TLC | |

`BuildCache` and `DependCache` look at the same scripts from two sides. The
first takes all that the checksum covers as one version and asks what happens
when processes race, die and fail; the second runs the same targets undisturbed
and asks whether the checksum covers what it must. `FetchPackage` and `GitClone`
divide `fetch_package.sh` in the same way: breaking off in one, what the
commands do in the other. The Kconfig modules are layers: `KRules` under `KExpr` under `KSymbol`
under `KMenu`, on which `KParse` (text to tree) and `KConf` with `KSession` (tree to
`.config`) stand. `KSync` takes what `conf` and `mconf` compute as a choice among the
possible configurations and looks at the files they replace.

Every definition that stands for code is listed in `PROJECT.json` under `map`
with its lines. An operator whose comment begins "Mutant of" is not part of
the model: it is the same definition with a plausible mistake, and one property
must fail with it.

### Order of the work and what is left

Done, in this order: the cache, fetching, clones, the chain of targets, the sort;
the Kconfig engine from expressions to sessions; the files of a configuration.
Left, in the order of what they would add:

1. `DependCache` with several workspaces: a cache file that is replaced between
   `psysroot` and `cachebuild`, composed from the actions of `BuildCache`.
2. How `gen_build_chain.py` reads rules (`|`, `||`, `&`, `??`) and derives native
   packages, against a reference definition.
3. Proofs about the rest of the Kconfig engine: evaluation on demand (`KSymbol`), the tree
   (`KMenu`) and sessions (`KSession`). They would need the same turn as the expressions have
   had (section 8), rules for one step and functions that obey them, with a state that is
   threaded through; for `KSession` the steps over an evaluation that is taken as given.

## 3. The compilation cache (`BuildCache`)

State: `cache` is the set of the package's files in `ENV_CACHE_DIR` (name, the
version inside, whether it is whole or torn, and who is still downloading it); `ins` is
`INS_PATH`, `sum` the file `<package>-checksum`, `force` the file
`<package>-force` of one workspace; `src` is everything the checksum covers. `pc`
and `mode` are the position of the shell and its target. A cache file that does
not match has another name, so the md5sum is the pair (version, mark), where
the mark is the random string of a forced build.

Actions: `CheckForced`, `CheckSum`, `CheckError` are `get_checksum`;
`LookupHit`, `LookupMirror`, `LookupMiss`, `MirrorClears`, `CurlOpens`, `CurlEnds`,
`CurlBreaks` are `check_cache`; `PullKeeps`, `PullUntars`, `PullError`, `Untarred` are
`pull_cache`; `ConfigureFails` to `InstallFails` are `do_compile` with its
`set -e` and the AND-list on line 79; `PushNoImage` to `PushMovesNothing` are
`push_cache` with `del_cache` between `tar` and `mv`. Its `tar` may fail (`PushTarFails`): the
script does not look, deletes the old files and moves what `tar` left, if anything. The image is
then `torn`, as after a `curl` that broke off; `part` is what a failed or killed `make install`
left in the image directory. `Start`, `SetForce`,
`UnsetForce`, `Clean`, `Edit` and `Kill` are the user. What happens between two
accesses to files that another process can see is one action; `mv` is a rename, because
`build.env` puts cache and output on one file system. The mirror, what
may go wrong (`Faults`) and the number of workspaces are constants.

| Run | Instance | Result |
|---|---|---|
| `cache_single` | 1 workspace, 3 versions, 2 on the mirror, no faults | images are sound; the module implements `CachePromise`, whose builds deliver the current image or fail, and do one of them in the end |
| `cache_faults` | 2 workspaces, 2 versions, kill, failing install, curl, tar and checksum | names stay true, parts of images stay out of the cache, a force file is honoured and spent |
| `cache_stale` | 2 workspaces, no faults | `SoundImage` fails (finding) |

Bounds: files of a package only interact through "same name or not", so two
versions and two workspaces show every conflict of a pair, and the third version
of `cache_single` leaves one that is in neither cache nor mirror. `SoundImage`
and the refinement hold with one workspace and no faults only: the finding, and
torn archives from a broken download or a failing `tar` (section 13), are the reasons. `srcbuild`, which compiles without the
cache, is not in the runs with faults; the theorems on `OnlyTornIsPartial`, `ForceHonoured` and
`TrueNames` cover it, those for a workspace without faults (`Alone`) do not.
`TrueNames` holds as long as nobody edits the sources
while they are compiled: `push_cache` reuses the checksum found before.

Fairness: `WF(Step(w))`: the shell of a running build goes on. It assumes that
`make`, `tar` and the `curl` of line 445 (which has no timeout) end, with or
without success. Users are not fair, and a kill needs no fairness.

Proved (`BuildCacheProofs`), for every set of workspaces, versions, mirror and
faults: `TypeOK` and `OnlyTornIsPartial` from `AtomicInv`, which adds to them what a
shell holds at each position (`StageInv`: what is pushed is a whole image, and its
archive is whole or `tar` failed); `ForceHonoured` from `HonourInv`, which adds
where a one-time force file can still exist and that the check has then written no
checksum (`ForceInv`); `TrueNames` from `NamesInv`, which adds that a key and the image
that will be pushed under it belong to the current sources; it assumes
`"edit" \notin Faults`.

`OnlyKeptIsStale` says what is left of soundness when several workspaces share the cache:
a build that ends well and did not keep a directory that was there (`PullKeeps`) has the
image its checksum names, whole unless it was unpacked from a torn archive, which takes a mirror
or a failing `tar`. So the stale image of `cache_stale` has no other cause. Its invariant `SharedInv` adds to `NamesInv` that what
`tar` unpacks has the version of the checksum, while other workspaces delete and replace
the files (`TakenInv`).

For one workspace without faults (`Alone`), any versions and any mirror, `SoundImage`
and the safety of the refinement (`PromiseKept`: every step of `BuildCache` is one of
`CachePromise` or a stutter) follow from `SoundInv`. It adds to `NamesInv` that the
cache holds one file at most, and that an image left by an earlier build is the one in
that file; so a build that matches without pulling keeps what the file would give it. `Alone`
cannot be weaker: a second workspace replaces the file (finding `cache_stale`),
a kill or a transfer that breaks off leaves a damaged one under a good name, and an edit
during a build gives a new image an old name. Left to TLC: that builds end, the
liveness half of `KeepsPromise`.

## 4. Fetching (`FetchPackage`)

State: `pkg` and `hash` are the package and `.src.hash` in `ENV_DOWN_DIR`, `out`
and `outhash` the same in an output tree, each a version and whether it is
complete; `owner` is the `flock`; `want` is the recipe and `arg` what a run of
the script was called with; `setting` is the kind of recipe (method, pinned or
not), what the mirror holds and what may go wrong, one of `Settings` and never
changed; `"branch"` among the faults is a recipe that names a branch too, or a tag beside
its revision, and whose author edits that. `strikes` counts failed runs without a new fault (bound: 2).

Actions follow the script: `FetchNew`, `FetchKept`, `FetchChanged` and
`Switch` decide whether to download; `Mirror...`, `Pull`, `Origin...`, `Reset...`
are the transfers, where each command of a method that can fail has its own
failing action; `WriteHash` and `HashWritten` are the two moments of `>`;
`UnpackKept` to `Seal` are `do_unpack`. `Begin` and `Lock` are the targets of
`inc.cache.mk`, `Probe` and `Sum` are `get_source_checksum` of
`process_cache.sh`, which looks before it locks. `Kill` releases the lock at any
point, `Change` edits the recipe or moves an unpinned origin.

| Run | Instance | Result |
|---|---|---|
| `fetch_kinds` | 2 workspaces, 2 versions, nine kinds of recipe with the faults that matter to each | a hash only beside a complete package, builds go on only with the complete pinned source, one failed run heals |

Two workspaces and two versions show every conflict of a pair; an
output tree never reads another one's. They do not show everything: that `Careful` must
except svn with a revision where runs are killed (below) takes a third version, and came out
of the proof of `DoneIsWhole`, whose invariant did not hold there. What the run checks is therefore
proved for every number of versions.

Known exceptions, which the properties name (`Careful`, `Honoured`, `Verified`, `Rebranched`):

- whether to reset a clone is decided by the tag and revision it had before `git pull` and `git
  checkout` (lines 220-222, 243-256): a run after an edit of the branch ends well, and writes
  its hash (line 258), at another commit than the pin (`Switch`). `DoneIsWanted` promises there
  only that the tree has the hash of what it is, so that the next run sees the difference;
  where that one ends is a property of `GitClone`;

- the status of `cp -r` (line 314) is ignored, so a copy that fails leaves an
  incomplete tree with the hash of a complete one;
- the old tree is removed before its hash (line 290): a run killed between,
  followed by the recipe going back to the old revision, leaves a part of it
  that counts as unpacked. With svn and a revision the recipe need not even go
  back: the failing update of line 189 leaves the clone at the head of the origin, so
  once there are three versions the old hash can return by itself;
- `md5` is compared only with a new download (lines 88, 102): editing it does
  not replace an archive that is there;
- `svn update -r` (line 189) runs in the directory of the caller and not in the
  working copy, so svn with a revision fails for ever;
- an archive without md5 that the mirror breaks off gets a hash, because the
  status of curl is ignored (line 95); `tar` finds it out, and `RetryHeals`
  shows that the run after that one succeeds.

Proved (`FetchPackageProofs`), for all workspaces, versions and settings:
`TypeOK` and `HashedIsWhole` from `StoreInv`, whose part `Stage` says who is in
the script holds the lock, and that there is no hash file while a transfer is
under way. `DoneIsWhole` (`SourceIsWhole`) follows from `WholeInv`: a hash in an output tree
stands beside a complete tree except at the moment the tree is removed, and where a
complete download is never replaced, that hash is for ever the one in `ENV_DOWN_DIR`, so the
moment never comes. `DoneIsWanted` (`SourceWanted`) has two arguments. Where recipes are not
edited, `WantedInv` adds that only the wanted version ever gets a hash and that a hash in an
output tree stands beside it. Where a clone's recipe may be edited, no run is killed
(`Careful`), and `ExactInv` says that from the download to the seal the owner of the lock has what
it asked for, or another complete clone where branches are edited, and that hash and tree agree. `RetryHeals` (`FailuresHeal`) follows from
`HealInv`: after a failed run, until something breaks anew, only complete packages get a
hash. All three are proved for every method and setting; what they except is in
the properties, as listed above.

## 5. Clones (`GitClone`)

A clone has local and remote-tracking branches, a current one, and the commits
it has got (`objs`); the origin is any graph of commits (`History`) with a head
for each branch; tags and revisions are commits, and a tag may be an object of
its own (`Annotated`), which `git show-ref` does not list with its commit. A run of the
script is one action: `FetchNew` (clone, checkout, reset), `FetchKept` (nothing differs from
the recipe), `FetchChanged` (pull, checkout, reset, the last two only if their field
differed *before*), `CloneFails`. `Edit` changes the recipe. `Push` moves a branch of the origin
anywhere or deletes it, so that a branch of the clone may have diverged: what `git pull`
makes of it is open (`Merging`: a merge that only the clone has, `Own`; a refusal; a conflict),
and its status is ignored (`fetch_package.sh:235`). `CanCheckout` is false over a conflict, and
for a branch that is neither in the clone nor tracked; `Known` for a commit that was never
fetched. Both end the run without a hash, and the next one clones anew. A run that does
not reach the origin (`net`) may fail as well, and is told apart (`"offline"`).

| Run | Instance | Result |
|---|---|---|
| `clone_edit` | 2 branches, 3 commits of which two diverge, every recipe with at most one pin, all edits and pushes | the second run after an edit is at the pin, the clone is on the branch, failures have a cause |

Two commits made from one give a pin that is behind, at, ahead of and beside a head. Git is
taken with its default configuration (a pull merges, nothing is pruned), and the clone is touched
by the script only. Proved for all branches, histories and recipes: `SecondRunPins` and
`BranchFetched` from `CloneInv`; and that the pin is reached from the first run on (`PinFetched`)
if the branch of the recipe is never edited (`FixedInv`). `FailuresAreTrue` states
`FailsForCause`: a run that reaches the origin fails only if the origin lacks the branch or the
commit it was asked for (`Lacking`), or if the clone has to leave a branch that has diverged
(`Caught`, by a conflict). So all properties of the run are proved.

## 6. The chain of targets (`DependCache`)

Packages with strong, weak and conditional dependencies; `src` and `on` are the
sources and the selection in `.config`, `img`, `sysroot` and `cache` the image,
the links in `OUT_PATH/sysroot` and the cache file of a package. `todo` holds the
targets `make` has still to run, `run` those between `psysroot` and the end of
`cachebuild`; the phony targets run once and after their prerequisites
(`Ready`), in any order and in parallel otherwise. A checksum is the record of
what goes into it, so keys are equal when the md5sums are. An image records the
images it was compiled with and whether it is whole: `make install` may fail half way
(`inc.cache.mk:79`, the recipe goes on) and leave a part of an image (`Flaw`), and what is compiled with
such a part is no better (`Built`).

| Run | Instance | Result |
|---|---|---|
| `dep_build` | a chain of three packages with a shortcut, weak and strong dependencies, the undermost with two versions | incremental builds equal clean ones (`Coherent`), compile nothing twice, end |
| `dep_sysroot` | the same, where dependencies are deselected without a clean | `OnlyDeclared` fails (finding) |

Three packages in a chain with one shortcut show transitive and direct use, two
packages that are built in parallel, and a weak dependency that comes and goes.
`fresh` is a history variable: the packages built since the last edit or
selection, for which `Coherent` is claimed. `Coherent` needs that nobody uses
`<package>_single` with old dependencies (`Usage`), that no dependency is
conditional (`Cond`) and that no `CACHE_DEPENDS` is a list (`Manual`): the
constants are there because each of them breaks it, see the hazards. And it excepts
packages among whose images is a part that a failed installation left (`Flawed`): when the edit that
made `make install` fail is taken back, the old cache file matches, `pull` keeps the part, and the
dependents are compiled with it and pushed. For them it claims only that all images exist. Fairness:
`make` runs what is ready, and one of pull and compile happens; a failing
compilation is never forced.

Proved (`DependCacheProofs`), for any packages, dependencies and versions, as long as
`Usage`, `Manual` and `Cond` are empty (`Plain`, where each is needed: see above):
`Coherent` (`BuildsAreClean`) and `NoNeedlessCompile` (`CompilesAreNeeded`). That a key tells an image is
a statement about the past: the key lists the keys of the files the dependencies had
when the package was compiled, and these may have been replaced. So the
invariant `BuildInv` says that there is a set `M` of files, all with whole images that were ever
pushed, that contains those of the present cache, where equal keys mean equal images and each key names files of
`M` whose images the image was compiled with (`Honest`, `Genuine`); compiling adds the
clean image under the present key, which `M` has either not yet or with this image (`PushClear`),
or a flawed image, which leaves `M` as it is.
`PresentInv` has what is about now: `make` runs in order (`OrderInv`), a package has one file and its
image comes from it or is a part (`FileInv`), only dependencies are linked and all of them before a
compilation (`LinkInv`), and what is built matches and is clean or flawed (`BuiltInv`). `Reach` is the
smallest set closed under dependencies, so nothing has to be assumed about circles.

That `make` ends is proved but for fairness, for finitely many packages and without
`Plain`: every step while it runs takes one away from `JobsLeft`, a failed compilation too
(`JobsEnd`), and while targets are left and no job runs one of them is ready
(`MakeNeverStuck`). The latter assumes that the dependencies have an order (`Ordered`):
`sort_items` finds one, or the script writes no Makefile (`OrderRespectsDeps` of section 7).
Left to TLC: the step from there to `MakeEnds`, which needs fairness.

## 7. The sort (`ChainSort`)

The lists of each package (`item`) are an initial state, so a run of TLC goes
through many inputs. `CheckMissing` and `CheckCounts` are `check_item`,
`SortRound`, `FinallyRound`, `Circular` and `Sorted` are the passes of the loop of
`sort_items`, `Prerequisites` is what `gen_make` writes. `level` is the round in
which a package was put into the order: packages of one round keep the order
of the recipes, which no property depends on.

| Run | Instance | Result |
|---|---|---|
| `chain_sort` | 3 packages and a name that is missing or virtual, 64800 families of lists | order, true circles, `finally` last, a Makefile without circles, an end |

The families contain self-dependencies, circles of two and three, names in two
lists, rules with and without an existing alternative, missing conditional
dependencies, and `finally` on two packages with and without dependencies
between them. A package may have a dependency
under two conditions (`dep@x` with `dep@y`): `twice` are the names that a list
repeats. They are counted twice and uncounted once (lines 714 and 757-761), so
the script reports a circle that does not exist. And so it does for a package that
names a virtual package without its `*`: `check_item` looks names up among the packages *and*
the virtual packages (`Targets`, lines 1452-1453; the field `known`, since menus that turn out to be
empty are taken off while it runs, lines 731-735), so the name stays in the list and is counted,
but never gets a place (`Open`). `NoFalseCircle` excepts these two kinds (`Miscounted`) and no
others.
The script stops, so deadlock is not checked; fairness is that the script runs.

Proved (`ChainSortProofs`), for all packages and lists: `TypeOK` (no count falls
below zero), `InOrder`, `NoFalseCircle`, `FinallyLast`, `MakeHasOrder`. The inductive
invariant is `SortInv`. Its heart `Counted` says that `acount` is the number of
dependencies without a place, virtual ones included, once per list, plus one for `finally_flag`
and what a list repeats; a round subtracts exactly what it places (`Uncounted`, a lemma on cardinalities).
For `finally`, `FinallyWaits` says that when the flag falls, what is left and does not
need `finally` waits for itself and is stuck for ever, so in a complete order
nothing of it was left. `SortingEnds` is the end of the loop as a safety property: every step
uses up a place, the flag or a state (`Left`), so the script takes at most three steps more
than there are packages. That it takes them (`Ends`) needs fairness and is left to TLC.

## 8. Kconfig expressions (`KRules`, `KExpr`, `KFunctions`, `KDepends`)

An expression is a tuple; a function of `expr.c` that rewrites its argument in
place is an operator that returns the new one, and `__expr_eliminate_eq`, which rewrites
both of its arguments while it walks over them, returns both. What a function does with one node
is an operator of `KRules` (`transform` for `expr_transform`; `PROJECT.json` has its lines under the
function of `KExpr`); `KExpr` closes the recursion
for TLC, and `KFunctions` says of any function on a set of expressions that it obeys the rule at
every node. Comparisons follow
`expr_parse_string`: signed, unsigned or text by the types of both sides, with the
constants of the instance in a table (`Strtoll`, `Words`).

The state of `KDepends` is the value stack of the parser; its actions are the
reductions of the rules `expr` and `symbol` of `parser.y`. So every expression the
parser can hold is reached, and with two on the stack every pair.

| Run | Instance | Result |
|---|---|---|
| `kconfig_expr` | a bool, a tristate, an int and a hex symbol; 16 operands | rewriting keeps values, `expr_trans_bool` keeps truth, equal expressions have one value, an entry is put below a symbol only if it needs it |

Bounds: `MaxStack` 3 and `MaxOperands` 4, the third operand from `FewLeaves` and the
fourth from `LastLeaves`, `!` before symbols and before what `&&` and `||` join (from
where `expr_transform` brings it to comparisons), with three operands before the whole only. Two operands meet every case of the joins in
`expr_join_or` and `expr_join_and`, three and four the search through nested
operands of both sides, which does not look at what an operand is beyond
`expr_eq`. `SubmenuImplies` claims the second test of `menu_finalize` only where nothing is `m`:
`expr_trans_compare` reads `!A` as `A=n` (section 13).

Proved (`KRulesProofs`, `KLevelProofs`), for every set of names and types, for all
expressions of any size and under every valuation:

| Theorem | Without bounds, what the run checks as |
|---|---|
| `TransformKeepsValue`, `DupsKeepValue`, `SimplifiedHasSameValue` | `SimplifyKeepsValue` |
| `TransBoolKeepsTruth`, `BoolDependencyKeepsTruth` | `BoolKeepsTruth` |
| `EqualMeansSameValue` | the second part of `EqualMeansSame` |
| `DependsImplies`, `SubmenuShowsParent` | `SubmenuImplies` |
| `SweepKeepsValue`, `JoinOrKeepsValue`, `JoinAndKeepsValue`, `EliminateKeepsOrder`, `PassKeepsValue`, `TransCompareTruth` | steps of these |
| `JoinsMakeLighter`, `DupsEnd`, `DupsGiveResult` | that `expr_eliminate_dups` ends, which a run of TLC only shows by ending |

A theorem speaks of a set `E` of all expressions up to a weight (`Expressions`; the bound is
any number, and leaves room for what a rewriting needs on the way), a valuation of the kind
`sym_calc_value` leaves (`Valuation`), and functions that obey the rules: `Values` for
`expr_calc_value`, `Transforms` for `expr_transform` and so on. The prover has no induction over data,
but it has well-founded order: an expression of least weight that breaks a claim is taken, all
lighter ones obey it, and the rule for one node gives the contradiction. A negation weighs
twice its operand, so that pushing it inwards adds no weight.

For the walks over the operands of `&&` and `||` the argument is `AtLimit`: a level of `&&` is
at least `t` exactly if all its operands are, one of `||` at most `t`. The step of `expr_eliminate_eq` on one pair of operands
keeps an invariant on the two lists (`Reduced`): whatever the lists now say about the
order of the two values holds of the expressions. That is stronger than "equal stays equal", and must be: from
`y` left of the second `menu_finalize` concludes an implication. That of
`expr_eliminate_dups1` keeps the value (`Joining`) and counts its joins truly (`Counted`):
after a join something is left that the sweep takes away, so passes end. Neither invariant needs the order in
which the code meets the pairs, so the theorems leave it open (`EliminatesInOrder`, `JoinsInOrder`).
`expr_eq` and the walk call each other; both are right about a pair if they are about lighter ones
(`SameBelow`).

The hypotheses can be met: `MCKDepends` has TLC evaluate, as assumptions, that all expressions of weight 4
or less over its seven names are such a set, and that the operators of `KExpr` on them, and on a set of
levels (`Few`), are such functions, with the pairs in the order in which `WalkPairs` of `KExpr` meets them (`Pairs`). Names are those of the
instance's strings (`NamesAssumption`); they leave out constants that are digits (section 13).
What stays with TLC: that `expr_eq` is symmetric and calls each expression equal to itself (both
need the order of the walk), and that the recursion of `KExpr` gives the functions, that is,
that `expr_eq` and the rest return.

## 9. Symbols, menus and files (`KSymbol`, `KMenu`, `KParse`)

`KSymbol` threads the state of all symbols through every call, as the C code does
through globals: `valid` is `SYMBOL_VALID`, which `sym_calc_value` sets before it
computes, so a value that is read while it is in the making is the old one, in the
model too. `KMenu` is `menu_finalize` on the tree of entries, with the flattening of
blocks and the submenus, and `sym_check_deps` with its flags. The actions of `KParse`
are the statements of a file; the end of the file runs `conf_parse`. Each state on the way is computed
before it is handed on (`With`, `Through` of `KExpr`): TLC would otherwise carry the whole chain of calls
unevaluated to its end, and run out of stack there.

| Run | Instance | Result |
|---|---|---|
| `kconfig_parse` | files of up to 4 entries from a vocabulary of 7 statements: two bool symbols, a tristate one, a tristate choice, `if`, `menu` with `visible if`, `select`, `imply`, defaults that go round in a circle | the tree holds every property under the condition of the text, in the order of the text; a recursive dependency is reported exactly when there is one; values do not depend on the order of evaluation; what is visible can be reached |

Bound: `MaxEntries` 4. Four entries are a block around an entry, one that follows
into its submenu, and one that must not; the smallest circles through a choice and
through a select fit as well.

## 10. Sessions (`KConf`, `KSession`)

A process starts with fresh symbols, reads `.config`, lets the user set symbols or sets
them by a rule, and writes the file. `todo` is what it has yet to call: the calls of `main`
in their order, and before them what is left of those begun (the C stack of `conf`,
`check_conf` and `conf_choice`). The kind of process is `job`; with its end (`End`) all that it
had in memory is gone, and only `file` and `mini` (the file of `savedefconfig`) stay.

| Actions | Code |
|---|---|
| `Read`, `Write`, `WriteDefconfig` | `conf_read` and `conf_load`, `conf_write`, `conf_write_defconfig` |
| `StartMenuconfig`, `Draw`, `SetTristate`, `ToggleTristate`, `ChooseMember`, `TypeString`, `EnterMenu`, `LeaveMenu`, `LoadFile`, `LoadMissing`, `SaveFile`, `ExitMenuconfig` | `mconf.c`: a stack of menus (`trail`), what of the current one is drawn (`screen`), one action per key. A key whose value is refused changes nothing |
| `StartBatch`, `SetAll`, `Rewrite`, `RandomRound` | the modes of `conf.c` that ask nothing: `Mains` has the calls of each (`allnoconfig` to `randconfig`, `olddefconfig`, `yes2modconfig` and its like, `savedefconfig`, `defconfig`) |
| `StartAsk`, `Conf`, `Member`, `Kids`, `Check`, `Round`, `Again` | oldaskconfig and oldconfig: one entry of a menu, one number of a choice, one round of the loop of `main` |

| Run | Instance | Result |
|---|---|---|
| `kconfig_session` | six Kconfig files (`Plain`, `Choice`, `TriChoice`, `Menus`, `Hidden`, `BoolChoice`), two processes one after the other, every answer: 39037 states | choices are exclusive, accepted answers stay, a saved file is read back and is not found changed, a minimal configuration restores the whole one, oldconfig asks all that can be asked and ends |

`SaveLoad` and `DefconfigLoad` compute, in each state in which a process writes next, what the next
process would read; the runs of two processes show in addition what the second does with it.

Bounds: `MaxCommands` 2 processes, of which the second reads what the first wrote, and
`MaxKeys` 2 values set by keys in menuconfig: an answer, and one that changes its
surroundings. The six files have the constellations that the code treats apart: `m` with
modules and numbers with limits; a choice whose member depends on another symbol and
which has a submenu; an optional choice with modules; selected and implied symbols in
a menu; a choice all of whose members may be hidden; a choice of bool members, which the minimal
configuration leaves out where they are the default.

Fairness: a process that has something to do goes on, since the user answers every question
at last with a value that is accepted; in menuconfig, between two keys, nothing is promised.
It is stated as `[]<>(~Running) \/ []<><<Running>>_vars`, where `Running` is `todo # <<>>`: weak
fairness of all actions but keys and starts, without asking TLC for ENABLED of them. It would
hide a question that cannot be answered; the first conjunct of `AllAsked` shows that there is
none about a choice, and `Entered` always has the present value.

## 11. The files of a configuration (`KSync`)

State: `.config` and `config.h` with their times in whole seconds, `.config.old`,
`auto.conf`, `fresh` (is `auto.conf` the later one), `touched` (symbols whose file is
later than the objects that depend on it), `obj` (what the objects were compiled
with), the stamp. A recipe is a sequence of commands in `todo`; `Load`, `Stat`, `Compare`,
`Cp` and `Sed` are commands of `inc.conf.mk`, `NoChange` to `WriteAuto` the steps of `conf` and
`mconf`. `Kill` and `Fail` stop it between any two steps; `EditConfig`, `EditDef`, `Compile`
and `Clean` are the user.

| Run | Instance | Result |
|---|---|---|
| `kconfig_sync` | 2 bool symbols, 2 default configurations, 3 targets, 1 kill or failure, 4 seconds | no object is left behind its symbols, the saved configuration is kept, `config.h` belongs to `.config` when a target ended well |

Bounds: `MaxRuns` 3 is a run, the one that breaks off, and the one that has to repair it;
`MaxBreaks` 1 is one break at every place. `MaxTime` 4 gives each of them a second of its own. `NextSecond` is an
assumption: runs and edits are a second apart, as `stat -c %Y` cannot tell
less.

Proved (`KSyncProofs`), for every set of symbols, values and default configurations and
any number of runs and breaks: `ObjectsFollow`, from `ObjectsInv`. It adds `StageInv`
(while files are touched, what differs between memory and `auto.conf` is touched or left
to touch; after that `config.h` is the configuration in memory) and `FreshInv` (a later
`auto.conf` means that all files are of one configuration, so `Compile` reads the
right values). `ConfigKept` needs in addition only that the configuration moved aside is the
saved one (`KeptStep`).

`HeaderCurrent` (`HeaderIsCurrent`) is about times. Its invariant `HeaderInv` has two parts.
`RecipeInv` says what may follow what in the rest of a recipe (`InOrder`: `sed` only after
`conf`, nothing before `conf` may be the last command), since `load` and `compare` put other
commands in front. `TimeInv` has the argument: wherever `config.h` differs from `.config`,
`.config` is later (`Told`), because every file that replaces `.config` is written in a later
second than `config.h` (`NextSecond`) or, once `conf` wrote `config.h`, is not written again
in that run (`Settled`: `conf` finds nothing to change). So if `load` and `compare` decide
that `config.h` need not be made again, it is the present one. The theorem rests on
`NextSecond` as a guard of runs, edits and the end of `mconf`.

## 12. Findings

| Finding | Where | What |
|---|---|---|
| `cache_stale` | `process_cache.sh:459` | a build that matches a file pushed by another output tree keeps its old image |
| `dep_sysroot` | `inc.cache.mk:167` | a deselected dependency stays in the private sysroot |

Each is a run that TLC ends with a counterexample; `PROJECT.json` quotes the
sentence of the repository that it contradicts.

## 13. Known deviations

Behaviour that was met while modelling, that the models have, and that a
property excepts by name or a precondition, so that it is not promised:

Cache and fetching:

- a mirror download that breaks off stays under its final name and is a MATCH for the next
  check; tar fails on it and `pull` exits 0 (`process_cache.sh:445`);
- when `tar` fails in `push`, the good cache files are deleted, the torn archive is published (a
  MATCH for the next check), or none, and `push` reports success (`process_cache.sh:493`);
- a `make install` that fails half way leaves a part of an image; after the edit is taken back the
  old cache file matches, `pull` keeps the part, and dependents compiled with it are pushed
  (`inc.cache.mk:79`, `process_cache.sh:459`);
- `get_source_checksum` reads a package that another process downloads
  (`process_cache.sh:217`), so the key can be that of a part of an archive;
- tag and revision are compared before `git pull` and `git checkout`: a branch that is edited in a recipe, or
  added, moves the clone away from its pin, once (`fetch_package.sh:243`);
- a branch of the clone that has diverged stays where it was, or gets a merge that nobody else has, and
  the run goes on; left in conflict, it makes the checkout of another branch fail
  (`fetch_package.sh:235`);
- `unsetforce` leaves the cache file with the force mark until the next push
  (`process_cache.sh:513`).

Chain generator:

- a package that repeats a name in one list, or names a virtual package without its `*`, is reported as
  a circle that does not exist (`gen_build_chain.py:714`, `:1453`);
- a package without `finally` that depends on one with it gets a circle in the Makefile, which make
  breaks (`gen_build_chain.py:1066`).

Kconfig engine:

- in `menuconfig`, loading a file that does not exist takes the answers for saved: they are kept, but not
  offered for saving at the exit (`confdata.c:534`, `LoadMissing`);
- an optional choice is answered by its members, and its answer is taken back while a visible
  member has none (`symbol.c:283`); one that is `m` with all members `n` has no line in `.config`
  and is lost;
- beside a tristate symbol the constants `0`, `1` and `2` are read as numbers and equal `n`, `m` and
  `y`, but the join of `(a=b) && (a!=c)` takes two different constants for two values
  (`expr.c:540`): such constants are not in the model;
- `expr_trans_compare` reads `!A` as `A=n`, which differs where `A` is `m`: an entry may stand
  below a symbol it does not need;
- a prompt whose condition is `m` lets a default `y` through until the file is read again; such symbols
  are not in the six files;
- int and hex symbols without a default write an empty value;
- `menu_is_visible` marks a symbol as answered, because it computes it, and the second loop of `conf_read` goes
  over the symbols in hash order (`order` is a constant of each program);
- the limits of a range are not followed by `sym_check_deps`;
- of a bool symbol with two entries in one tristate choice only one entry gets the extra
  condition;
- a question at the end of the input whose default is not accepted is asked for ever; the fairness
  of `KSession` assumes a user who answers.

Files of a configuration:

- killed between the two renames there is no `.config`; the next `loadconfig` takes this for a new
  package and overwrites `.config.old` too (`saved` becomes Absent with `Cp`);
- killed between `WriteHeader` and `WriteAuto`, config.h is ahead of `auto.conf`; the files are
  touched, so nothing is compiled wrongly;
- in `load_specific_config` a `;` after `conf` lets the recipe go on after a failure, so `make` reports
  success (`bad` in the model, which is why `HeaderCurrent` speaks of `ok`);
- `cp -f` killed after it emptied `.config` leaves the defaults under a valid stamp.

## 14. What is not modelled

- Compilers, the toolchain's Makefile, the Yocto classes, the recipes and the tables of machines:
  fixed sequences and data.
- Patching: whether a patch applies is a question about text, and a model would assume the answer
  it is asked for. Sysroots: `cp` and `ln` of trees under one lock; `DependCache` has the
  set of linked packages. `safe_copy` is one `cp` in one `flock`.
- The parsing half of `gen_build_chain.py`: text. `ChainSort` starts from the lists it ends in.
- Of the Kconfig engine: the lexer, the preprocessor's macros (`preprocess.c`), `lxdialog`,
  the formats in which values are printed, searching and help, `KCONFIG_*` variables
  (`KCONFIG_OVERWRITECONFIG`, `KCONFIG_ALLCONFIG`, `KCONFIG_PROBABILITY`), errors of the file system
  inside `is_same`.
- Write errors of `conf_write` (`confdata.c:874-942`): it checks neither `fprintf` nor `fclose`, so on a
  full disk a truncated file takes the place of `.config`. The models write complete files; kills are
  modelled (`KSync`).
- Contents are versions: hashing is collision-free, and that the checksum leaves out file names
  is a hazard without a property. Native packages are packages like others.

`PROJECT.json` lists the hazards of the code under `hazards`, each with the
properties that would notice it or the reason why none does.

## 15. Running

```
tlc -workers 2 -config MCBuildCache_single.cfg MCBuildCache
tlapm BuildCacheProofs.tla
```

and the same for every run of `PROJECT.json` and every module `...Proofs`.
Liveness and ENABLED are outside what the prover can do and stay with TLC. So does all that
recursive operators compute, in `KSymbol`, `KMenu`, `KParse`, `KConf` and `KSession`: a theorem
cannot reach a recursive operator. Of `KExpr` the same is proved about functions that obey the
same rules (section 8). `KSync` has none.
