----------------------------- MODULE KSyncProofs -----------------------------
(***************************************************************************)
(* Proofs about KSync, for every set of symbols and values, any number of  *)
(* runs, kills and failures.                                               *)
(*                                                                         *)
(* auto.conf may be replaced only when everything that differs from it has *)
(* been touched; that survives a kill because what is touched stays        *)
(* touched until the objects are compiled, and they are compiled only      *)
(* while config.h, auto.conf and .config are of one configuration.         *)
(***************************************************************************)
EXTENDS KSync, SequenceTheorems, TLAPS

\* What the steps of conf have established for the next one.
StageInv ==
  /\ pc \in {"none", "write", "aside", "written", "touch", "header"}
  /\ now \in Nat /\ def \in Configs /\ src \in Configs /\ new \in Configs
  /\ config \in Files \cup {Absent} /\ auto \in Configs \cup {Absent}
  /\ pc \in {"written", "touch", "header"} => config # Absent /\ config.conf = new
  /\ pc = "touch" => Changed \subseteq touched \cup left
  /\ pc = "header" => Changed \subseteq touched /\ header \in Headers /\ header.conf = new

\* auto.conf is later than .config only while all files are of one configuration.
FreshInv ==
  fresh =>
    /\ auto # Absent /\ header \in Headers /\ header.conf = auto
    /\ config # Absent => config.conf = auto

ObjectsInv == StageInv /\ FreshInv /\ ObjectsFollow

LEMMA AllNoType == AllNo \in [Symbols -> Values \cup {No}]
BY DEF AllNo

\* .config is written by a recipe, an editor or conf.
LEMMA FileType ==
  ASSUME now \in Nat, NEW c \in Configs, NEW r \in BOOLEAN
  PROVE  File(c, r) \in Files /\ File(c, r) # Absent /\ File(c, r).conf = c
BY ConstantsAssumption DEF File, Files

LEMMA ObjectsInit == Init => ObjectsInv
BY ConstantsAssumption DEF Init, ObjectsInv, StageInv, FreshInv, ObjectsFollow, AutoConf, AllNo

\* Steps of a recipe between the programs leave all that the invariant mentions.
LEMMA ObjectsStay ==
  ASSUME ObjectsInv, UNCHANGED <<config, header, auto, fresh, touched, obj, def, src, pc, new, left, now>>
  PROVE  ObjectsInv'
BY DEF ObjectsInv, StageInv, FreshInv, ObjectsFollow, Changed, AutoConf

LEMMA ObjectsStep == ObjectsInv /\ [Next]_vars => ObjectsInv'
<1> SUFFICES ASSUME ObjectsInv, [Next]_vars PROVE ObjectsInv'
  OBVIOUS
<1> USE DEF ObjectsInv
<1>1. CASE UNCHANGED vars
  BY <1>1, ObjectsStay DEF vars, files, user, recipe, process
<1>2. CASE Target
  BY <1>2, ConstantsAssumption DEF Target, menuconfig, loadconfig, defconfig, AnyConfig, SyncAuto,
     Start, Rest, files, process, StageInv, FreshInv, ObjectsFollow, Changed, AutoConf
<1>3. CASE Recipe
  <2>1. CASE Load \/ Stat \/ Compare \/ process_config_hash \/ Unsaved
    BY <2>1, ObjectsStay
    DEF Load, Stat, Compare, process_config_hash, Unsaved, OnlyRecipe, files, user, process
  <2>2. CASE Cp
    <3>1. /\ pc = "none" /\ config' \in Files /\ fresh' = FALSE
          /\ UNCHANGED <<header, auto, touched, user, src, process, now>>
      BY <2>2, FileType, ConstantsAssumption DEF Cp, Command, StageInv
    <3> QED BY <3>1 DEF user, process, StageInv, FreshInv, ObjectsFollow, Changed, AutoConf
  <2>3. CASE Sed
    <3>1. header \in Headers => header' \in Headers /\ header'.conf = header.conf
      BY <2>3 DEF Sed, Headers, StageInv
    <3> QED BY <2>3, <3>1 DEF Sed, Command, user, process, StageInv, FreshInv, ObjectsFollow,
               Changed, AutoConf
  <2>4. CASE RunProgram
    <3>1. /\ pc' = "write" /\ new' \in Configs
          /\ UNCHANGED <<files, user, src, now>>
      BY <2>4 DEF RunProgram, Run, Answers, StageInv
    <3> QED BY <3>1 DEF files, user, StageInv, FreshInv, ObjectsFollow, Changed, AutoConf
  <2>5. CASE End
    BY <2>5, ObjectsStay DEF End, files, user, process
  <2> QED BY <1>3, <2>1, <2>2, <2>3, <2>4, <2>5 DEF Recipe
<1>4. CASE conf
  <2> USE DEF At, GoTo, Else, user, recipe
  <2>1. CASE NoChange
    BY <2>1 DEF NoChange, is_same, files, StageInv, FreshInv, ObjectsFollow, Changed, AutoConf
  <2>2. CASE MoveAside
    BY <2>2 DEF MoveAside, StageInv, FreshInv, ObjectsFollow, Changed, AutoConf
  <2>3. CASE MoveNew
    BY <2>3, FileType DEF MoveNew, StageInv, FreshInv, ObjectsFollow, Changed, AutoConf
  <2>4. CASE AutoPresent
    BY <2>4 DEF AutoPresent, files, StageInv, FreshInv, ObjectsFollow, Changed, AutoConf
  <2>5. CASE StartAuto
    BY <2>5 DEF StartAuto, files, StageInv, FreshInv, ObjectsFollow, Changed, AutoConf
  <2>6. CASE WriteHeader
    <3>1. header' \in Headers /\ header'.conf = new
      BY <2>6 DEF WriteHeader, Headers, StageInv
    <3> QED BY <2>6, <3>1 DEF WriteHeader, StageInv, FreshInv, ObjectsFollow, Changed, AutoConf
  <2>7. CASE WriteAuto
    <3>1. \A s \in Symbols \ touched : obj[s] = new[s]
      BY <2>7 DEF WriteAuto, StageInv, ObjectsFollow, Changed
    <3> QED BY <2>7, <3>1, ConstantsAssumption DEF WriteAuto, StageInv, FreshInv, ObjectsFollow,
               Changed, AutoConf
  <2>8. ASSUME NEW s \in Symbols, conf_touch_dep(s) PROVE ObjectsInv'
    BY <2>8 DEF conf_touch_dep, StageInv, FreshInv, ObjectsFollow, Changed, AutoConf
  <2> QED BY <1>4, <2>1, <2>2, <2>3, <2>4, <2>5, <2>6, <2>7, <2>8 DEF conf
<1>5. CASE Others
  <2>1. CASE Fail \/ Kill
    BY <2>1 DEF Fail, Kill, files, user, StageInv, FreshInv, ObjectsFollow, Changed, AutoConf
  <2>2. CASE Tick
    BY <2>2 DEF Tick, files, user, recipe, process, StageInv, FreshInv, ObjectsFollow, Changed, AutoConf
  <2>3. CASE Clean
    BY <2>3 DEF Clean, Rest, process, StageInv, FreshInv, ObjectsFollow, Changed, AutoConf
  <2>4. CASE Compile
    <3>1. \A s \in Symbols : obj'[s] = AutoConf[s]
      BY <2>4 DEF Compile, FreshInv, ObjectsFollow, AutoConf
    <3> QED BY <2>4, <3>1 DEF Compile, Rest, recipe, process, StageInv, FreshInv, ObjectsFollow,
               Changed, AutoConf
  <2>5. ASSUME NEW c \in Configs, EditConfig(c) PROVE ObjectsInv'
    BY <2>5, FileType DEF EditConfig, Rest, process, StageInv, FreshInv, ObjectsFollow, Changed, AutoConf
  <2>6. ASSUME NEW d \in Defs, EditDef(d) PROVE ObjectsInv'
    BY <2>6, ConstantsAssumption DEF EditDef, files, recipe, process, StageInv, FreshInv, ObjectsFollow,
       Changed, AutoConf
  <2> QED BY <1>5, <2>1, <2>2, <2>3, <2>4, <2>5, <2>6 DEF Others
<1> QED BY <1>1, <1>2, <1>3, <1>4, <1>5 DEF Next

\* Objects whose symbols' files were not touched since they were compiled agree with
\* auto.conf, for every set of symbols and wherever runs are killed or fail.
THEOREM ObjectsFollowAuto == Spec => []ObjectsFollow
<1>1. ObjectsInv => ObjectsFollow
  BY DEF ObjectsInv
<1> QED BY ObjectsInit, ObjectsStep, <1>1, PTL DEF Spec
-----------------------------------------------------------------------------
LEMMA KeptStep == ObjectsInv /\ ConfigKept /\ [Next]_vars => ConfigKept'
<1> SUFFICES ASSUME ObjectsInv, ConfigKept, [Next]_vars PROVE ConfigKept'
  OBVIOUS
<1>1. CASE UNCHANGED <<config, old, saved>>
  BY <1>1 DEF ConfigKept
<1>2. CASE Cp \/ Clean
  BY <1>2 DEF Cp, Clean, ConfigKept
<1>3. CASE MoveAside
  BY <1>3 DEF MoveAside, ConfigKept
<1>4. CASE MoveNew
  BY <1>4, FileType DEF MoveNew, ConfigKept, ObjectsInv, StageInv
<1>5. ASSUME NEW c \in Configs, EditConfig(c) PROVE ConfigKept'
  BY <1>5, FileType DEF EditConfig, ConfigKept, ObjectsInv, StageInv
<1>6. Target => UNCHANGED <<config, old, saved>>
  BY DEF Target, menuconfig, loadconfig, defconfig, AnyConfig, SyncAuto, Start, files
<1>7. Recipe => Cp \/ UNCHANGED <<config, old, saved>>
  BY DEF Recipe, Load, Stat, Compare, process_config_hash, Sed, RunProgram, Run, Unsaved, End,
     OnlyRecipe, files
<1>8. conf => MoveAside \/ MoveNew \/ UNCHANGED <<config, old, saved>>
  BY DEF conf, NoChange, AutoPresent, StartAuto, conf_touch_dep, WriteHeader, WriteAuto, files
<1>9. Others => \/ Clean \/ UNCHANGED <<config, old, saved>>
                \/ \E c \in Configs : EditConfig(c)
  BY DEF Others, Fail, Kill, Tick, Compile, EditDef, files
<1> QED BY <1>1, <1>2, <1>3, <1>4, <1>5, <1>6, <1>7, <1>8, <1>9 DEF Next, vars, files

\* A configuration that was saved stays in .config or .config.old until a target loads
\* another one or OUT_PATH is removed, for all configurations and wherever runs break off.
THEOREM SavedIsKept == Spec => []ConfigKept
<1>1. Init => ConfigKept
  BY DEF Init, ConfigKept
<1> QED BY <1>1, ObjectsInit, ObjectsStep, KeptStep, PTL DEF Spec
-----------------------------------------------------------------------------
(* config.h.  A run starts a second after config.h was written, and no run *)
(* replaces .config after it wrote config.h: so .config is later wherever  *)
(* they differ.                                                            *)

\* The commands before conf of a recipe that loads a configuration.
Early == {"load", "cp", "copied", "rm", "echo", "defconfig"}
Commands == Early \cup {"conf", "sed", "stat", "mconf", "compare"}

\* How recipes are put together: what may be the last command, and what follows what.
InOrder(t) ==
  /\ t \in Seq(Commands)
  /\ \A i \in 1..Len(t) :
       /\ t[i] \in {"load", "compare", "conf", "sed"} \/ i < Len(t)
       /\ i < Len(t) =>
            /\ t[i] = "defconfig" => t[i + 1] = "conf"
            /\ t[i] = "mconf" => t[i + 1] = "compare"
            /\ t[i + 1] = "sed" => t[i] = "conf"
            /\ t[i + 1] \in Early => t[i] \in {"cp", "copied", "rm", "echo"}

Ahead(names) == todo # <<>> /\ Head(todo) \in names
Current == config # Absent /\ header # Absent /\ header.conf = config.conf
Settled == Current /\ ~config.raw

\* Where config.h is another configuration than .config the times tell.
Told == config # Absent /\ header # Absent => header.conf = config.conf \/ config.time > header.time

RecipeInv ==
  /\ InOrder(todo) /\ header \in Headers \cup {Absent}
  /\ status \in {"idle", "busy", "bad", "ok"}
  /\ status \in {"idle", "ok"} => todo = <<>> /\ pc = "none"
  /\ pc # "none" => ~Ahead(Early)
  /\ pc # "none" /\ mode # "sync" => Ahead({"conf", "compare"})

TimeInv ==
  /\ Told
  /\ status \in {"busy", "bad"} => NextSecond \/ Settled
  /\ pc = "none" /\ Ahead(Early) => NextSecond
  /\ pc = "none" /\ Ahead({"sed"}) => Settled
  /\ pc = "write" => NextSecond \/ is_same
  /\ pc = "aside" => NextSecond
  /\ pc \in {"written", "touch", "header"} => ~config.raw
  /\ pc = "header" => Settled
  /\ status = "ok" \/ (status = "busy" /\ pc = "none" /\ todo = <<>>) => Current

HeaderInv == RecipeInv /\ TimeInv

\* The first command of a recipe and what may follow it.
LEMMA FirstCommand ==
  ASSUME NEW t, InOrder(t), t # <<>>
  PROVE  /\ Head(t) \in Commands /\ InOrder(Tail(t))
         /\ Tail(t) = <<>> => Head(t) \in {"load", "compare", "conf", "sed"}
         /\ Tail(t) # <<>> =>
              /\ Head(t) = "defconfig" => Head(Tail(t)) = "conf"
              /\ Head(t) = "mconf" => Head(Tail(t)) = "compare"
              /\ Head(Tail(t)) = "sed" => Head(t) = "conf"
              /\ Head(Tail(t)) \in Early => Head(t) \in {"cp", "copied", "rm", "echo"}
<1> DEFINE u == Tail(t)
<1>1. t \in Seq(Commands) /\ Len(t) \in Nat \ {0} /\ Head(t) = t[1] /\ t[1] \in Commands
  BY DEF InOrder
<1>2. /\ u \in Seq(Commands) /\ Len(u) = Len(t) - 1
      /\ \A i \in 1..Len(u) : u[i] = t[i + 1]
      /\ u # <<>> => Len(u) > 0 /\ Head(u) = u[1]
      /\ u = <<>> => Len(t) = 1
  <2>1. u \in Seq(Commands) /\ Len(u) = Len(t) - 1 /\ \A i \in 1..Len(u) : u[i] = t[i + 1]
    BY <1>1, HeadTailProperties
  <2>2. u # <<>> => Len(u) > 0 /\ Head(u) = u[1]
    BY <2>1
  <2>3. u = <<>> => Len(u) = 0
    BY <2>1, EmptySeq
  <2> QED BY <1>1, <2>1, <2>2, <2>3
<1>3. InOrder(u)
  <2> SUFFICES ASSUME NEW i \in 1..Len(u)
               PROVE  /\ u[i] \in {"load", "compare", "conf", "sed"} \/ i < Len(u)
                      /\ i < Len(u) =>
                           /\ u[i] = "defconfig" => u[i + 1] = "conf"
                           /\ u[i] = "mconf" => u[i + 1] = "compare"
                           /\ u[i + 1] = "sed" => u[i] = "conf"
                           /\ u[i + 1] \in Early => u[i] \in {"cp", "copied", "rm", "echo"}
    BY <1>2 DEF InOrder
  <2>1. i + 1 \in 1..Len(t) /\ u[i] = t[i + 1] /\ (i < Len(u) => u[i + 1] = t[i + 1 + 1])
    BY <1>1, <1>2
  <2> QED BY <2>1, <1>1, <1>2 DEF InOrder
<1>4. u = <<>> => Head(t) \in {"load", "compare", "conf", "sed"}
  BY <1>1, <1>2 DEF InOrder
<1>5. u # <<>> => 1 \in 1..Len(t) /\ 1 < Len(t) /\ Head(u) = t[1 + 1]
  BY <1>1, <1>2
<1> QED BY <1>1, <1>3, <1>4, <1>5 DEF InOrder

\* What the load and compare commands put in front.
LEMMA Joined ==
  ASSUME NEW s, NEW t, InOrder(s), InOrder(t), s # <<>>, s[Len(s)] = "sed",
         t # <<>> => Head(t) \notin Early \cup {"sed"}
  PROVE  InOrder(s \o t) /\ s \o t # <<>> /\ Head(s \o t) = Head(s)
<1> DEFINE u == s \o t
<1>1. /\ s \in Seq(Commands) /\ t \in Seq(Commands) /\ Len(s) \in Nat \ {0} /\ Len(t) \in Nat
      /\ Head(s) = s[1] /\ (t # <<>> => Len(t) > 0 /\ Head(t) = t[1])
  BY DEF InOrder
<1>2. /\ u \in Seq(Commands) /\ Len(u) = Len(s) + Len(t)
      /\ \A i \in 1..Len(s) : u[i] = s[i]
      /\ \A i \in 1..Len(t) : u[Len(s) + i] = t[i]
  BY <1>1
<1>3. ASSUME NEW i \in 1..Len(u)
      PROVE  /\ u[i] \in {"load", "compare", "conf", "sed"} \/ i < Len(u)
             /\ i < Len(u) =>
                  /\ u[i] = "defconfig" => u[i + 1] = "conf"
                  /\ u[i] = "mconf" => u[i + 1] = "compare"
                  /\ u[i + 1] = "sed" => u[i] = "conf"
                  /\ u[i + 1] \in Early => u[i] \in {"cp", "copied", "rm", "echo"}
  <2>1. CASE i < Len(s)
    <3>1. i \in 1..Len(s) /\ u[i] = s[i] /\ u[i + 1] = s[i + 1] /\ i < Len(u)
      BY <2>1, <1>1, <1>2
    <3> QED BY <3>1, <2>1 DEF InOrder
  <2>2. CASE i = Len(s)
    <3>1. u[i] = "sed" /\ (i < Len(u) => t # <<>> /\ u[i + 1] = Head(t))
      BY <2>2, <1>1, <1>2
    <3> QED BY <3>1
  <2>3. CASE i > Len(s)
    <3>1. PICK j \in 1..Len(t) : i = Len(s) + j
      <4>1. i - Len(s) \in 1..Len(t) /\ i = Len(s) + (i - Len(s))
        BY <2>3, <1>1, <1>2
      <4> QED BY <4>1
    <3>2. u[i] = t[j] /\ (i < Len(u) => j < Len(t) /\ u[i + 1] = t[j + 1]) /\ (j < Len(t) => i < Len(u))
      BY <3>1, <1>1, <1>2
    <3> QED BY <3>2, <3>1 DEF InOrder
  <2> QED BY <2>1, <2>2, <2>3, <1>1, <1>2
<1>4. u # <<>> /\ Head(u) = Head(s)
  BY <1>1, <1>2
<1> QED BY <1>2, <1>3, <1>4 DEF InOrder

LEMMA RecipesInOrder ==
  /\ InOrder(<<>>) /\ InOrder(<<"conf">>) /\ InOrder(<<"load">>)
  /\ InOrder(<<"load", "stat", "mconf", "compare">>)
  /\ InOrder(gen_config_header) /\ gen_config_header[Len(gen_config_header)] = "sed"
  /\ gen_config_header # <<>> /\ Head(gen_config_header) = "conf"
  /\ InOrder(load_specific_config) /\ load_specific_config[Len(load_specific_config)] = "sed"
  /\ load_specific_config # <<>> /\ Head(load_specific_config) = "cp"
<1>0. gen_config_header = <<"conf", "sed">>
  BY DEF gen_config_header
<1>1. InOrder(<<>>) /\ InOrder(<<"conf">>) /\ InOrder(<<"load">>)
  BY DEF InOrder, Commands, Early
<1>2. InOrder(<<"load", "stat", "mconf", "compare">>)
  BY DEF InOrder, Commands, Early
<1>3. InOrder(<<"conf", "sed">>)
  BY DEF InOrder, Commands, Early
<1>4. load_specific_config = <<"cp", "copied", "rm", "echo", "defconfig", "conf", "sed">>
  BY DEF load_specific_config
<1>5. InOrder(<<"cp", "copied", "rm", "echo", "defconfig", "conf", "sed">>)
  BY DEF InOrder, Commands, Early
<1>6. /\ Len(<<"conf", "sed">>) = 2
      /\ Len(<<"cp", "copied", "rm", "echo", "defconfig", "conf", "sed">>) = 7
  OBVIOUS
<1>7. gen_config_header[Len(gen_config_header)] = "sed" /\ Head(gen_config_header) = "conf" /\ gen_config_header # <<>>
  BY <1>0, <1>6
<1>8. /\ load_specific_config[Len(load_specific_config)] = "sed" /\ Head(load_specific_config) = "cp"
      /\ load_specific_config # <<>>
  BY <1>4, <1>6
<1> QED BY <1>0, <1>1, <1>2, <1>3, <1>4, <1>5, <1>7, <1>8

\* Taking the first command off, and putting what load and compare decide on in front.
LEMMA CommandInOrder ==
  ASSUME NEW name, NEW then, Command(name, then), InOrder(todo),
         \/ then = <<>>
         \/ then \in {gen_config_header, load_specific_config} /\ name \in {"load", "compare"}
  PROVE  /\ InOrder(todo')
         /\ then # <<>> => todo' # <<>> /\ Head(todo') = Head(then)
         /\ then = <<>> =>
              /\ todo' = <<>> => name \in {"load", "compare", "conf", "sed"}
              /\ todo' # <<>> =>
                   /\ name = "defconfig" => Head(todo') = "conf"
                   /\ name = "mconf" => Head(todo') = "compare"
                   /\ Head(todo') = "sed" => name = "conf"
                   /\ Head(todo') \in Early => name \in {"cp", "copied", "rm", "echo"}
<1> DEFINE t == Tail(todo)
<1>1. todo # <<>> /\ Head(todo) = name /\ todo' = then \o t
  BY DEF Command
<1>2. /\ InOrder(t)
      /\ t = <<>> => name \in {"load", "compare", "conf", "sed"}
      /\ t # <<>> =>
           /\ name = "defconfig" => Head(t) = "conf"
           /\ name = "mconf" => Head(t) = "compare"
           /\ Head(t) = "sed" => name = "conf"
           /\ Head(t) \in Early => name \in {"cp", "copied", "rm", "echo"}
  BY <1>1, FirstCommand
<1>3. CASE then = <<>>
  <2>1. t \in Seq(Commands)
    BY <1>2 DEF InOrder
  <2>2. todo' = t
    BY <2>1, <1>1, <1>3
  <2> QED BY <2>2, <1>2, <1>3
<1>4. CASE then \in {gen_config_header, load_specific_config} /\ name \in {"load", "compare"}
  <2>1. t # <<>> => Head(t) \notin Early \cup {"sed"}
    BY <1>2, <1>4
  <2>2. InOrder(then) /\ then # <<>> /\ then[Len(then)] = "sed"
    BY <1>4, RecipesInOrder
  <2>3. InOrder(then \o t) /\ then \o t # <<>> /\ Head(then \o t) = Head(then)
    BY <2>1, <2>2, <1>2, Joined
  <2> QED BY <2>2, <2>3, <1>1
<1> QED BY <1>3, <1>4

LEMMA HeaderInit == Init => HeaderInv
BY ConstantsAssumption, RecipesInOrder
DEF Init, HeaderInv, RecipeInv, TimeInv, Told, Current, Settled, Ahead

\* Everything but the commands, .config and config.h: nothing the invariant mentions.
LEMMA HeaderStay ==
  ASSUME HeaderInv, UNCHANGED <<config, header, todo, status, pc, mode, new, now>>
  PROVE  HeaderInv'
BY DEF HeaderInv, RecipeInv, TimeInv, Told, Current, Settled, Ahead, NextSecond, is_same

LEMMA HeaderTarget == HeaderInv /\ Target => HeaderInv'
<1> SUFFICES ASSUME HeaderInv, NEW commands, NEW file, Start(commands, file),
                    commands \in {load_specific_config, <<"conf">>, <<"load">>,
                                  <<"load", "stat", "mconf", "compare">>}
             PROVE  HeaderInv'
  BY DEF Target, menuconfig, loadconfig, defconfig, AnyConfig, SyncAuto
<1>1. /\ todo' = commands /\ status' = "busy" /\ pc = "none" /\ NextSecond
      /\ UNCHANGED <<config, header, pc, mode, new, now>>
  BY DEF Start, Rest, files, process
<1>2. InOrder(commands) /\ commands # <<>> /\ Head(commands) # "sed"
  <2>1. CASE commands = load_specific_config
    BY <2>1, RecipesInOrder
  <2>2. CASE commands = <<"conf">> \/ commands = <<"load">>
    BY <2>2, RecipesInOrder
  <2>3. CASE commands = <<"load", "stat", "mconf", "compare">>
    BY <2>3, RecipesInOrder
  <2> QED BY <2>1, <2>2, <2>3
<1> QED BY <1>1, <1>2 DEF HeaderInv, RecipeInv, TimeInv, Told, Current, Settled, Ahead, NextSecond

LEMMA HeaderRecipe == HeaderInv /\ ObjectsInv /\ Recipe => HeaderInv'
<1> SUFFICES ASSUME HeaderInv, ObjectsInv, Recipe PROVE HeaderInv'
  OBVIOUS
<1> USE DEF HeaderInv
<1>t. /\ InOrder(todo) /\ header \in Headers \cup {Absent} /\ config \in Files \cup {Absent}
      /\ now \in Nat /\ src \in Configs
  BY DEF RecipeInv, ObjectsInv, StageInv
<1>1. CASE Load
  <2> DEFINE then == IF config = Absent \/ stamp # def THEN load_specific_config ELSE sync_config_header
  <2>1. Command("load", then) /\ UNCHANGED <<config, header, status, pc, mode, new, now>>
    BY <1>1 DEF Load, OnlyRecipe, files, process
  <2>2. /\ then \in {<<>>, gen_config_header, load_specific_config}
        /\ then = <<>> => Current
    BY <1>t, RecipesInOrder DEF sync_config_header, TimeInv, Told, Current, Files, Headers
  <2>3. /\ pc = "none" /\ status \in {"busy", "bad"} /\ NextSecond
    BY <2>1 DEF Command, TimeInv, Ahead, Early
  <2>4. /\ InOrder(todo') /\ (todo' = <<>> => Current)
        /\ todo' # <<>> => Head(todo') # "sed"
    BY <2>1, <2>2, <1>t, CommandInOrder, RecipesInOrder
  <2> QED BY <2>1, <2>3, <2>4
          DEF RecipeInv, TimeInv, Told, Current, Settled, Ahead, NextSecond, is_same
<1>2. CASE Compare
  <2> DEFINE then == IF config = Absent \/ config.time # mtime THEN gen_config_header ELSE sync_config_header
  <2>1. Command("compare", then) /\ UNCHANGED <<config, header, status, pc, mode, new, now>>
    BY <1>2 DEF Compare, OnlyRecipe, files, process
  <2>2. /\ then \in {<<>>, gen_config_header}
        /\ then = <<>> => Current
    BY <1>t, RecipesInOrder DEF sync_config_header, TimeInv, Told, Current, Files, Headers
  <2>3. pc = "none" /\ status \in {"busy", "bad"}
    BY <2>1 DEF Command
  <2>4. /\ InOrder(todo') /\ (todo' = <<>> => Current)
        /\ todo' # <<>> => Head(todo') \notin Early \cup {"sed"}
    <3>1. CASE then = <<>>
      BY <3>1, <2>1, <2>2, <1>t, CommandInOrder
    <3>2. CASE then = gen_config_header
      BY <3>2, <2>1, <1>t, CommandInOrder, RecipesInOrder DEF Early
    <3> QED BY <3>1, <3>2, <2>2
  <2> QED BY <2>1, <2>3, <2>4
          DEF RecipeInv, TimeInv, Told, Current, Settled, Ahead, NextSecond, is_same
<1>3. CASE Stat \/ Unsaved
  <2>1. /\ pc = "none" /\ status \in {"busy", "bad"}
        /\ InOrder(todo') /\ todo' # <<>> /\ Head(todo') \notin Early \cup {"sed"}
        /\ UNCHANGED <<config, header, status, pc, mode, new, now>>
    <3>1. Command("stat", <<>>) \/ Command("mconf", <<>>)
      BY <1>3 DEF Stat, Unsaved
    <3>2. InOrder(todo') /\ todo' # <<>> /\ Head(todo') \notin Early \cup {"sed"}
      BY <3>1, <1>t, CommandInOrder
    <3> QED BY <1>3, <3>1, <3>2 DEF Stat, Unsaved, OnlyRecipe, Command, files, process
  <2> QED BY <2>1 DEF RecipeInv, TimeInv, Told, Current, Settled, Ahead, NextSecond, is_same
<1>4. CASE Cp
  <2>1. PICK name \in {"cp", "copied"} : Command(name, <<>>)
    BY <1>4 DEF Cp
  <2>2. config' \in Files /\ config'.time = now
    <3>1. PICK c \in Configs : config' = File(c, TRUE)
      BY <1>4, <1>t, ConstantsAssumption DEF Cp
    <3> QED BY <3>1, <1>t, FileType DEF File
  <2>3. pc = "none" /\ status \in {"busy", "bad"} /\ NextSecond
    BY <2>1 DEF Command, TimeInv, Ahead, Early
  <2>4. InOrder(todo') /\ todo' # <<>> /\ Head(todo') # "sed"
    BY <2>1, <1>t, CommandInOrder
  <2>5. UNCHANGED <<header, status, pc, mode, new, now>>
    BY <1>4 DEF Cp, process
  <2> QED BY <2>2, <2>3, <2>4, <2>5
          DEF RecipeInv, TimeInv, Told, Current, Settled, Ahead, NextSecond, is_same
<1>5. CASE process_config_hash
  <2>1. PICK name \in {"rm", "echo"} : Command(name, <<>>)
    BY <1>5 DEF process_config_hash
  <2>2. pc = "none" /\ status \in {"busy", "bad"} /\ NextSecond
    BY <2>1 DEF Command, TimeInv, Ahead, Early
  <2>3. InOrder(todo') /\ todo' # <<>> /\ Head(todo') # "sed"
    BY <2>1, <1>t, CommandInOrder
  <2>4. UNCHANGED <<config, header, status, pc, mode, new, now>>
    BY <1>5 DEF process_config_hash, OnlyRecipe, files, process
  <2> QED BY <2>2, <2>3, <2>4
          DEF RecipeInv, TimeInv, Told, Current, Settled, Ahead, NextSecond, is_same
<1>6. CASE Sed
  <2>1. Command("sed", <<>>) /\ header' = [header EXCEPT !.time = now]
        /\ UNCHANGED <<config, status, pc, mode, new, now>>
    BY <1>6 DEF Sed, process
  <2>2. pc = "none" /\ status \in {"busy", "bad"} /\ Settled
    BY <2>1 DEF Command, TimeInv, Ahead
  <2>3. header' \in Headers /\ header'.conf = header.conf /\ header' # Absent
    BY <2>1, <2>2, <1>t, ConstantsAssumption DEF Settled, Current, Headers
  <2>4. InOrder(todo') /\ (todo' # <<>> => Head(todo') \notin Early \cup {"sed"})
    BY <2>1, <1>t, CommandInOrder
  <2> QED BY <2>1, <2>2, <2>3, <2>4
          DEF RecipeInv, TimeInv, Told, Current, Settled, Ahead, NextSecond, is_same
<1>7. CASE RunProgram
  <2>1. PICK name \in {"defconfig", "conf", "mconf"}, program \in {"defconfig", "sync", "mconf"},
             results \in SUBSET Configs :
          /\ Run(name, program, results)
          /\ \/ name = "defconfig" /\ NextSecond
             \/ name = "conf" /\ program = "sync" /\ results = Answers
             \/ name = "mconf" /\ NextSecond
    <3>1. CASE Run("defconfig", "defconfig", {src})
      <4>1. NextSecond
        BY <3>1 DEF Run, Command, TimeInv, Ahead, Early
      <4> QED BY <3>1, <4>1, <1>t
    <3>2. CASE Run("conf", "sync", Answers)
      BY <3>2 DEF Answers
    <3>3. CASE NextSecond /\ Run("mconf", "mconf", Configs)
      BY <3>3
    <3> QED BY <1>7, <3>1, <3>2, <3>3 DEF RunProgram
  <2>2. /\ Command(name, <<>>) /\ mode' = program /\ new' \in results /\ pc' = "write"
        /\ UNCHANGED <<config, header, status, now>>
    BY <2>1 DEF Run, files
  <2>3. pc = "none" /\ status \in {"busy", "bad"}
    BY <2>2 DEF Command
  <2>4. NextSecond \/ is_same'
    <3>1. CASE Settled /\ new' \in Answers
      <4>1. config \in Files /\ config # Absent /\ ~config.raw
        BY <3>1, <1>t DEF Settled, Current
      <4>2. config.conf \in Configs /\ new' \in Configs /\ \A s \in Symbols : new'[s] = config.conf[s]
        BY <3>1, <4>1 DEF Answers, Files
      <4>3. new' = config.conf
        BY <4>2 DEF Configs
      <4> QED BY <4>1, <4>3, <2>2 DEF is_same
    <3> QED BY <3>1, <2>1, <2>2, <2>3 DEF TimeInv
  <2>5. /\ InOrder(todo') /\ (todo' # <<>> => Head(todo') \notin Early)
        /\ program # "sync" => todo' # <<>> /\ Head(todo') \in {"conf", "compare"}
    <3>1. program # "sync" => name \in {"defconfig", "mconf"}
      BY <2>1
    <3> QED BY <3>1, <2>2, <1>t, CommandInOrder
  <2> QED BY <2>2, <2>3, <2>4, <2>5
          DEF RecipeInv, TimeInv, Told, Current, Settled, Ahead, NextSecond
<1>8. CASE End
  BY <1>8 DEF End, files, process, RecipeInv, TimeInv, Told, Current, Settled, Ahead, NextSecond, is_same
<1> QED BY <1>1, <1>2, <1>3, <1>4, <1>5, <1>6, <1>7, <1>8 DEF Recipe

LEMMA HeaderConf == HeaderInv /\ ObjectsInv /\ conf => HeaderInv'
<1> SUFFICES ASSUME HeaderInv, ObjectsInv, conf PROVE HeaderInv'
  OBVIOUS
<1> USE DEF HeaderInv, At, GoTo, Else
<1>t. /\ header \in Headers \cup {Absent} /\ config \in Files \cup {Absent}
      /\ now \in Nat /\ new \in Configs
      /\ pc \in {"written", "touch", "header"} => config # Absent /\ config.conf = new
  BY DEF RecipeInv, ObjectsInv, StageInv
<1>r. /\ pc # "none" /\ status \in {"busy", "bad"} /\ UNCHANGED <<todo, status, now>>
  BY DEF conf, NoChange, MoveAside, MoveNew, AutoPresent, StartAuto, conf_touch_dep, WriteHeader,
         WriteAuto, recipe, RecipeInv
<1> USE DEF RecipeInv, TimeInv, Told, Current, Settled, Ahead, NextSecond, is_same
<1>1. CASE NoChange
  BY <1>1, <1>r DEF NoChange, files
<1>2. CASE MoveAside
  BY <1>2, <1>r DEF MoveAside
<1>3. CASE MoveNew
  <2>1. config' \in Files /\ config'.time = now /\ config'.raw = FALSE
    BY <1>3, <1>t, FileType DEF MoveNew, File
  <2> QED BY <1>3, <1>r, <1>t, <2>1 DEF MoveNew, Early
<1>4. CASE AutoPresent
  BY <1>4, <1>r DEF AutoPresent, files, Early
<1>5. CASE StartAuto
  BY <1>5, <1>r DEF StartAuto, files
<1>6. CASE WriteHeader
  <2>1. header' \in Headers /\ header' # Absent /\ header'.conf = new
    BY <1>6, <1>t, ConstantsAssumption DEF WriteHeader, Headers
  <2> QED BY <1>6, <1>r, <1>t, <2>1 DEF WriteHeader
<1>7. CASE WriteAuto
  BY <1>7, <1>r DEF WriteAuto
<1>8. ASSUME NEW s \in Symbols, conf_touch_dep(s) PROVE HeaderInv'
  BY <1>8, <1>r DEF conf_touch_dep
<1> QED BY <1>1, <1>2, <1>3, <1>4, <1>5, <1>6, <1>7, <1>8 DEF conf

LEMMA HeaderOthers == HeaderInv /\ ObjectsInv /\ Others => HeaderInv'
<1> SUFFICES ASSUME HeaderInv, ObjectsInv, Others PROVE HeaderInv'
  OBVIOUS
<1> USE DEF HeaderInv
<1>t. header \in Headers \cup {Absent} /\ now \in Nat /\ InOrder(todo)
  BY DEF RecipeInv, ObjectsInv, StageInv
<1>1. CASE Fail
  <2>1. /\ pc # "none" /\ pc' = "none" /\ status \in {"busy", "bad"} /\ status' = "bad"
        /\ UNCHANGED <<config, header, now>>
    BY <1>1 DEF Fail, files, RecipeInv
  <2>2. InOrder(todo') /\ (todo' # <<>> => Head(todo') \notin Early \cup {"sed"})
    <3>1. CASE todo # <<>> /\ Head(todo) = "sed"
      BY <3>1, <1>1, <1>t, FirstCommand DEF Fail
    <3>2. CASE ~(todo # <<>> /\ Head(todo) = "sed")
      BY <3>2, <1>1, <1>t DEF Fail, RecipeInv, Ahead
    <3> QED BY <3>1, <3>2
  <2> QED BY <2>1, <2>2 DEF RecipeInv, TimeInv, Told, Current, Settled, Ahead, NextSecond
<1>2. CASE Kill
  BY <1>2, RecipesInOrder
  DEF Kill, files, RecipeInv, TimeInv, Told, Current, Settled, Ahead, NextSecond
<1>3. CASE Tick
  BY <1>3, <1>t
  DEF Tick, files, recipe, process, RecipeInv, TimeInv, Told, Current, Settled, Ahead, NextSecond,
      is_same, Headers
<1>4. CASE Clean
  BY <1>4 DEF Clean, Rest, process, RecipeInv, TimeInv, Told, Current, Settled, Ahead, NextSecond
<1>5. CASE Compile
  BY <1>5, HeaderStay DEF Compile, recipe, process
<1>6. ASSUME NEW c \in Configs, EditConfig(c) PROVE HeaderInv'
  <2>1. config' \in Files /\ config'.time = now
    BY <1>6, <1>t, FileType DEF EditConfig, File
  <2> QED BY <1>6, <2>1
          DEF EditConfig, Rest, process, RecipeInv, TimeInv, Told, Current, Settled, Ahead, NextSecond
<1>7. ASSUME NEW d \in Defs, EditDef(d) PROVE HeaderInv'
  BY <1>7, HeaderStay DEF EditDef, files, recipe, process
<1> QED BY <1>1, <1>2, <1>3, <1>4, <1>5, <1>6, <1>7 DEF Others

\* When a target ended well, config.h belongs to .config, for all configurations and
\* wherever earlier runs were killed or failed.
THEOREM HeaderIsCurrent == Spec => []HeaderCurrent
<1>1. HeaderInv /\ ObjectsInv /\ [Next]_vars => HeaderInv'
  <2>1. UNCHANGED vars => UNCHANGED <<config, header, todo, status, pc, mode, new, now>>
    BY DEF vars, files, recipe, process
  <2> QED BY <2>1, HeaderStay, HeaderTarget, HeaderRecipe, HeaderConf, HeaderOthers DEF Next
<1>2. HeaderInv => HeaderCurrent
  BY DEF HeaderInv, TimeInv, Current, HeaderCurrent
<1> QED BY HeaderInit, ObjectsInit, ObjectsStep, <1>1, <1>2, PTL DEF Spec
=============================================================================
