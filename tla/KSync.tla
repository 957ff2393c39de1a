-------------------------------- MODULE KSync --------------------------------
(***************************************************************************)
(* The files of a configuration: the targets of scripts/core/inc.conf.mk   *)
(* call conf and mconf, which replace .config (conf_write of confdata.c),  *)
(* touch one file per changed symbol, and write config.h and auto.conf     *)
(* (conf_write_autoconf).  A run may be killed between any two steps, a    *)
(* program may fail, users edit and compile in between.                    *)
(*                                                                         *)
(* A configuration is a function from the symbols to values, No for those  *)
(* that auto.conf does not mention (n, or not written).  What conf makes   *)
(* of the text of a file is in KSession; here the text only counts where   *)
(* it is not the one conf writes (raw).                                    *)
(***************************************************************************)
EXTENDS Naturals, Sequences

CONSTANTS
  Symbols, Values, No,
  Defaults,    \* the configuration of an empty file
  Defs,        \* the contents DEF_CONFIG can have
  Absent,      \* a file that does not exist
  MaxTime,     \* bound: the clock, in seconds
  MaxRuns,     \* bound: targets that are made
  MaxBreaks    \* bound: kills and failures of a program

Configs == [Symbols -> Values \cup {No}]
Files   == [conf : Configs, raw : BOOLEAN, time : Nat]
Headers == [conf : Configs, time : Nat]

ASSUME ConstantsAssumption ==
  /\ Defaults \in Configs /\ Defs \subseteq Configs
  /\ Absent \notin Configs \cup Files \cup Headers
  /\ MaxTime \in Nat /\ MaxRuns \in Nat /\ MaxBreaks \in Nat

VARIABLES
  config,  \* .config: [conf, raw, time] or Absent
  old,     \* .config.old: a configuration or Absent
  header,  \* config.h: [conf, time] or Absent
  auto,    \* auto.conf: a configuration or Absent
  fresh,   \* auto.conf is later than .config
  touched, \* symbols whose file is later than the objects that depend on it
  obj,     \* the value of each symbol that the objects were compiled with
  stamp,   \* .config-md5-*: the contents of DEF_CONFIG it names, or Absent
  def,     \* the contents of DEF_CONFIG
  saved,   \* the configuration conf_write or the user stored last and no load gave up
  todo,    \* the commands of the recipe that are left
  src,     \* the file the recipe loads
  mtime,   \* the time of .config that menuconfig remembers
  pc,      \* where the running conf or mconf is
  mode,    \* which of them runs
  new,     \* the configuration in its memory
  left,    \* the symbols it still has to touch
  status,  \* "idle", "busy", "bad": busy and a program failed, "ok": ended well
  now, runs, breaks

files   == <<config, old, header, auto, fresh, touched>>
user    == <<obj, def, runs>>
recipe  == <<todo, src, mtime, status>>
process == <<pc, mode, new, left>>
vars    == <<files, user, recipe, process, stamp, saved, now, breaks>>

AllNo == [s \in Symbols |-> No]
File(c, isRaw) == [conf |-> c, raw |-> isRaw, time |-> now]

Init ==
  /\ config = Absent /\ old = Absent /\ header = Absent /\ auto = Absent
  /\ fresh = FALSE /\ touched = {} /\ obj = AllNo
  /\ stamp = Absent /\ def \in Defs /\ saved = Absent
  /\ todo = <<>> /\ src = def /\ mtime = 0 /\ status = "idle"
  /\ pc = "none" /\ mode = "sync" /\ new = Defaults /\ left = {}
  /\ now = 1 /\ runs = 0 /\ breaks = 0
-----------------------------------------------------------------------------
(* The targets: a recipe is a sequence of commands. *)

Rest == todo = <<>> /\ pc = "none" /\ status \in {"idle", "ok"}
gen_config_header == <<"conf", "sed">>
load_specific_config ==  \* its end is gen_config_header
  <<"cp", "copied", "rm", "echo", "defconfig", "conf", "sed">>

\* stat -c %Y has whole seconds: runs, edits and what users do in mconf are a second apart.
NextSecond == header # Absent => now > header.time

Start(commands, file) ==
  /\ Rest /\ NextSecond /\ runs < MaxRuns
  /\ todo' = commands /\ src' = file
  /\ status' = "busy" /\ runs' = runs + 1
  /\ UNCHANGED <<files, obj, def, mtime, process, stamp, saved, now, breaks>>

menuconfig == Start(<<"load", "stat", "mconf", "compare">>, def)
loadconfig == Start(<<"load">>, def)
defconfig  == Start(load_specific_config, def)
AnyConfig  == \E c \in Configs \ {def} : Start(load_specific_config, c)

Command(name, then) ==
  /\ pc = "none" /\ status \in {"busy", "bad"}
  /\ todo # <<>> /\ Head(todo) = name
  /\ todo' = then \o Tail(todo)
OnlyRecipe == UNCHANGED <<files, user, src, status, process, saved, now, breaks>>

\* Mutant of sync_config_header: the times are not compared.
SyncMissing == IF config # Absent /\ header = Absent THEN gen_config_header ELSE <<>>

sync_config_header ==
  IF config # Absent /\ (header = Absent \/ config.time > header.time)
  THEN gen_config_header ELSE <<>>

Load ==
  /\ Command("load", IF config = Absent \/ stamp # def THEN load_specific_config
                                                       ELSE sync_config_header)
  /\ OnlyRecipe /\ UNCHANGED <<mtime, stamp>>

\* make expands the recipe and the shell reads the time before mconf starts.
Stat ==
  /\ Command("stat", <<>>)
  /\ mtime' = IF config # Absent /\ header # Absent THEN config.time ELSE 0
  /\ OnlyRecipe /\ UNCHANGED stamp

Compare ==
  /\ Command("compare", IF config = Absent \/ config.time # mtime THEN gen_config_header
                                                                 ELSE sync_config_header)
  /\ OnlyRecipe /\ UNCHANGED <<mtime, stamp>>

\* cp -f opens .config and empties it, then writes it.
Cp ==
  /\ \/ Command("cp", <<>>) /\ config' = File(Defaults, TRUE)
     \/ Command("copied", <<>>) /\ config' = File(src, TRUE)
  /\ fresh' = FALSE /\ saved' = Absent
  /\ UNCHANGED <<old, header, auto, touched, user, src, mtime, status, process, stamp, now, breaks>>

process_config_hash ==
  /\ \/ Command("rm", <<>>) /\ stamp' = Absent
     \/ Command("echo", <<>>) /\ stamp' = def
  /\ OnlyRecipe /\ UNCHANGED mtime

\* The include macro is put around config.h.
Sed ==
  /\ Command("sed", <<>>)
  /\ header' = [header EXCEPT !.time = now]
  /\ UNCHANGED <<config, old, auto, fresh, touched, user, src, mtime, status, process, stamp, saved, now, breaks>>

End ==
  /\ pc = "none" /\ todo = <<>> /\ status \in {"busy", "bad"}
  /\ status' = IF status = "busy" THEN "ok" ELSE "idle"
  /\ UNCHANGED <<files, user, todo, src, mtime, process, stamp, saved, now, breaks>>
-----------------------------------------------------------------------------
(* conf and mconf *)

\* conf_read and the questions of syncconfig: symbols without a value are asked.
Answers ==
  IF config = Absent THEN Configs
  ELSE {c \in Configs : \A s \in Symbols :
          ~config.raw \/ config.conf[s] # Defaults[s] => c[s] = config.conf[s]}

Run(name, program, results) ==
  /\ Command(name, <<>>)
  /\ mode' = program /\ new' \in results /\ pc' = "write"
  /\ UNCHANGED <<files, user, src, mtime, status, left, stamp, saved, now, breaks>>

RunProgram ==
  \/ Run("defconfig", "defconfig", {src})
  \/ Run("conf", "sync", Answers)
  \/ NextSecond /\ Run("mconf", "mconf", Configs)

\* The user leaves mconf and does not save.
Unsaved ==
  /\ Command("mconf", <<>>)
  /\ OnlyRecipe /\ UNCHANGED <<mtime, stamp>>

At(stage) == pc = stage
GoTo(stage) == pc' = stage /\ UNCHANGED <<mode, new>>
Else == UNCHANGED <<user, recipe, stamp, now, breaks>>

\* conf_write: nothing to do if the file it wrote to .tmp is the same ...
is_same == config # Absent /\ ~config.raw /\ config.conf = new
NoChange ==
  /\ At("write") /\ is_same
  /\ GoTo("written")
  /\ UNCHANGED <<files, left, saved>> /\ Else
\* Mutant of MoveAside: the old file is removed.
RemoveFirst ==
  /\ At("write") /\ ~is_same
  /\ config' = Absent
  /\ GoTo("aside")
  /\ UNCHANGED <<old, header, auto, fresh, touched, left, saved>> /\ Else
\* ... else .config is moved to .config.old ...
MoveAside ==
  /\ At("write") /\ ~is_same
  /\ old' = IF config = Absent THEN old ELSE config.conf
  /\ config' = Absent
  /\ GoTo("aside")
  /\ UNCHANGED <<header, auto, fresh, touched, left, saved>> /\ Else
\* ... and the new file to .config.
MoveNew ==
  /\ At("aside")
  /\ config' = File(new, FALSE) /\ saved' = new /\ fresh' = FALSE
  /\ GoTo("written")
  /\ UNCHANGED <<old, header, auto, touched, left>> /\ Else

\* conf_write_autoconf(overwrite)
AutoPresent ==
  /\ At("written") /\ mode # "sync" /\ auto # Absent
  /\ GoTo("none")
  /\ UNCHANGED <<files, left, saved>> /\ Else

AutoConf == IF auto = Absent THEN AllNo ELSE auto
\* Mutant of Changed: a symbol that auto.conf will not mention any more is left out.
ChangedAndWritten == {s \in Symbols : new[s] # No /\ new[s] # AutoConf[s]}
\* What conf_touch_deps finds changed.
Changed == {s \in Symbols : new[s] # AutoConf[s]}

\* auto.conf.cmd is written and the old auto.conf is read.
StartAuto ==
  /\ At("written") /\ (mode = "sync" \/ auto = Absent)
  /\ left' = Changed
  /\ GoTo("touch")
  /\ UNCHANGED <<files, saved>> /\ Else

conf_touch_dep(s) ==
  /\ At("touch") /\ s \in left
  /\ touched' = touched \cup {s} /\ left' = left \ {s}
  /\ GoTo("touch")
  /\ UNCHANGED <<config, old, header, auto, fresh, saved>> /\ Else

WriteHeader ==
  /\ At("touch") /\ left = {}
  /\ header' = [conf |-> new, time |-> now]
  /\ GoTo("header")
  /\ UNCHANGED <<config, old, auto, fresh, touched, left, saved>> /\ Else

WriteAuto ==
  /\ At("header")
  /\ auto' = new /\ fresh' = TRUE
  /\ GoTo("none")
  /\ UNCHANGED <<config, old, header, touched, left, saved>> /\ Else

conf ==
  \/ NoChange \/ MoveAside \/ MoveNew
  \/ AutoPresent \/ StartAuto \/ WriteHeader \/ WriteAuto
  \/ \E s \in Symbols : conf_touch_dep(s)
-----------------------------------------------------------------------------
(* What goes wrong, and what users do in between. *)

\* A program gives up; `&&` keeps sed from running, `;` lets the recipe go on.
Fail ==
  /\ pc # "none" /\ breaks < MaxBreaks
  /\ pc' = "none" /\ left' = {} /\ status' = "bad" /\ breaks' = breaks + 1
  /\ todo' = IF todo # <<>> /\ Head(todo) = "sed" THEN Tail(todo) ELSE todo
  /\ UNCHANGED <<files, user, src, mtime, mode, new, stamp, saved, now>>

Kill ==
  /\ status \in {"busy", "bad"} /\ breaks < MaxBreaks
  /\ pc' = "none" /\ todo' = <<>> /\ left' = {} /\ status' = "idle"
  /\ breaks' = breaks + 1
  /\ UNCHANGED <<files, user, src, mtime, mode, new, stamp, saved, now>>

Tick ==
  /\ now < MaxTime
  /\ now' = now + 1
  /\ UNCHANGED <<files, user, recipe, process, stamp, saved, breaks>>

\* An editor on .config.
EditConfig(c) ==
  /\ Rest /\ NextSecond /\ config # Absent /\ runs < MaxRuns
  /\ config' = File(c, TRUE) /\ saved' = c /\ fresh' = FALSE
  /\ status' = "idle" /\ runs' = runs + 1
  /\ UNCHANGED <<old, header, auto, touched, obj, def, todo, src, mtime, process, stamp, now, breaks>>

\* An update of the package brings another DEF_CONFIG.
EditDef(d) ==
  /\ Rest /\ d # def
  /\ def' = d
  /\ UNCHANGED <<files, obj, runs, recipe, process, stamp, saved, now, breaks>>

\* do_clean removes OUT_PATH with all that is in it.
Clean ==
  /\ Rest
  /\ config' = Absent /\ old' = Absent /\ header' = Absent /\ auto' = Absent
  /\ fresh' = FALSE /\ touched' = {} /\ obj' = AllNo /\ stamp' = Absent /\ saved' = Absent
  /\ status' = "idle"
  /\ UNCHANGED <<def, runs, todo, src, mtime, process, now, breaks>>

\* A Makefile that includes auto.conf.cmd: auto.conf is made anew when .config is later ...
SyncAuto ==
  /\ config # Absent /\ ~fresh
  /\ Start(<<"conf">>, def)
\* ... and then the objects that depend on touched symbols are compiled.
Compile ==
  /\ Rest /\ fresh
  /\ obj' = [s \in Symbols |-> IF s \in touched THEN header.conf[s] ELSE obj[s]]
  /\ touched' = {}
  /\ UNCHANGED <<config, old, header, auto, fresh, def, runs, recipe, process, stamp, saved, now, breaks>>

Target == menuconfig \/ loadconfig \/ defconfig \/ AnyConfig \/ SyncAuto
Recipe == Load \/ Stat \/ Compare \/ Cp \/ process_config_hash \/ Sed \/ RunProgram \/ Unsaved \/ End
Others ==
  \/ Fail \/ Kill \/ Tick \/ Clean \/ Compile
  \/ \E c \in Configs : EditConfig(c)
  \/ \E d \in Defs : EditDef(d)

Next == Target \/ Recipe \/ conf \/ Others
Spec == Init /\ [][Next]_vars
-----------------------------------------------------------------------------
(* Properties. *)

\* An object whose symbols' files were not touched since it was compiled was compiled
\* with the values of auto.conf, wherever a run breaks off: the files are touched before
\* auto.conf is replaced, which "marks the successful completion of the previous steps".
ObjectsFollow == \A s \in Symbols \ touched : obj[s] = AutoConf[s]

\* The configuration that was saved last is in .config, or, when a run broke off between
\* the two renames of conf_write, in .config.old, until a target loads another one.
ConfigKept ==
  saved # Absent =>
    \/ config # Absent /\ config.conf = saved
    \/ config = Absent /\ old = saved

\* When a target ended well, config.h belongs to .config, also after earlier runs that
\* broke off anywhere: the times tell that config.h must be made anew.
HeaderCurrent ==
  status = "ok" => config # Absent /\ header # Absent /\ header.conf = config.conf
=============================================================================
