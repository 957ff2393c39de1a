------------------------------- MODULE KSession -------------------------------
(***************************************************************************)
(* The programs that keep a .config: menuconfig (mconf.c) and conf with    *)
(* its modes (conf.c), one after the other on the same files.  A process   *)
(* starts with fresh symbols, reads the file, lets the user set symbols or *)
(* sets them by a rule, and writes the file.  todo is what a process has   *)
(* yet to do before it ends or, in menuconfig, waits for a key: the calls  *)
(* of main in their order and before them what is left of those begun.     *)
(*   <<"read", lines>>    conf_read; <<"load", lines>> conf_load of mconf.c*)
(*   <<"write">>          conf_write, <<"mini">> conf_write_defconfig      *)
(*   <<"draw">>           the beginning of the loop of conf in mconf.c     *)
(*   <<"set", mode>>      conf_set_all_new_symbols, <<"random">> its rounds*)
(*   <<"rewrite", a, b>>  conf_rewrite_tristates                           *)
(*   <<"conf", e>>        conf(e) of conf.c                                *)
(*   <<"check", e, m>>    check_conf(e), m is the menu around e            *)
(*   <<"member", e, new>> the loop of conf_choice                          *)
(*   <<"kids", e>>        the end of conf after a choice                   *)
(*   <<"round">>          the loop of main, <<"again">> its condition      *)
(***************************************************************************)
EXTENDS KConf

CONSTANTS
  Programs,     \* records [root, choices, optional, modules, order] of Kconfig files
  Strings,      \* what the user types for int, hex and string symbols
  Draws,        \* functions that give each symbol a random tristate
  MaxCommands,  \* bound: processes that are started
  MaxKeys       \* bound: values that the user sets in menuconfig

VARIABLES
  prog,     \* the index of the Kconfig files that are used
  k,        \* what conf_parse made of them
  file,     \* .config
  mini,     \* what savedefconfig wrote
  job,      \* "none", "menu", "ask" (oldaskconfig), "old" (oldconfig) or "conf" (other modes)
  st,       \* the symbols of the process
  trail,    \* the menus menuconfig is in, the current one last
  screen,   \* what of the current one is drawn: <<tag, entry>>
  todo,     \* what the process has yet to do
  rootEntry,\* the menu that conf asks about
  conf_cnt, \* did check_conf find a new symbol?
  answer,   \* the last value the user gave and what was done with it: <<>> or <<symbol, value>>
  commands, keys

vars == <<prog, k, file, mini, job, st, trail, screen, todo, rootEntry, conf_cnt, answer, commands, keys>>

order == Programs[prog].order
PromptType(e) == IF HasPrompt(e) THEN Last(Prompts(e)).type ELSE "none"

\* show_all_options off: what of a menu is on the screen, as <<tag, entry>>; "t" a tristate
\* or choice, "s" a string, "m" a menu, "C" a choice that is y and can be opened.
RECURSIVE build_conf(_, _, _)

RECURSIVE BuildKids(_, _, _)
BuildKids(r, menu, kids) ==
  LET Others(b) == BuildKids([b EXCEPT !.items = @ \cup r.items], menu, Tail(kids))
  IN IF kids = <<>> THEN r ELSE Others(build_conf(r.st, menu, Head(kids)))

\* The chosen member of a choice, if it is visible; r has the symbols and what is found.
RECURSIVE ChosenMember(_, _, _)
ChosenMember(r, e, kids) ==
  LET Seen(v) == [st |-> v.st, def |-> IF v.v /\ kids[1].sym = v.st.curr[e.sym].str THEN <<kids[1]>> ELSE r.def]
  IN IF kids = <<>> THEN r ELSE ChosenMember(Seen(menu_is_visible(k, r.st, kids[1])), e, Tail(kids))

\* A choice that is y shows only the entries below its chosen member.
BuildChoice(members, u, menu, e) ==
  LET isYes == u.curr[e.sym].tri = yes
      none == ~sym_is_changeable(u, e.sym) /\ members.def = <<>>
      items == IF none THEN {} ELSE {<<IF isYes THEN "C" ELSE "t", e>>}
      shown == IF isYes THEN IF members.def # <<>> /\ members.def[1].kids # <<>> THEN members.def ELSE <<>>
                        ELSE e.kids
  IN BuildKids([st |-> members.st, items |-> items], menu, shown)

\* Other entries show the value of their symbol, and a menu can be entered; what is below
\* follows, but for that of a menu.
BuildEntry(u, menu, e) ==
  LET isMenu == PromptType(e) = "menu" /\ e # menu /\ (e.sym = "" \/ IsTri(e.sym))
      noValue == e = menu \/ e.sym = "" \/ (sym_is_choice_value(k, e.sym) /\ u.curr[e.sym].tri = yes)
      tags == (IF noValue THEN {} ELSE IF IsTri(e.sym) THEN {"t"} ELSE {"s"}) \cup (IF isMenu THEN {"m"} ELSE {})
  IN BuildKids([st |-> u, items |-> {<<tag, e>> : tag \in tags}], menu, IF isMenu THEN <<>> ELSE e.kids)

BuildVisible(v, menu, e) ==
  CASE ~v.v -> [st |-> v.st, items |-> {}]
    [] v.v /\ e.sym # "" /\ sym_is_choice(k, e.sym) ->
         BuildChoice(ChosenMember([st |-> v.st, def |-> <<>>], e, e.kids), v.st, menu, e)
    [] OTHER -> BuildEntry(v.st, menu, e)

build_conf(u, menu, e) == BuildVisible(menu_is_visible(k, u, e), menu, e)

Idle == job = "none"
-----------------------------------------------------------------------------
Init ==
  /\ prog \in DOMAIN Programs
  /\ k = conf_parse(Programs[prog].root, Programs[prog].choices, Programs[prog].optional,
                    Programs[prog].modules)
  /\ file = NoFile /\ mini = NoFile
  /\ job = "none" /\ st = Fresh
  /\ trail = <<>> /\ screen = {} /\ todo = <<>> /\ rootEntry = <<>> /\ conf_cnt = FALSE
  /\ answer = <<>>
  /\ commands = 0 /\ keys = 0

\* A process starts; calls is what its main does.
Begin(name, calls) ==
  /\ Idle /\ commands < MaxCommands
  /\ commands' = commands + 1
  /\ job' = name /\ todo' = calls
  /\ trail' = IF name = "menu" THEN <<k.tree>> ELSE <<>>
  /\ rootEntry' = IF name = "ask" THEN k.tree ELSE <<>>
  /\ UNCHANGED <<prog, k, file, mini, st, screen, conf_cnt, answer, keys>>

\* A process ends, and all that it had in its memory is gone.
End == job' = "none" /\ st' = Fresh /\ answer' = <<>> /\ rootEntry' = <<>> /\ conf_cnt' = FALSE

\* The next thing to do is name.
Calls(name) == todo # <<>> /\ todo[1][1] = name /\ UNCHANGED <<prog, k, commands, keys>>

Read ==
  /\ Calls("read") \/ Calls("load")
  /\ st' = [conf_read(k, st, todo[1][2], order) EXCEPT !.changed = @ \/ todo[1][1] = "load"]
  /\ todo' = Tail(todo)
  /\ UNCHANGED <<file, mini, job, trail, screen, rootEntry, conf_cnt, answer>>

\* The last thing main of conf.c does; menuconfig ends with it when it is left.
Write ==
  /\ Calls("write")
  /\ LET Written(w) == file' = w.lines /\ IF Len(todo) = 1 THEN End ELSE st' = w.st /\ UNCHANGED <<job, answer, rootEntry, conf_cnt>>
     IN Written(conf_write(k, st))
  /\ todo' = Tail(todo)
  /\ UNCHANGED <<mini, trail, screen>>
-----------------------------------------------------------------------------
(* menuconfig *)

\* main of mconf.c
StartMenuconfig ==
  Begin("menu", <<(<<"read", file>>), <<"draw">>>>)

\* The menu is drawn, which calculates what it shows.
Draw ==
  /\ Calls("draw")
  /\ LET Shown(d) == st' = d.st /\ screen' = d.items
     IN Shown(build_conf(st, Last(trail), Last(trail)))
  /\ todo' = Tail(todo)
  /\ UNCHANGED <<file, mini, job, trail, rootEntry, conf_cnt, answer>>

\* A key is awaited.
InMenu == job = "menu" /\ todo = <<>> /\ screen' = {} /\ UNCHANGED <<prog, k, file, mini, commands>>

\* A key that sets s to v, r is what became of it: what is refused is asked again.
Set(s, v, r) ==
  /\ r.ok /\ st' = r.st /\ answer' = <<s, v>>
  /\ keys < MaxKeys /\ keys' = keys + 1
  /\ todo' = <<(<<"draw">>)>>
  /\ UNCHANGED <<job, rootEntry, conf_cnt, trail>>

\* Keys y, m, n.
SetTristate ==
  /\ InMenu
  /\ \E item \in screen, v \in Tristate :
       item[1] \in {"t", "C"} /\ Set(item[2].sym, v, sym_set_tristate_value(k, st, item[2].sym, v))

\* The space key.
ToggleTristate ==
  /\ InMenu
  /\ \E item \in screen :
       LET s == item[2].sym
           Toggled(r) == Set(s, r.st.def[s].tri, r)
       IN item[1] \in {"t", "C"} /\ Toggled(sym_toggle_tristate_value(k, st, s))

\* conf_choice of mconf.c: one of the visible members.
ChooseMember ==
  /\ InMenu
  /\ \E item \in screen : \E i \in DOMAIN item[2].kids :
       LET m == item[2].kids[i].sym
           Taken(v) == v.v /\ Set(m, yes, sym_set_tristate_value(k, v.st, m, yes))
       IN item[1] = "C" /\ m # "" /\ Taken(menu_is_visible(k, st, item[2].kids[i]))

\* conf_string of mconf.c
TypeString ==
  /\ InMenu
  /\ \E item \in screen, str \in Strings :
       item[1] = "s" /\ Set(item[2].sym, WithPrefix(item[2].sym, str),
                            sym_set_string_value(k, st, item[2].sym, str))

\* Keys that set nothing and go to the menus of menus.
Go(menus) ==
  /\ trail' = menus /\ todo' = <<(<<"draw">>)>>
  /\ UNCHANGED <<job, rootEntry, conf_cnt, st, answer, keys>>
EnterMenu == InMenu /\ \E item \in screen : item[1] = "m" /\ Go(Append(trail, item[2]))
LeaveMenu == InMenu /\ Len(trail) > 1 /\ Go(Front(trail))

\* conf_load with the file last written: its values replace those of the user.
LoadFile ==
  /\ InMenu
  /\ file # NoFile /\ keys < MaxKeys /\ keys' = keys + 1
  /\ answer' = <<>> /\ todo' = <<(<<"load", file>>), <<"draw">>>>
  /\ UNCHANGED <<job, rootEntry, conf_cnt, st, trail>>

\* conf_load with the name of a file that does not exist: conf_read has already called the
\* configuration unchanged.
LoadMissing ==
  /\ InMenu
  /\ keys < MaxKeys /\ keys' = keys + 1
  /\ st' = sym_calc_value(k, [st EXCEPT !.changed = FALSE], k.modules)
  /\ todo' = <<(<<"draw">>)>>
  /\ UNCHANGED <<job, rootEntry, conf_cnt, trail, answer>>

SaveFile ==
  /\ InMenu
  /\ todo' = <<(<<"write">>), <<"draw">>>>
  /\ UNCHANGED <<job, rootEntry, conf_cnt, st, trail, answer, keys>>

\* The end of the main menu and handle_exit: only a changed configuration is written, if
\* the user wants it.
ExitMenuconfig ==
  /\ InMenu /\ Len(trail) = 1
  /\ \/ st.changed /\ todo' = <<(<<"write">>)>> /\ UNCHANGED <<job, rootEntry, conf_cnt, st, answer>>
     \/ todo' = <<>> /\ End
  /\ trail' = <<>>
  /\ UNCHANGED keys

Menuconfig ==
  \/ StartMenuconfig \/ Draw \/ SetTristate \/ ToggleTristate \/ ChooseMember \/ TypeString
  \/ EnterMenu \/ LeaveMenu \/ LoadFile \/ LoadMissing \/ SaveFile \/ ExitMenuconfig
-----------------------------------------------------------------------------
(* The modes of conf that ask nothing. *)

Modes == {"no", "mod", "yes", "default"}

\* What main does in them. allnoconfig, allmodconfig, allyesconfig, alldefconfig: without
\* KCONFIG_ALLCONFIG no file is read; olddefconfig; yes2modconfig, mod2yesconfig,
\* mod2noconfig; savedefconfig; defconfig with the file of savedefconfig; randconfig.
Mains ==
  {<<(<<"set", mode>>), <<"write">>>> : mode \in Modes}
  \cup {<<(<<"read", file>>), <<"write">>>>}
  \cup {<<(<<"read", file>>), <<"rewrite", p[1], p[2]>>, <<"write">>>> :
           p \in {<<yes, mod>>, <<mod, yes>>, <<mod, no>>}}
  \cup {<<(<<"read", file>>), <<"mini">>>>}
  \cup (IF mini = NoFile THEN {} ELSE {<<(<<"read", mini>>), <<"set", "default">>, <<"write">>>>})
  \cup {<<(<<"random">>), <<"write">>>>}

StartBatch == \E calls \in Mains : Begin("conf", calls)

\* A step of main that sets symbols.
Sets(u) ==
  /\ st' = u
  /\ todo' = Tail(todo)
  /\ UNCHANGED <<file, mini, job, trail, screen, rootEntry, conf_cnt, answer>>

SetAll == Calls("set") /\ Sets(conf_set_all_new_symbols(k, st, todo[1][2], <<>>, order).st)
Rewrite == Calls("rewrite") /\ Sets(conf_rewrite_tristates(k, st, todo[1][2], todo[1][3]))

\* One call of conf_set_all_new_symbols(def_random); the last one finds nothing to set.
RandomRound ==
  /\ Calls("random")
  /\ \E draw \in Draws :
       LET Round(r) == st' = r.st /\ todo' = (IF r.more THEN todo ELSE Tail(todo))
       IN Round(conf_set_all_new_symbols(k, st, "random", draw, order))
  /\ UNCHANGED <<file, mini, job, trail, screen, rootEntry, conf_cnt, answer>>

WriteDefconfig ==
  /\ Calls("mini")
  /\ mini' = conf_write_defconfig(k, st).lines
  /\ todo' = <<>> /\ End
  /\ UNCHANGED <<file, trail, screen>>

Batch == StartBatch \/ SetAll \/ Rewrite \/ RandomRound \/ WriteDefconfig
-----------------------------------------------------------------------------
(* oldaskconfig and oldconfig *)

StartAsk ==
  \/ Begin("ask", <<(<<"read", file>>), <<"conf", k.tree>>, <<"round">>, <<"write">>>>)
  \/ Begin("old", <<(<<"read", file>>), <<"round">>, <<"write">>>>)

Asking(name) == Calls(name) /\ UNCHANGED <<file, mini, trail, screen>>
Call(name, kids) == [i \in DOMAIN kids |-> <<name, kids[i]>>]

\* Go on with the calls in front of the rest.
GoOn(u, calls) ==
  /\ st' = u
  /\ todo' = calls \o Tail(todo)
  /\ UNCHANGED job
Quietly == UNCHANGED <<rootEntry, conf_cnt, answer>>

\* conf_askvalue: is the user asked?
Asked(u, s) == sym_is_changeable(u, s) /\ (job = "ask" \/ s \notin u.has)

\* conf_sym, conf_string and the first part of conf_choice: what the user may enter until
\* it is accepted; an empty line is the present value.
Enter(u, s, v) ==
  CASE IsTri(s) -> sym_set_tristate_value(k, u, s, v) @@ [answer |-> <<s, v>>]
    [] ~IsTri(s) -> sym_set_string_value(k, u, s, v) @@ [answer |-> <<s, WithPrefix(s, v)>>]
Entered(u, s) ==
  LET values == IF IsTri(s) THEN Tristate ELSE Strings \cup {u.curr[s].str}
  IN IF Asked(u, s) THEN {r \in {Enter(u, s, v) : v \in values} : r.ok} ELSE {[st |-> u, answer |-> answer]}

\* conf goes on below the entry; t is the state with its choice calculated.
AfterValue(r, t, e, new) ==
  /\ answer' = r.answer
  /\ CASE ~sym_is_choice(k, e.sym) -> GoOn(r.st, Call("conf", e.kids))
       [] sym_is_choice(k, e.sym) /\ t.curr[e.sym].tri = yes ->
            GoOn(t, <<(<<"member", e, new>>), <<"kids", e>>>>)
       [] OTHER -> GoOn(t, <<(<<"kids", e>>)>>)

\* conf for an entry that is visible or not.
ConfEntry(v, e) ==
  LET IsMenu == PromptType(e) = "menu" /\ job # "ask" /\ rootEntry # e
      calls == CASE ~v.v -> <<>> [] v.v /\ IsMenu -> <<(<<"check", e, e>>)>> [] OTHER -> Call("conf", e.kids)
  IN IF v.v /\ ~IsMenu /\ e.sym # ""
       THEN \E r \in Entered(v.st, e.sym) :
              AfterValue(r, sym_calc_value(k, r.st, e.sym), e, e.sym \notin v.st.has)
       ELSE GoOn(v.st, calls) /\ UNCHANGED answer

\* conf
Conf ==
  /\ Asking("conf")
  /\ ConfEntry(menu_is_visible(k, st, todo[1][2]), todo[1][2])
  /\ UNCHANGED <<rootEntry, conf_cnt>>

\* The visible members of a choice, as its loop draws them.
RECURSIVE Members(_, _)
Members(d, kids) ==
  LET Seen(v) == [st |-> v.st, list |-> IF v.v /\ kids[1].sym # "" THEN Append(d.list, kids[1]) ELSE d.list]
  IN IF kids = <<>> THEN d ELSE Members(Seen(menu_is_visible(k, d.st, kids[1])), Tail(kids))
MembersOf(e) == Members([st |-> st, list |-> <<>>], e.kids)

\* Those of them that the loop may take: the only one, the present one of a choice that
\* is not new, else the one whose number the user gives.
CanTake(d, e, new) ==
  {m \in ToSet(d.list) : Len(d.list) = 1 \/ new \/ job = "ask" \/ m.sym = d.st.curr[e.sym].str}

\* The loop of conf_choice. While nothing can be taken it begins anew and changes nothing.
Member ==
  /\ Asking("member")
  /\ LET Taken(m, r) ==
           /\ GoOn(r.st, Call("conf", m.kids))
           /\ answer' = IF r.ok THEN <<m.sym, yes>> ELSE answer
         From(d) ==
           \E m \in CanTake(d, todo[1][2], todo[1][3]) : Taken(m, sym_set_tristate_value(k, d.st, m.sym, yes))
     IN From(MembersOf(todo[1][2]))
  /\ UNCHANGED <<rootEntry, conf_cnt>>

\* The end of conf: the entries below a choice that is m.
Kids ==
  /\ Asking("kids")
  /\ LET e == todo[1][2]
     IN GoOn(st, IF st.curr[e.sym].tri = mod THEN Call("conf", e.kids) ELSE <<>>)
  /\ Quietly

\* Mutant of IsNew: what has a value is asked again.
IsNewAgain(u, e) == e.sym # "" /\ sym_is_changeable(u, e.sym)

\* Is there something new to ask for?
IsNew(u, e) ==
  /\ e.sym # "" /\ e.sym \notin u.has
  /\ sym_is_changeable(u, e.sym) \/ (sym_is_choice(k, e.sym) /\ u.curr[e.sym].tri = yes)

\* Mutant of CheckEntry: no further round is asked for.
CheckOnce(v, e, menu) ==
  LET AroundOf(kid) == IF PromptType(kid) = "menu" THEN kid ELSE menu
      Checks == [i \in DOMAIN e.kids |-> <<"check", e.kids[i], AroundOf(e.kids[i])>>]
      new == v.v /\ IsNew(v.st, e)
  IN /\ GoOn(v.st, (IF new THEN <<(<<"conf", menu>>)>> ELSE <<>>) \o (IF v.v THEN Checks ELSE <<>>))
     /\ rootEntry' = IF new THEN menu ELSE rootEntry
     /\ UNCHANGED <<conf_cnt, answer>>

\* What check_conf does with an entry that is visible or not: the menu around something
\* new is asked for, then the entries below are looked at.
CheckEntry(v, e, menu) ==
  LET AroundOf(kid) == IF PromptType(kid) = "menu" THEN kid ELSE menu
      Checks == [i \in DOMAIN e.kids |-> <<"check", e.kids[i], AroundOf(e.kids[i])>>]
      new == v.v /\ IsNew(v.st, e)
  IN /\ GoOn(v.st, (IF new THEN <<(<<"conf", menu>>)>> ELSE <<>>) \o (IF v.v THEN Checks ELSE <<>>))
     /\ rootEntry' = IF new THEN menu ELSE rootEntry
     /\ conf_cnt' = (conf_cnt \/ new)
     /\ UNCHANGED answer

\* check_conf
Check ==
  /\ Asking("check")
  /\ CheckEntry(menu_is_visible(k, st, todo[1][2]), todo[1][2], todo[1][3])

\* The loop of main: conf_cnt is reset, and all is looked at.
Round ==
  /\ Asking("round")
  /\ job' = "old" /\ conf_cnt' = FALSE
  /\ todo' = <<(<<"check", k.tree, k.tree>>), <<"again">>>> \o Tail(todo)
  /\ UNCHANGED <<st, rootEntry, answer>>
Again ==
  /\ Asking("again")
  /\ GoOn(st, IF conf_cnt THEN <<(<<"round">>)>> ELSE <<>>)
  /\ Quietly

Oldconfig == StartAsk \/ Conf \/ Member \/ Kids \/ Check \/ Round \/ Again

Next == Read \/ Write \/ Menuconfig \/ Batch \/ Oldconfig

\* A process that has something to do goes on: every question is answered at last with a
\* value that is accepted. This is weak fairness of the actions but the keys and the
\* starts, one of which can be taken while todo is not empty (TLC cannot evaluate ENABLED
\* of them in reasonable time); where a choice could not be answered, AllAsked would fail.
Running == todo # <<>>
Fairness == []<>(~Running) \/ []<><<Running>>_vars
Spec == Init /\ [][Next]_vars /\ Fairness
-----------------------------------------------------------------------------
(* Properties. *)

Used == ToSet(order)
SameValues(t, u) == \A s \in Used : sym_get_string_value(k, t, s) = sym_get_string_value(k, u, s)

\* Whatever sets symbols - a key, an answer, a mode of conf, a draw, a file: of a choice
\* that is y exactly the member it names is y, if one is visible; else none is.
ChoiceExclusive ==
  LET Exclusive(t) ==
        \A c \in Used : sym_is_choice(k, c) =>
          {m \in ToSet(k.members[c]) : t.curr[m].tri = yes} =
            IF t.curr[c].tri = yes /\ VisibleMembers(k, t, c) # <<>> THEN {t.curr[c].str} ELSE {}
  IN Exclusive(CalcAll(k, st, order))

\* An optional choice is answered through its members: sym_calc_choice takes its answer
\* back while one that is visible has none.
NewMember(t, c) == c \in k.optional /\ \E m \in ToSet(VisibleMembers(k, t, c)) : m \notin t.has

\* What the user entered and the program accepted is the value of the symbol, until the
\* next answer: also after other menus were drawn, after a save, and while oldconfig
\* walks on. Optional choices are left out: the answer taken back is lost when the next
\* symbol is set, or the file is saved a second time.
AnswerTaken ==
  answer # <<>> /\ answer[1] \notin k.optional =>
    With(CalcAll(k, st, order).curr[answer[1]], LAMBDA v :
      answer[2] = IF IsTri(answer[1]) THEN v.tri ELSE v.str)

\* The file has no line for a choice; an optional one is read back by its members.
Kept(t) ==
  \A c \in k.optional :
    /\ ~NewMember(t, c)
    /\ t.curr[c].tri = no \/ \E m \in ToSet(k.members[c]) : t.curr[m].tri = t.curr[c].tri

\* When a process writes .config, the next one that reads it has the same values, and
\* does not take it for a changed configuration (the latter unless a choice is optional:
\* lines of its hidden members may be written).
SaveLoad ==
  todo # <<>> /\ todo[1] = <<"write">> =>
    LET Same(w, read) ==
          /\ k.optional = {} => ~read.changed
          /\ SameValues(CalcAll(k, read, order), w.st)
    IN With(conf_write(k, st), LAMBDA w : Kept(w.st) => Same(w, conf_read(k, Fresh, w.lines, order)))

\* The values that savedefconfig leaves out as defaults are the values that defconfig
\* gives them: from the file it writes comes the configuration it was made of.
DefaultsOf(lines) == conf_set_all_new_symbols(k, conf_read(k, Fresh, lines, order), "default", <<>>, order).st
DefconfigLoad ==
  todo # <<>> /\ todo[1] \in {<<"write">>, <<"mini">>} =>
    With(conf_write_defconfig(k, st), LAMBDA w :
      Kept(w.st) => SameValues(CalcAll(k, DefaultsOf(w.lines), order), w.st))

\* conf_choice always has a member to take, so that it does not ask forever, and oldconfig
\* has asked all that can be asked: when it writes no symbol that the user could change is
\* without a value.
AllAsked ==
  /\ todo # <<>> /\ todo[1][1] = "member" => CanTake(MembersOf(todo[1][2]), todo[1][2], todo[1][3]) # {}
  /\ job = "old" /\ todo = <<(<<"write">>)>> =>
       With(CalcAll(k, st, order), LAMBDA t : \A s \in Used : sym_is_changeable(t, s) => s \in t.has)

\* oldconfig's rounds ("Update until a loop caused no more changes", conf.c:915), the
\* questions of oldaskconfig and the rounds of randconfig come to an end.
Ends == Running ~> ~Running
=============================================================================
