-------------------------------- MODULE KConf --------------------------------
(***************************************************************************)
(* Setting, reading and writing configurations: the rest of symbol.c,      *)
(* confdata.c and the ways in which conf.c sets all symbols.  A .config is *)
(* a sequence of lines <<symbol, value>>; the line "# CONFIG_X is not set" *)
(* is <<X, "unset">>.  As in KSymbol, an operator returns the state that   *)
(* the function leaves.                                                    *)
(***************************************************************************)
EXTENDS KMenu

sym_is_changeable(st, s) == st.visible[s] > st.rev[s]
TriString(tri) == CASE tri = no -> "n" [] tri = mod -> "m" [] tri = yes -> "y"
TriOf(v) == CASE v = "y" -> yes [] v = "m" -> mod [] OTHER -> no
-----------------------------------------------------------------------------
(* Setting a symbol: the state, and in ok whether the value is accepted. *)

\* Mutant of sym_tristate_within_range: what selects the symbol is not looked at.
WithinVisible(k, st, s, val) ==
  /\ st.visible[s] # no /\ IsTri(s)
  /\ sym_get_type(k, st, s) = "bool" => val # mod
  /\ sym_is_choice_value(k, s) /\ st.visible[s] = yes => val = yes
  /\ val <= st.visible[s]

sym_tristate_within_range(k, st, s, val) ==
  /\ st.visible[s] # no /\ IsTri(s)
  /\ sym_get_type(k, st, s) = "bool" => val # mod
  /\ st.visible[s] > st.rev[s]
  /\ IF sym_is_choice_value(k, s) /\ st.visible[s] = yes
       THEN val = yes
       ELSE val >= st.rev[s] /\ val <= st.visible[s]

\* A member that is set to y becomes the choice of the user, and all visible members
\* count as answered.
Choose(k, st, s) ==
  LET c == k.choice[s]
  IN [st EXCEPT !.def[c].str = s, !.has = @ \cup {c} \cup ToSet(VisibleMembers(k, st, c))]

sym_set_tristate_value(k, st, s, val) ==
  LET old == st.curr[s].tri
      st1 == [st EXCEPT !.has = @ \cup {s}]
      st2 == IF sym_is_choice_value(k, s) /\ val = yes THEN Choose(k, st1, s) ELSE st1
      st3 == [st2 EXCEPT !.def[s].tri = val]
  IN IF old # val /\ ~sym_tristate_within_range(k, st, s, val) THEN [st |-> st, ok |-> FALSE]
     ELSE [st |-> IF old # val THEN sym_clear_all_valid(k, st3) ELSE st3, ok |-> TRUE]

\* n -> m -> y -> n, to the first value that is accepted: the present one at last.
sym_toggle_tristate_value(k, st, s) ==
  LET old == st.curr[s].tri
      Try(r, i) == IF r.ok THEN r ELSE sym_set_tristate_value(k, r.st, s, (old + i) % 3)
  IN FoldLeft(Try, [st |-> st, ok |-> FALSE], <<1, 2, 3>>)

sym_string_within_range(k, st, s, str) ==
  LET AtLeast(low) == low.v <= ReadNumber(s, str)
      AtMost(high) == ReadNumber(s, str) <= high.v
  IN CASE TypeOf(s) = "string" -> TRUE
       [] TypeOf(s) \in {"int", "hex"} ->
            /\ sym_string_valid(s, str)
            /\ With(sym_get_range_prop(k, st, s), LAMBDA r :
                 r.prop # <<>> => /\ AtLeast(sym_get_range_val(k, r.st, s, r.prop[2]))
                                  /\ AtMost(sym_get_range_val(k, r.st, s, r.prop[3])))
       [] IsTri(s) -> str \in {"y", "m", "n"} /\ sym_tristate_within_range(k, st, s, TriOf(str))
       [] OTHER -> FALSE

\* A hexadecimal number without 0x gets it.
WithPrefix(s, str) ==
  IF TypeOf(s) = "hex" /\ Strtoll(str).dec # <<>> THEN Spell(s, ReadNumber(s, str)) ELSE str

sym_set_string_value(k, st, s, str) ==
  CASE IsTri(s) -> IF str \in {"y", "m", "n"} THEN sym_set_tristate_value(k, st, s, TriOf(str))
                                              ELSE [st |-> st, ok |-> FALSE]
    [] ~IsTri(s) /\ ~sym_string_within_range(k, st, s, str) -> [st |-> st, ok |-> FALSE]
    [] OTHER ->
         With([st EXCEPT !.has = @ \cup {s}, !.def[s].str = WithPrefix(s, str)], LAMBDA u :
           [st |-> IF u.def[s].str = st.def[s].str /\ str = st.def[s].str
                     THEN u ELSE sym_clear_all_valid(k, u), ok |-> TRUE])
-----------------------------------------------------------------------------
(* Reading. *)

\* Mutant of conf_set_sym_val: "is not set" is taken for a comment.
SetSymValOnly(st, s, v) ==
  LET tri == v \in {"y", "n"} \/ (v = "m" /\ TypeOf(s) = "tri")
      Set(value) == [st |-> [st EXCEPT !.has = @ \cup {s}, !.def[s] = value], ok |-> TRUE]
  IN CASE v = "unset" -> [st |-> st, ok |-> TRUE]
       [] IsTri(s) /\ tri -> Set([tri |-> TriOf(v), str |-> st.def[s].str])
       [] ~IsTri(s) /\ v # "unset" /\ sym_string_valid(s, v) -> Set([tri |-> no, str |-> v])
       [] OTHER -> [st |-> st, ok |-> FALSE]

\* conf_set_sym_val and the line "is not set": the value of one line; ok says that it is
\* one of the type.
conf_set_sym_val(st, s, v) ==
  LET tri == v \in {"y", "n", "unset"} \/ (v = "m" /\ TypeOf(s) = "tri")
      Set(value) == [st |-> [st EXCEPT !.has = @ \cup {s}, !.def[s] = value], ok |-> TRUE]
  IN CASE IsTri(s) /\ tri -> Set([tri |-> TriOf(v), str |-> st.def[s].str])
       [] ~IsTri(s) /\ v = "unset" -> [st |-> st, ok |-> TRUE]
       [] ~IsTri(s) /\ sym_string_valid(s, v) -> Set([tri |-> no, str |-> v])
       [] OTHER -> [st |-> st, ok |-> FALSE]

\* What the value of a member does to its choice.
ReadMember(k, r, s) ==
  LET c == k.choice[s]
      val == r.st.def[s].tri
      was == r.st.def[c].tri
      joined == [r EXCEPT !.st.def[c].tri = EXPR_OR(was, val)]
  IN CASE val = no -> joined
       [] val = mod -> IF was # yes THEN joined
                       ELSE [joined EXCEPT !.st.has = @ \ {c}, !.warn = TRUE]
       [] val = yes -> [joined EXCEPT !.st.def[c].str = s, !.warn = @ \/ was # no]

ReadLine(k, r, line) ==
  LET s == line[1]
      set == conf_set_sym_val(r.st, s, line[2])
      read == [st |-> set.st, warn |-> r.warn \/ s \in r.st.has \/ ~set.ok]
  IN CASE s \notin Symbols -> [r EXCEPT !.st.changed = TRUE]
       [] s \in Symbols /\ ~set.ok -> read
       [] s \in Symbols /\ set.ok /\ sym_is_choice_value(k, s) -> ReadMember(k, read, s)
       [] OTHER -> read

\* Every symbol loses its value; choices count as answered until their members say
\* otherwise.
conf_read_simple(k, st, lines) ==
  LET choices == {s \in Symbols : sym_is_choice(k, s)}
      cleared == [st EXCEPT !.has = choices, !.valid = {}, !.def = [s \in Symbols |-> Zero]]
  IN FoldLeft(LAMBDA r, line : ReadLine(k, r, line), [st |-> cleared, warn |-> FALSE], lines)

\* Does the value calculated differ from the one read?
Unsaved(k, st, s) ==
  CASE sym_is_choice(k, s) -> FALSE
    [] s \in st.has \cap st.write ->
         IF IsTri(s) THEN st.def[s].tri # st.curr[s].tri ELSE st.def[s].str # st.curr[s].str
    [] OTHER -> s \in st.has \cup st.write

\* The second loop of conf_read: values of symbols that are not visible are forgotten
\* while nothing was found unsaved, values out of range always.
Reset(k, r, s) ==
  IF s \notin r.st.has \/ sym_is_choice_value(k, s) THEN r ELSE
    With(IF r.st.visible[s] = no /\ ~r.unsaved THEN [r.st EXCEPT !.has = @ \ {s}] ELSE r.st, LAMBDA u :
      IF ~IsTri(s) /\ ~sym_string_within_range(k, u, s, u.def[s].str)
        THEN [st |-> [u EXCEPT !.has = @ \ {s}, !.valid = @ \ {s}], unsaved |-> TRUE]
        ELSE [r EXCEPT !.st = u])

\* order is that of the hash table; without a file lines is NoFile.
NoFile == <<(<<"", "none">>)>>
conf_read(k, st, lines, order) ==
  IF lines = NoFile THEN sym_calc_value(k, [st EXCEPT !.changed = TRUE], k.modules) ELSE
    With(conf_read_simple(k, [st EXCEPT !.changed = FALSE], lines), LAMBDA read :
    With(FoldLeft(LAMBDA r, s : With(sym_calc_value(k, r.st, s), LAMBDA u :
                    [st |-> u, unsaved |-> r.unsaved \/ Unsaved(k, u, s)]),
                  [st |-> sym_calc_value(k, read.st, k.modules), unsaved |-> FALSE], order), LAMBDA calc :
    With(FoldLeft(LAMBDA r, s : Reset(k, r, s), calc, order), LAMBDA end :
      [end.st EXCEPT !.changed = @ \/ read.warn \/ end.unsaved])))
-----------------------------------------------------------------------------
(* Writing. *)

\* __print_symbol for .config
Line(k, st, s) ==
  LET v == sym_get_string_value(k, st, s) IN <<s, IF IsTri(s) /\ v = "n" THEN "unset" ELSE v>>

\* What both writers do with an entry: symbols are calculated, and the menus and comments
\* between them are looked at as well.
CalcEntry(k, st, e) ==
  CASE e.sym = "" -> menu_is_visible(k, st, e).st
    [] e.sym # "" /\ sym_is_choice(k, e.sym) -> st
    [] OTHER -> sym_calc_value(k, st, e.sym)
Writes(u, e) == e.sym # "" /\ e.sym \in u.write   \* never a choice, see Finish

\* r has the symbols st and the lines written before the entries that are left.
AddLine(k, r, u, e) ==
  LET missing == \A i \in DOMAIN r.lines : r.lines[i][1] # e.sym
  IN [st |-> u, lines |-> IF Writes(u, e) /\ missing THEN Append(r.lines, Line(k, u, e.sym)) ELSE r.lines]

RECURSIVE WriteLines(_, _, _)
WriteLines(k, r, entries) ==
  IF entries = <<>> THEN r
  ELSE WriteLines(k, AddLine(k, r, CalcEntry(k, r.st, Head(entries)), Head(entries)), Tail(entries))

\* The symbols of the menus in their order, each once.
conf_write(k, st) ==
  LET Written(r) == [r EXCEPT !.st.changed = FALSE]
  IN Written(WriteLines(k, [st |-> IF st.changed THEN st ELSE sym_clear_all_valid(k, st), lines |-> <<>>],
                        Tail(Preorder(k.tree))))

\* Mutant of TristateDefault: what implies the symbol is forgotten.
DefaultNotImplied(k, u, s, v) ==
  LET AsBool == TypeOf(s) = "bool" \/ (~sym_is_choice_value(k, s) /\ ModulesTri(k, u) = no)
      Selected(sel) == IF sel = mod /\ AsBool THEN yes ELSE sel
  IN Selected(EXPR_OR(v, u.rev[s]))

\* The value of a tristate symbol without the user: v of its default, what selects it, and
\* what implies it; a selection of m is one of y for what counts as bool.
TristateDefault(k, u, s, v) ==
  LET AsBool == TypeOf(s) = "bool" \/ (~sym_is_choice_value(k, s) /\ ModulesTri(k, u) = no)
      Selected(sel) == EXPR_OR(IF sel = mod /\ AsBool THEN yes ELSE sel, u.imp[s])
  IN Selected(EXPR_OR(v, u.rev[s]))

\* The value a symbol has without the user; u are the symbols, d is its default.
DefaultString(k, u, s, d) ==
  CASE d.prop = <<>> -> IF IsTri(s) THEN TriString(TristateDefault(k, u, s, no)) ELSE ""
    [] d.prop # <<>> /\ IsTri(s) ->
         TriString(TristateDefault(k, u, s, EXPR_AND(Eval(k, d.st, d.prop[2]).v, d.tri)))
    [] d.prop # <<>> /\ ~IsTri(s) /\ d.prop[2][2] \in Symbols ->
         sym_calc_value(k, d.st, d.prop[2][2]).curr[d.prop[2][2]].str
    [] OTHER -> d.prop[2][2]

DefaultFrom(k, u, s) == DefaultString(k, u, s, sym_get_default_prop(k, u, s))
sym_get_string_default(k, st, s) ==
  DefaultFrom(k, sym_calc_value(k, sym_calc_visibility(k, st, s), k.modules), s)

\* Is a line needed to get this value again? Not for the member that the choice has
\* chosen by itself.
Differs(k, u, s) ==
  LET c == k.choice[s]
  IN /\ sym_is_changeable(u, s)
     /\ sym_get_string_value(k, u, s) # sym_get_string_default(k, u, s)
     /\ c # "" /\ c \notin k.optional /\ TypeOf(s) = "bool" /\ u.curr[s].tri = yes =>
          sym_choice_default(k, u, c).m # s

AddDifferent(k, r, u, e) ==
  IF ~Writes(u, e) THEN [r EXCEPT !.st = u] ELSE
    [st |-> [u EXCEPT !.write = @ \ {e.sym}],
     lines |-> IF Differs(k, u, e.sym) THEN Append(r.lines, Line(k, u, e.sym)) ELSE r.lines]

RECURSIVE WriteDifferent(_, _, _)
WriteDifferent(k, r, entries) ==
  IF entries = <<>> THEN r
  ELSE WriteDifferent(k, AddDifferent(k, r, CalcEntry(k, r.st, Head(entries)), Head(entries)), Tail(entries))

\* Only what differs from the defaults.
conf_write_defconfig(k, st) ==
  WriteDifferent(k, [st |-> sym_clear_all_valid(k, st), lines |-> <<>>], Tail(Preorder(k.tree)))
-----------------------------------------------------------------------------
(* Setting all symbols at once. *)

\* The value a symbol without one gets by the mode; draw is what rand() gives. A choice
\* that is drawn does not count as answered.
NewSymbol(k, st, s, mode, draw) ==
  LET new == CASE mode = "yes" -> yes [] mode = "mod" -> mod [] mode = "no" -> no
               [] OTHER -> IF TypeOf(s) = "bool" /\ draw[s] = mod THEN no ELSE draw[s]
      set == [st EXCEPT !.def[s].tri = new]
  IN CASE s \in st.has \cup st.valid \/ ~IsTri(s) \/ mode = "default" -> st
       [] mode = "random" /\ sym_is_choice(k, s) /\ s \notin st.has \cup st.valid -> set
       [] OTHER -> [set EXCEPT !.has = @ \cup {s}]

\* randomize_choice_values: the member draw[c] is chosen.
randomize_choice_values(k, st, c, draw) ==
  LET members == ToSet(k.members[c])
      picked == k.members[c][1 + (draw[c] % Len(k.members[c]))]
  IN [st EXCEPT !.def = [s \in Symbols |->
                          CASE s \in members -> [st.def[s] EXCEPT !.tri = IF s = picked THEN yes ELSE no]
                            [] s = c -> [st.def[s] EXCEPT !.str = picked]
                            [] OTHER -> st.def[s]],
                !.has = @ \cup members \cup {c}, !.valid = @ \ (members \cup {c})]

\* One round; more says that something was set, and randconfig goes on.
conf_set_all_new_symbols(k, st, mode, draw, order) ==
  LET open == {s \in Symbols : s \notin st.has \cup st.valid /\ IsTri(s)}
      Need(u) == {s \in Symbols : (sym_is_choice(k, s) /\ s \notin u.has) \/ sym_is_choice_value(k, s)}
      Start(u) == IF mode = "random" THEN u ELSE [u EXCEPT !.need = @ \cup Need(u)]
      Choice(r, c) ==
        IF ~sym_is_choice(k, c) \/ c \in r.st.has THEN r ELSE
          With(sym_calc_value(k, r.st, c), LAMBDA u :
            CASE mode # "random" -> [st |-> set_all_choice_values(k, u, c), more |-> TRUE]
              [] mode = "random" /\ u.curr[c].tri # yes -> [r EXCEPT !.st = u]
              [] OTHER -> [st |-> randomize_choice_values(k, u, c, draw), more |-> TRUE])
      Set(u) == FoldLeft(LAMBDA t, s : NewSymbol(k, t, s, mode, draw), u, order)
  IN FoldLeft(Choice, [st |-> Start(sym_clear_all_valid(k, Set(st))), more |-> open # {}], order)

conf_rewrite_tristates(k, st, old, new) ==
  sym_clear_all_valid(k,
    [st EXCEPT !.def = [s \in Symbols |->
       IF sym_get_type(k, st, s) = "tri" /\ st.def[s].tri = old
         THEN [st.def[s] EXCEPT !.tri = new] ELSE st.def[s]]])
=============================================================================
