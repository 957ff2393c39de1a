------------------------------- MODULE KSymbol -------------------------------
(***************************************************************************)
(* The values of configuration symbols, scripts/kconfig/parser/symbol.c.   *)
(* Values are computed on demand and kept: sym_calc_value computes a       *)
(* symbol whose flag SYMBOL_VALID is not set, and in doing so the symbols  *)
(* its expressions name.  The operators take the state st of all symbols   *)
(* and return the state that the call leaves:                              *)
(*   curr     the value last computed, a record [tri, str]; for a choice   *)
(*            str is the member it has chosen                              *)
(*   def      def[S_DEF_USER], the value from .config or the user          *)
(*   visible, dir, rev, imp    visible, dir_dep.tri, rev_dep.tri,          *)
(*            implied.tri                                                  *)
(*   has, valid, write, need   the flags SYMBOL_DEF_USER, SYMBOL_VALID,    *)
(*            SYMBOL_WRITE, SYMBOL_NEED_SET_CHOICE_VALUES as sets          *)
(*   modules  modules_val                                                  *)
(*   changed  conf_changed                                                 *)
(* k is what the parser and menu_finalize made of the Kconfig files, a     *)
(* record of functions of the symbols:                                     *)
(*   prompts  the conditions of the prompts                                *)
(*   defaults pairs <<condition, expression>>                              *)
(*   ranges   triples <<condition, low symbol, high symbol>>               *)
(*   dir_dep, rev_dep, implied   expressions                               *)
(*   choice   the choice a choice value belongs to, or ""                  *)
(*   members  the values of a choice in order, <<>> for other symbols      *)
(* and optional (a set of choices), modules (the symbol of `option         *)
(* modules`, or "n"), order (the symbols in the order of the menus).       *)
(***************************************************************************)
EXTENDS KExpr

Symbols == DOMAIN Type

sym_is_choice(k, s) == k.members[s] # <<>>
sym_is_choice_value(k, s) == k.choice[s] # ""
IsTri(s) == TypeOf(s) \in {"bool", "tri"}

\* symbol_no.curr and symbol_empty.curr: values before anything is computed.
Zero == [tri |-> no, str |-> ""]

\* sym_get_type: a tristate symbol counts as bool without modules, and as a chosen value.
sym_get_type(k, st, s) ==
  IF /\ TypeOf(s) = "tri"
     /\ (sym_is_choice_value(k, s) /\ st.visible[s] = yes) \/ st.modules = no
    THEN "bool" ELSE TypeOf(s)

ModulesTri(k, st) == IF k.modules \in Symbols THEN st.curr[k.modules].tri ELSE no

sym_get_string_value(k, st, s) ==
  LET tri == st.curr[s].tri
  IN CASE ~IsTri(s) -> st.curr[s].str
       [] IsTri(s) /\ tri = no -> "n"
       [] IsTri(s) /\ tri = mod -> IF ModulesTri(k, st) = no THEN "n" ELSE "m"
       [] IsTri(s) /\ tri = yes -> "y"

\* The symbols an expression names, from left to right.
RECURSIVE SymbolsOf(_)
SymbolsOf(e) ==
  CASE e[1] \in {"and", "or"} -> SymbolsOf(e[2]) \o SymbolsOf(e[3])
    [] e[1] = "not" -> SymbolsOf(e[2])
    [] e[1] = "sym" -> <<e[2]>>
    [] e[1] \in Comparisons -> <<e[2], e[3]>>
    [] OTHER -> <<>>

RECURSIVE sym_calc_value(_, _, _)

\* Symbols one after the other.
RECURSIVE CalcAll(_, _, _)
CalcAll(k, st, order) ==
  IF order = <<>> THEN st
  ELSE With(sym_calc_value(k, st, Head(order)), LAMBDA u : CalcAll(k, u, Tail(order)))

\* expr_calc_value with the symbols as they are.
ValueIn(k, st, e) ==
  [st |-> st,
   v |-> expr_calc_value(e, [s \in Symbols |->
           [tri |-> st.curr[s].tri, str |-> sym_get_string_value(k, st, s)]])]

\* Mutant of Eval: the values last computed are taken.
EvalStale(k, st, e) == ValueIn(k, st, e)

\* expr_calc_value with the computations it starts: the state, and the value v.
Eval(k, st, e) == With(CalcAll(k, st, SymbolsOf(e)), LAMBDA u : ValueIn(k, u, e))

\* The first of the properties whose condition is not n; prop is <<>> if there is none.
RECURSIVE FirstVisible(_, _, _)
FirstVisible(k, st, props) ==
  IF props = <<>> THEN [st |-> st, prop |-> <<>>, tri |-> no] ELSE
    With(Eval(k, st, props[1][1]), LAMBDA c :
      IF c.v # no THEN [st |-> c.st, prop |-> props[1], tri |-> c.v]
                  ELSE FirstVisible(k, c.st, Tail(props)))

sym_get_default_prop(k, st, s) == FirstVisible(k, st, k.defaults[s])
sym_get_range_prop(k, st, s) == FirstVisible(k, st, k.ranges[s])
-----------------------------------------------------------------------------
(* Visibility. *)

\* The prompts from the first on: the best of their conditions, in v.
RECURSIVE PromptsOf(_, _, _, _)
PromptsOf(k, u, s, prompts) ==
  LET Shown(c) ==
        LET hidden == /\ sym_is_choice_value(k, s) /\ TypeOf(s) = "tri" /\ c.v = mod
                      /\ c.st.curr[k.choice[s]].tri = yes
        IN [st |-> c.st, v |-> EXPR_OR(u.v, IF hidden THEN no ELSE c.v)]
  IN IF prompts = <<>> THEN u
     ELSE With(Eval(k, u.st, Head(prompts)), LAMBDA c : PromptsOf(k, Shown(c), s, Tail(prompts)))

\* The three dependencies of a symbol: their expression, and the value without one.
Limiting == <<[of |-> "dir_dep", is |-> "dir", empty |-> yes], [of |-> "rev_dep", is |-> "rev", empty |-> no],
              [of |-> "implied", is |-> "imp", empty |-> no]>>

RECURSIVE SetLimits(_, _, _, _)
SetLimits(k, st, s, limits) ==
  LET d == limits[1]
      Typed(c) == IF c.v = mod /\ sym_get_type(k, c.st, s) = "bool" THEN yes ELSE c.v
      Set(c) == [c.st EXCEPT ![d.is][s] = Typed(c)]
      Value(e, c) == IF e = Null THEN [st |-> st, v |-> d.empty] ELSE c
  IN IF limits = <<>> THEN st
     ELSE With(Value(k[d.of][s], Eval(k, st, k[d.of][s])), LAMBDA c : SetLimits(k, Set(c), s, Tail(limits)))

sym_calc_visibility(k, st, s) ==
  LET Visible(p) ==
        [p.st EXCEPT !.visible[s] =
           IF p.v = mod /\ (TypeOf(s) # "tri" \/ p.st.modules = no) THEN yes ELSE p.v]
  IN With(PromptsOf(k, [st |-> st, v |-> no], s, k.prompts[s]), LAMBDA p :
       SetLimits(k, Visible(p), s, IF sym_is_choice_value(k, s) THEN <<>> ELSE Limiting))
-----------------------------------------------------------------------------
(* Choices. *)

VisibleMembers(k, st, c) == SelectSeq(k.members[c], LAMBDA m : st.visible[m] # no)

\* The first visible default of the choice, else its first visible member, else "".
RECURSIVE DefaultOf(_, _, _, _)
DefaultOf(k, st, c, props) ==
  LET Later(d) == SubSeq(props, 1 + CHOOSE i \in DOMAIN props : props[i] = d.prop, Len(props))
      FirstOf(visible) == IF visible = <<>> THEN "" ELSE visible[1]
      From(d) ==
        CASE d.prop = <<>> -> [st |-> d.st, m |-> FirstOf(VisibleMembers(k, d.st, c))]
          [] d.prop # <<>> /\ d.st.visible[d.prop[2][2]] # no -> [st |-> d.st, m |-> d.prop[2][2]]
          [] OTHER -> DefaultOf(k, d.st, c, Later(d))
  IN With(FirstVisible(k, st, props), From)
sym_choice_default(k, st, c) == DefaultOf(k, st, c, k.defaults[c])

\* The member that is chosen is curr[c].str. The choice counts as answered only while
\* every visible member has a value.
RECURSIVE CalcMembers(_, _, _)
CalcMembers(k, st, members) ==
  IF members = <<>> THEN st
  ELSE With(sym_calc_visibility(k, st, Head(members)), LAMBDA u : CalcMembers(k, u, Tail(members)))

Chosen(k, u, c, d) ==
  LET user == u.def[c].str
  IN CASE user # "" /\ u.visible[user] # no -> [u EXCEPT !.curr[c].str = user]
       [] ~(user # "" /\ u.visible[user] # no) /\ d.m # "" -> [d.st EXCEPT !.curr[c].str = d.m]
       [] OTHER -> [d.st EXCEPT !.curr[c] = Zero]

sym_calc_choice(k, st, c) ==
  LET Answered(u) ==
        IF ToSet(VisibleMembers(k, u, c)) \subseteq u.has THEN u ELSE [u EXCEPT !.has = @ \ {c}]
      From(u) == Chosen(k, u, c, sym_choice_default(k, u, c))
  IN With(CalcMembers(k, st, k.members[c]), LAMBDA u : From(Answered(u)))

\* set_all_choice_values (confdata.c): members without a value get n, the choice is
\* answered and computed anew.
set_all_choice_values(k, st, c) ==
  [st EXCEPT !.def = [s \in Symbols |-> IF s \in ToSet(k.members[c]) \ st.has
                                          THEN [st.def[s] EXCEPT !.tri = no] ELSE st.def[s]],
             !.has = @ \cup {c}, !.valid = @ \ {c}, !.need = @ \ {c}]
-----------------------------------------------------------------------------
(* Values. *)

\* What sprintf prints of a limit of a range.
Spell(s, number) ==
  IF TypeOf(s) = "int" THEN CASE number = -1 -> "-1" [] number = 5 -> "5" [] number = 10 -> "10"
                       ELSE CASE number = 5 -> "0x5" [] number = 16 -> "0x10"

\* strtoll as symbol.c uses it; an empty string reads as 0.
OrZero(number) == IF number = <<>> THEN 0 ELSE number[1]
ReadNumber(s, str) == OrZero(Strtoll(str)[IF TypeOf(s) = "hex" THEN "hex" ELSE "dec"])

sym_string_valid(s, str) ==
  CASE TypeOf(s) = "string" -> TRUE
    [] TypeOf(s) = "int" -> Strtoll(str).dec # <<>>
    [] TypeOf(s) = "hex" -> Strtoll(str).hex # <<>> /\ ReadNumber(s, str) >= 0
    [] IsTri(s) -> str \in {"y", "m", "n"}
    [] OTHER -> FALSE

\* A limit of a range: a symbol with a type, or a number that is a name of a constant.
sym_get_range_val(k, st, s, limit) ==
  LET Of(t) == [st |-> t, v |-> ReadNumber(limit, t.curr[limit].str)]
  IN IF limit \in Symbols THEN Of(sym_calc_value(k, st, limit))
                          ELSE [st |-> st, v |-> ReadNumber(s, limit)]

\* The value within the limits low and high of its range.
Within(s, st, low, high) ==
  LET val == ReadNumber(s, st.curr[s].str)
      limit == IF val < low.v THEN low ELSE high
  IN IF val >= low.v /\ val <= high.v THEN high.st
     ELSE [limit.st EXCEPT !.curr[s].str = Spell(s, limit.v)]
UpTo(k, st, s, prop, low) == Within(s, st, low, sym_get_range_val(k, low.st, s, prop[3]))
InRange(k, r, s) ==
  IF r.prop = <<>> THEN r.st ELSE UpTo(k, r.st, s, r.prop, sym_get_range_val(k, r.st, s, r.prop[2]))
sym_validate_range(k, st, s) ==
  IF TypeOf(s) \notin {"int", "hex"} THEN st ELSE InRange(k, sym_get_range_prop(k, st, s), s)

\* The value of a bool or tristate symbol from .config, defaults, imply and select.
\* d is its default.
TristateValue(k, st, s, d) ==
  LET Selected(u, v) == [st |-> u, v |-> EXPR_OR(v, u.rev[s])]
      Weak(u, default) ==
        LET implied == u.imp[s]
            write == IF u.rev[s] # no \/ default # no \/ implied # no THEN {s} ELSE {}
        IN Selected([u EXCEPT !.write = @ \cup write],
                    IF implied = no THEN default
                    ELSE EXPR_AND(EXPR_OR(default, implied), u.dir[s]))
      Limited(c) == Weak(c.st, EXPR_AND(c.v, d.tri))
  IN CASE st.visible[s] # no /\ s \in st.has ->
            Selected(st, EXPR_AND(st.def[s].tri, st.visible[s]))
       [] ~(st.visible[s] # no /\ s \in st.has) /\ sym_is_choice(k, s) ->
            Selected([st EXCEPT !.write = @ \cup (IF st.rev[s] # no THEN {s} ELSE {})], no)
       [] OTHER -> Limited(Eval(k, d.st, IF d.prop = <<>> THEN N ELSE d.prop[2]))

StringValue(k, st, s, d) ==
  LET Written(u, x) == [st |-> [u EXCEPT !.write = @ \cup {s}], str |-> x]
      Of(u, other) == Written(u, u.curr[other].str)
      default == d.prop[2][2]
  IN CASE st.visible[s] # no /\ s \in st.has -> [st |-> st, str |-> st.def[s].str]
       [] ~(st.visible[s] # no /\ s \in st.has) /\ d.prop = <<>> -> [st |-> d.st, str |-> ""]
       [] OTHER -> IF default \in Symbols THEN Of(sym_calc_value(k, d.st, default), default)
                                          ELSE Written(d.st, default)

\* Of a tristate symbol that counts as bool m is y.
NewTristate(k, t, s) ==
  [t.st EXCEPT !.curr[s] =
     [tri |-> IF t.v = mod /\ sym_get_type(k, t.st, s) = "bool" THEN yes ELSE t.v, str |-> ""]]
NewString(x, s) == [x.st EXCEPT !.curr[s] = [tri |-> no, str |-> x.str]]

\* Mutant of NewValue: a member keeps the value the user once gave it.
NewValueOfUser(k, st, s) ==
  CASE ~IsTri(s) -> NewString(StringValue(k, st, s, sym_get_default_prop(k, st, s)), s)
    [] IsTri(s) /\ sym_is_choice_value(k, s) /\ st.visible[s] = yes /\ s \notin st.has ->
         [st EXCEPT !.curr[s].tri = IF st.curr[k.choice[s]].str = s THEN yes ELSE no]
    [] OTHER -> NewTristate(k, TristateValue(k, st, s, sym_get_default_prop(k, st, s)), s)

ValueOr(k, st, s, default) ==
  CASE ~IsTri(s) -> NewString(StringValue(k, st, s, default), s)
    [] IsTri(s) /\ sym_is_choice_value(k, s) /\ st.visible[s] = yes ->
         [st EXCEPT !.curr[s].tri = IF st.curr[k.choice[s]].str = s THEN yes ELSE no]
    [] OTHER -> NewTristate(k, TristateValue(k, st, s, default), s)
NewValue(k, st, s) == ValueOr(k, st, s, sym_get_default_prop(k, st, s))

\* After the value: the choice is made, modules_val follows its symbol, the members of a
\* choice are written with it; a choice itself is SYMBOL_NO_WRITE.
Finish(k, st, s) ==
  LET Modules(u) == IF s = k.modules THEN [u EXCEPT !.modules = u.curr[s].tri] ELSE u
      Write(u) == IF s \in u.write THEN [u EXCEPT !.write = @ \cup ToSet(VisibleMembers(k, u, s))] ELSE u
      NoWrite(u) == IF sym_is_choice(k, s) THEN [u EXCEPT !.write = @ \ {s}] ELSE u
      SetMembers(u) == IF s \in u.need /\ sym_is_choice(k, s) THEN set_all_choice_values(k, u, s) ELSE u
  IN SetMembers(NoWrite(Write(Modules(sym_validate_range(k,
       IF sym_is_choice(k, s) /\ st.curr[s].tri = yes THEN sym_calc_choice(k, st, s) ELSE st, s)))))

sym_calc_value(k, st, s) ==
  IF s \notin Symbols \/ s \in st.valid THEN st ELSE
    LET OfChoice ==
          IF s \in st.need /\ k.choice[s] # ""
            THEN sym_calc_value(k, [st EXCEPT !.need = @ \ {s}], k.choice[s]) ELSE st
        Begun(u) == [u EXCEPT !.valid = @ \cup {s}, !.write = @ \ {s}]
        Reset(u) == [u EXCEPT !.curr[s] = Zero,
                              !.write = @ \cup (IF u.visible[s] # no THEN {s} ELSE {})]
    IN With(sym_calc_visibility(k, Begun(OfChoice), s), LAMBDA u :
         With(NewValue(k, Reset(u), s), LAMBDA t : Finish(k, t, s)))

\* The symbols as the parser leaves them.
Fresh == [curr |-> [s \in Symbols |-> Zero], def |-> [s \in Symbols |-> Zero],
          visible |-> [s \in Symbols |-> no], dir |-> [s \in Symbols |-> no],
          rev |-> [s \in Symbols |-> no], imp |-> [s \in Symbols |-> no],
          has |-> {}, valid |-> {}, write |-> {}, need |-> {}, modules |-> no, changed |-> TRUE]

sym_clear_all_valid(k, st) ==
  sym_calc_value(k, [st EXCEPT !.valid = {}, !.changed = TRUE], k.modules)
=============================================================================
