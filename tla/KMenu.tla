-------------------------------- MODULE KMenu --------------------------------
(***************************************************************************)
(* From the entries of the Kconfig files to the program that KSymbol       *)
(* evaluates: scripts/kconfig/parser/menu.c, and the check for recursive   *)
(* dependencies in symbol.c.                                               *)
(* An entry (struct menu) is a record                                      *)
(*   sym    its symbol, "" for `if`, `menu` and `comment`                  *)
(*   dep    its dependency       vis   the `visible if` of a menu          *)
(*   props  [type, expr, vis] in the order of the file; the type is        *)
(*          "prompt", "menu", "comment", "default", "select", "imply" or   *)
(*          "range" (whose expr is <<"range", low, high>>)                 *)
(*   kids   the entries below it                                           *)
(* Of the symbols, ctx keeps what menu_finalize collects: rev, imp, dir    *)
(* (expressions), choice, members; optional and modules come from the file.*)
(***************************************************************************)
EXTENDS KSymbol

Entry(s) == [sym |-> s, dep |-> Null, vis |-> Null, props |-> <<>>, kids |-> <<>>]

\* The prompts of an entry; menu->prompt is the last one given.
Prompts(e) == SelectSeq(e.props, LAMBDA p : p.type \in {"prompt", "menu", "comment"})
HasPrompt(e) == Prompts(e) # <<>>
PromptOf(e) == IF HasPrompt(e) THEN Last(Prompts(e)).vis ELSE Null   \* its condition
-----------------------------------------------------------------------------
(* What the parser calls for the options of the entry e. *)

menu_add_dep(e, dep) == [e EXCEPT !.dep = expr_alloc_and(@, dep)]
menu_add_visibility(e, expr) == [e EXCEPT !.vis = expr_alloc_and(@, expr)]
menu_add_prop(e, type, expr, dep) ==
  [e EXCEPT !.props = Append(@, [type |-> type, expr |-> expr, vis |-> dep])]

\* Mutant of menu_add_prompt: the menus around are not looked at.
PromptAlone(e, type, dep, open) == menu_add_prop(e, type, Null, dep)

\* A prompt also takes the `visible if` of all menus around it; open are the blocks the
\* parser is in, the innermost last.
menu_add_prompt(e, type, dep, open) ==
  menu_add_prop(e, type, Null,
    IF type = "prompt" THEN FoldRight(LAMBDA b, x : expr_alloc_and(x, b.vis), open, dep) ELSE dep)
-----------------------------------------------------------------------------
(* menu_finalize *)

\* m -> m && MODULES
RECURSIVE rewrite_m(_, _)
rewrite_m(modules, e) ==
  CASE e[1] = "not" -> <<"not", rewrite_m(modules, e[2])>>
    [] e[1] \in {"or", "and"} -> <<e[1], rewrite_m(modules, e[2]), rewrite_m(modules, e[3])>>
    [] e = M -> <<"and", M, Sym(modules)>>
    [] OTHER -> e

\* An expression with the dependencies around it.
Under(ctx, around, e) ==
  expr_eliminate_dups(expr_alloc_and(around, expr_transform(rewrite_m(ctx.modules, e))))

\* The dependencies of the block around an entry go to it and to its properties.
Propagate(ctx, parentdep, e) ==
  LET Bool(v) == IF e.sym # "" /\ TypeOf(e.sym) # "tri" THEN expr_trans_bool(v) ELSE v
  IN With(Under(ctx, parentdep, e.dep), LAMBDA dep :
       [e EXCEPT !.dep = dep,
                 !.props = [i \in DOMAIN @ |-> [@[i] EXCEPT !.vis = Bool(Under(ctx, dep, @))]]])

\* What an entry selects and implies, under the conditions it now has.
ReverseDeps(ctx, e) ==
  LET Add(c, p) ==
        LET by == expr_alloc_and(Sym(e.sym), p.vis)
        IN CASE p.type = "select" -> [c EXCEPT !.rev[p.expr[2]] = expr_alloc_or(@, by)]
             [] p.type = "imply" -> [c EXCEPT !.imp[p.expr[2]] = expr_alloc_or(@, by)]
             [] OTHER -> c
  IN FoldLeft(Add, ctx, e.props)

IsChoice(ctx, s) == s \in ctx.choices

\* Does the entry that follows a symbol belong below it? dep is the condition of the
\* entry, basedep that of the symbol as expr_trans_compare puts it.
CompareForm(e) == expr_eliminate_dups(expr_transform(expr_trans_compare(e, "ne", "n")))
Condition(e) == IF HasPrompt(e) THEN PromptOf(e) ELSE e.dep
Needs(dep, s, basedep) ==
  /\ expr_contains_symbol(dep, s)
  /\ \/ expr_depends_symbol(dep, s)
     \/ expr_is_yes(expr_eliminate_eq(CompareForm(dep), basedep)[2])
Follows(s, basedep, e) == Needs(Condition(e), s, basedep)

\* Non-tristate members of a tristate choice depend on the choice being y.
OnlyIfYes(c, e) ==
  LET yesdep == <<"eq", c, "y">>
  IN IF TypeOf(c) # "tri" \/ TypeOf(e.sym) = "tri" THEN e
     ELSE [e EXCEPT !.dep = expr_alloc_and(yesdep, @),
                    !.props = [i \in DOMAIN @ |-> [@[i] EXCEPT !.vis = expr_alloc_and(yesdep, @)]]]

\* The entries below a choice become its members, and the contents of blocks without a
\* prompt move to the level of the block.
RECURSIVE Flatten(_, _, _, _)
Flatten(ctx, s, done, todo) ==
  IF todo = <<>> THEN [ctx |-> ctx, kids |-> done] ELSE
    LET Joins(e) == s # "" /\ IsChoice(ctx, s) /\ e.sym # "" /\ ctx.choice[e.sym] = ""
        Joined(e) == [ctx EXCEPT !.choice[e.sym] = s, !.members[s] = Append(@, e.sym)]
        Place(c, e) ==
          IF e.kids # <<>> /\ ~HasPrompt(e)
            THEN Flatten(c, s, Append(done, [e EXCEPT !.kids = <<>>]), e.kids \o Tail(todo))
            ELSE Flatten(c, s, Append(done, e), Tail(todo))
    IN With(IF Joins(todo[1]) THEN <<Joined(todo[1]), OnlyIfYes(s, todo[1])>> ELSE <<ctx, todo[1]>>,
            LAMBDA j : Place(j[1], j[2]))

\* menu_finalize(e) with the entries rest that follow e; some of them may end up below e.
RECURSIVE menu_finalize(_, _, _)

\* The entries of a list, those that are done first.
RECURSIVE FinalizeAll(_, _, _)
FinalizeAll(ctx, done, list) ==
  IF list = <<>> THEN [ctx |-> ctx, kids |-> done]
  ELSE With(menu_finalize(ctx, list[1], Tail(list)), LAMBDA r :
         FinalizeAll(r.ctx, Append(done, r.e), r.rest))

\* The longest run of following entries that belong below the symbol s.
RECURSIVE Submenu(_, _, _, _, _)
Submenu(ctx, s, basedep, kids, rest) ==
  IF rest = <<>> \/ ~Follows(s, basedep, rest[1]) THEN [ctx |-> ctx, kids |-> kids, rest |-> rest]
  ELSE With(menu_finalize(ctx, rest[1], Tail(rest)), LAMBDA r :
         Submenu(r.ctx, s, basedep, Append(kids, r.e), r.rest))

PropagateTo(ctx, dep, kids) == [i \in DOMAIN kids |-> Propagate(ctx, dep, kids[i])]
FinalizeKids(ctx, kids) == With(FoldLeft(ReverseDeps, ctx, kids), LAMBDA c : FinalizeAll(c, <<>>, kids))

\* The entries that are or end up below e, and those that are left.
Below(ctx, e, rest) ==
  LET choice == e.sym # "" /\ IsChoice(ctx, e.sym)
      Dir(sub) == [sub EXCEPT !.ctx.dir[e.sym] = expr_alloc_or(@, e.dep)]
  IN CASE e.kids # <<>> ->
            With(PropagateTo(ctx, IF choice THEN Sym(e.sym) ELSE e.dep, e.kids),
                 LAMBDA kids : FinalizeKids(ctx, kids)) @@ [rest |-> rest]
       [] e.kids = <<>> /\ e.sym # "" -> Dir(Submenu(ctx, e.sym, CompareForm(PromptOf(e)), <<>>, rest))
       [] OTHER -> [ctx |-> ctx, kids |-> <<>>, rest |-> rest]

\* A choice that is not optional is at least m while its prompt is visible.
Finalized(e, r, flat) ==
  LET Selected(c) ==
        IF e.sym # "" /\ IsChoice(c, e.sym) /\ e.sym \notin c.optional /\ HasPrompt(e)
          THEN [c EXCEPT !.rev[e.sym] = expr_alloc_or(@, expr_alloc_and(PromptOf(e), M))] ELSE c
  IN [ctx |-> Selected(flat.ctx), e |-> [e EXCEPT !.kids = flat.kids], rest |-> r.rest]

menu_finalize(ctx, e, rest) ==
  With(Below(ctx, e, rest), LAMBDA r : Finalized(e, r, Flatten(r.ctx, e.sym, <<>>, r.kids)))
-----------------------------------------------------------------------------
(* The program. *)

RECURSIVE Preorder(_)
Preorder(e) == FoldLeft(LAMBDA seq, kid : seq \o Preorder(kid), <<e>>, e.kids)

\* The properties of type t of the symbol s in all its entries.
Props(tree, s, t) ==
  FoldLeft(LAMBDA seq, e : IF e.sym = s THEN seq \o SelectSeq(e.props, LAMBDA p : p.type = t)
                                        ELSE seq, <<>>, Preorder(tree))

\* conf_parse: the files are parsed into root; choices, the optional ones among them and
\* the symbol with the option modules ("" if there is none) are known from the parser.
conf_parse(root, choices, optional, modules) ==
  LET none == [s \in Symbols |-> Null]
      ctx == [rev |-> none, imp |-> none, dir |-> none,
              choice |-> [s \in Symbols |-> ""], members |-> [s \in Symbols |-> <<>>],
              choices |-> choices, optional |-> optional,
              modules |-> IF modules = "" THEN "n" ELSE modules]
      Mapped(F(_), props) == [i \in DOMAIN props |-> F(props[i])]
      Each(F(_)) == [s \in Symbols |-> F(s)]
      From(c, tree) ==
        [prompts |-> Each(LAMBDA s : Mapped(LAMBDA p : p.vis, Props(tree, s, "prompt"))),
         defaults |-> Each(LAMBDA s : Mapped(LAMBDA p : <<p.vis, p.expr>>, Props(tree, s, "default"))),
         ranges |-> Each(LAMBDA s : Mapped(LAMBDA p : <<p.vis, p.expr[2], p.expr[3]>>, Props(tree, s, "range"))),
         dir_dep |-> c.dir, rev_dep |-> c.rev, implied |-> c.imp,
         choice |-> c.choice, members |-> c.members,
         optional |-> optional, modules |-> ctx.modules, tree |-> tree]
      Of(r) == From(r.ctx, r.e)
  IN Of(menu_finalize(ctx, root, <<>>))
-----------------------------------------------------------------------------
(* The warnings of menu_finalize about a program that is used all the same. *)

menu_validate_number(s, t) ==
  TypeOf(t) \in {"int", "hex"} \/ (TypeOf(t) = "unknown" /\ sym_string_valid(s, t))

\* sym_check_prop: is property p of the symbol s as it should be?
sym_check_prop(k, s, p) ==
  LET number == TypeOf(s) \in {"int", "hex"}
  IN CASE p.type = "default" ->
            /\ IsTri(s) \/ p.expr[1] = "sym"
            /\ p.expr[1] = "sym" /\ number => menu_validate_number(s, p.expr[2])
            /\ sym_is_choice(k, s) => p.expr[2] \in ToSet(k.members[s])
       [] p.type \in {"select", "imply"} -> IsTri(s) /\ TypeOf(p.expr[2]) \in {"bool", "tri", "unknown"}
       [] p.type = "range" -> /\ number /\ menu_validate_number(s, p.expr[2])
                              /\ menu_validate_number(s, p.expr[3])
       [] OTHER -> TRUE

\* Also: a choice and its members have prompts, the members have no defaults, and all
\* their prompts are below the choice.
Warned(k) ==
  \E e \in ToSet(Preorder(k.tree)) :
    /\ e.sym # ""
    /\ \/ \E p \in ToSet(e.props) : ~sym_check_prop(k, e.sym, p)
       \/ sym_is_choice(k, e.sym) /\ ~HasPrompt(e)
       \/ /\ sym_is_choice_value(k, e.sym)
          /\ \/ ~HasPrompt(e) \/ k.defaults[e.sym] # <<>>
             \/ \A c \in ToSet(Preorder(k.tree)) : c.sym = k.choice[e.sym] => e \notin ToSet(c.kids)
-----------------------------------------------------------------------------
(* Visible menus. *)

\* The condition of the prompt of an entry in the state st; a tristate member of a choice
\* that is y has no prompt when it is only m.
PromptVisible(k, st, e) ==
  LET Hidden(v) == /\ e.sym # "" /\ k.choice[e.sym] # "" /\ TypeOf(e.sym) = "tri"
                   /\ v = mod /\ st.curr[k.choice[e.sym]].tri = yes
      Shows(v) == v # no /\ ~Hidden(v)
  IN HasPrompt(e) /\ Shows(Eval(k, st, Last(Prompts(e)).vis).v)

RECURSIVE menu_is_visible(_, _, _)

\* Is one of the entries visible? x is the state and the answer so far.
RECURSIVE AnyVisible(_, _, _)
AnyVisible(k, x, entries) ==
  IF x.v \/ entries = <<>> THEN x ELSE AnyVisible(k, menu_is_visible(k, x.st, Head(entries)), Tail(entries))

\* Mutant of VisibleEntry: the entries below do not count.
VisibleByPrompt(k, u, e, prompt) == [st |-> u, v |-> prompt]

\* An entry whose own prompt is not visible shows for the entries below it while its
\* symbol is set, and the symbol then counts as one with a value.
VisibleEntry(k, u, e, prompt) ==
  LET Set(x) == IF x.v THEN [x EXCEPT !.st.has = @ \cup {e.sym}] ELSE x
  IN IF prompt \/ e.sym = "" \/ u.curr[e.sym].tri = no THEN [st |-> u, v |-> prompt]
     ELSE Set(AnyVisible(k, [st |-> u, v |-> FALSE], e.kids))

VisibleBy(k, u, e) == VisibleEntry(k, u, e, PromptVisible(k, u, e))
VisibleIf(k, c, e) ==
  IF c.v = no THEN [st |-> c.st, v |-> FALSE] ELSE VisibleBy(k, sym_calc_value(k, c.st, e.sym), e)

\* The state with the symbols calculated that are looked at, and the answer.
menu_is_visible(k, st, e) ==
  IF ~HasPrompt(e) THEN [st |-> st, v |-> FALSE] ELSE VisibleIf(k, Eval(k, st, e.vis), e)
-----------------------------------------------------------------------------
(* sym_check_deps: c has the symbols with SYMBOL_CHECK and SYMBOL_CHECKED, and in bad the *)
(* symbol that is found to depend on itself, "" while there is none. *)

RECURSIVE sym_check_deps(_, _, _)

sym_check_expr_deps(k, c, e) ==
  FoldLeft(LAMBDA d, s : IF d.bad # "" THEN d ELSE sym_check_deps(k, d, s), c, SymbolsOf(e))

\* The expressions the value of s depends on, in the order they are checked.
Dependencies(k, s) ==
  <<k.dir_dep[s], k.rev_dep[s], k.implied[s]>>
  \o FoldLeft(LAMBDA seq, e :
       IF e.sym # s THEN seq ELSE
         FoldLeft(LAMBDA q, p :
           CASE p.type \in {"select", "imply"} -> q
             [] p.type = "default" /\ ~sym_is_choice(k, s) -> q \o <<p.vis, p.expr>>
             [] OTHER -> Append(q, p.vis), seq, e.props), <<>>, Preorder(k.tree))

sym_check_sym_deps(k, c, s) ==
  FoldLeft(LAMBDA d, e : IF d.bad # "" THEN d ELSE sym_check_expr_deps(k, d, e), c, Dependencies(k, s))

\* Mutant of sym_check_choice_deps: the choice keeps SYMBOL_CHECK while its members are checked.
ChoiceKeepsCheck(k, c, choice) ==
  LET group == ToSet(k.members[choice]) \cup {choice}
      Member(d, s) == IF d.bad # "" THEN d ELSE sym_check_sym_deps(k, d, s)
      Members(d) == FoldLeft(Member, [d EXCEPT !.check = @ \ {choice}], k.members[choice])
      Done(d) == [d EXCEPT !.check = @ \ group]
  IN Done(Members(sym_check_sym_deps(k,
       [c EXCEPT !.check = @ \cup {choice}, !.checked = @ \cup group], choice)))

sym_check_choice_deps(k, c, choice) ==
  LET group == ToSet(k.members[choice]) \cup {choice}
      Member(d, s) == IF d.bad # "" THEN d ELSE sym_check_sym_deps(k, d, s)
      Members(d) == FoldLeft(Member, [d EXCEPT !.check = @ \ {choice}], k.members[choice])
      Done(d) == [d EXCEPT !.check = @ \ group, !.bad = IF @ \in group THEN choice ELSE @]
  IN Done(Members(sym_check_sym_deps(k,
       [c EXCEPT !.check = @ \cup group, !.checked = @ \cup group], choice)))

sym_check_deps(k, c, s) ==
  LET Done(d) == [d EXCEPT !.check = @ \ {s}]
      checking == [c EXCEPT !.check = @ \cup {s}, !.checked = @ \cup {s}]
  IN CASE s \notin Symbols -> c
       [] s \in c.check -> [c EXCEPT !.bad = s]
       [] s \in c.checked \ c.check -> c
       [] sym_is_choice_value(k, s) -> sym_check_deps(k, c, k.choice[s])
       [] sym_is_choice(k, s) -> sym_check_choice_deps(k, c, s)
       [] OTHER -> Done(sym_check_sym_deps(k, checking, s))

\* The loop of conf_parse over the symbols in the order of the hash table: no symbol may
\* be found.
Accepted(k, order) ==
  FoldLeft(LAMBDA c, s : IF c.bad # "" THEN c ELSE sym_check_deps(k, c, s),
           [check |-> {}, checked |-> {}, bad |-> ""], order).bad = ""
=============================================================================
