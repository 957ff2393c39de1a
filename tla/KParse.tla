-------------------------------- MODULE KParse --------------------------------
(***************************************************************************)
(* Reading Kconfig files: the statements of autogen/parser.y build the     *)
(* tree of entries, conf_parse turns it into the program, and the checks   *)
(* below compare the program with the text: what every entry depends on,   *)
(* where it stands, which symbols are in a choice, whether a recursive     *)
(* dependency is found, and whether the values depend on the order in      *)
(* which the symbols are evaluated.                                        *)
(***************************************************************************)
EXTENDS KMenu

CONSTANTS
  Statements,   \* records [sym, block, dep, vis, props] of the statements; block is
                \* "config", "choice", "if", "menu" or "comment"
  Optional,     \* the choices with `optional`
  ModulesSymbol,\* the symbol with `option modules`, or ""
  MaxEntries,   \* bound: entries in a file
  Ascending, Descending,   \* the symbols in two orders
  Answers       \* user values to evaluate with: functions from symbols to tristates

VARIABLES
  open,     \* the entries of the main menu and of the blocks the parser is in
  blocks,   \* the statements that began these blocks, as indexes of text
  text,     \* the statements read and the blocks around each
  program   \* what conf_parse returns; <<>> until the end of the file

vars == <<open, blocks, text, program>>

ChoiceSymbols == {t.sym : t \in {u \in Statements : u.block = "choice"}}
IsBlock(t) == t.block \notin {"config", "comment"}
-----------------------------------------------------------------------------
\* The entry of a statement, as its options build it.
EntryOf(t) ==
  LET Option(e, p) == IF p.type \in {"prompt", "menu", "comment"}
                        THEN menu_add_prompt(e, p.type, p.cond, open)
                        ELSE menu_add_prop(e, p.type, p.expr, p.cond)
  IN FoldLeft(Option, menu_add_visibility(menu_add_dep(Entry(t.sym), t.dep), t.vis), t.props)

Init ==
  /\ open = <<menu_add_prompt(Entry(""), "menu", Null, <<>>)>>
  /\ blocks = <<>>
  /\ text = <<>>
  /\ program = <<>>

\* menu_add_entry with the options, and menu_add_menu where a block begins. In a choice
\* stand only `config`, `if` and `comment` (stmt_list_in_choice).
Statement(t) ==
  /\ program = <<>> /\ Len(text) < MaxEntries
  /\ (\E i \in DOMAIN blocks : text[blocks[i]].t.block = "choice") => t.block \notin {"choice", "menu"}
  /\ text' = Append(text, [t |-> t, around |-> blocks])
  /\ IF IsBlock(t)
       THEN /\ open' = Append(open, EntryOf(t))
            /\ blocks' = Append(blocks, Len(text) + 1)
       ELSE /\ open' = [open EXCEPT ![Len(open)].kids = Append(@, EntryOf(t))]
            /\ blocks' = blocks
  /\ UNCHANGED program

\* menu_end_menu at `endif`, `endmenu` and `endchoice`.
EndBlock ==
  /\ program = <<>> /\ blocks # <<>>
  /\ open' = [Front(open) EXCEPT ![Len(open) - 1].kids = Append(@, Last(open))]
  /\ blocks' = Front(blocks)
  /\ UNCHANGED <<text, program>>

\* The end of the file (bound: not before MaxEntries statements).
EndFile ==
  /\ program = <<>> /\ blocks = <<>> /\ Len(text) = MaxEntries
  /\ program' = conf_parse(open[1], ChoiceSymbols, Optional, ModulesSymbol)
  /\ UNCHANGED <<open, blocks, text>>

Next == (\E t \in Statements : Statement(t)) \/ EndBlock \/ EndFile

Spec == Init /\ [][Next]_vars
-----------------------------------------------------------------------------
(* What the text says. *)

Parsed == program # <<>>
Listed == Tail(Preorder(program.tree))   \* the entries without the main menu

\* The dependency of the blocks a statement stands in; a choice stands for its own.
RECURSIVE Enclosing(_)
Enclosing(around) ==
  IF around = <<>> THEN Null ELSE
    LET t == text[Last(around)].t
    IN IF t.block = "choice" THEN Sym(t.sym) ELSE expr_alloc_and(Enclosing(Front(around)), t.dep)

\* `visible if` of the menus around holds for prompts.
Shown(around) == FoldLeft(LAMBDA e, i : expr_alloc_and(e, text[i].t.vis), Null, around)

\* The condition of property p of statement i.
Stated(i, p) ==
  LET t == text[i].t
      cond == expr_alloc_and(expr_alloc_and(Enclosing(text[i].around), t.dep), p.cond)
  IN rewrite_m(program.modules,
               IF p.type = "prompt" THEN expr_alloc_and(cond, Shown(text[i].around)) ELSE cond)

Evaluate(e, a) ==
  expr_calc_value(e, [s \in Symbols |-> [tri |-> a[s], str |-> CASE a[s] = no -> "n" [] a[s] = mod -> "m" [] OTHER -> "y"]])

InChoice(i, c) == \E b \in ToSet(text[i].around) : text[b].t.sym = c

\* No entry is lost, doubled or moved past another when blocks are flattened and submenus
\* are made, and every property holds under exactly what the text says: its own condition,
\* the dependencies of its entry and of the blocks around it, and for prompts the
\* visibility of the menus; a bool member of a tristate choice only while the choice is y (one
\* with several entries in the choice is left out: just one of them gets this condition).
\* For symbols that are not tristate only "not n" counts.
AsStated(i, p, got, a) ==
  LET s == text[i].t.sym
      choice == program.choice[s]
      member == s # "" /\ choice # "" /\ InChoice(i, choice)
      twice == \E h \in DOMAIN text \ {i} : text[h].t.sym = s /\ InChoice(h, choice)
      only == member /\ TypeOf(choice) = "tri" /\ TypeOf(s) # "tri" /\ a[choice] # yes
      Agrees(said) == IF s = "" \/ TypeOf(s) = "tri" THEN said = got ELSE said = no <=> got = no
  IN \/ member /\ twice
     \/ Agrees(IF only THEN no ELSE Evaluate(Stated(i, p), a))
ConditionsAreStated ==
  Parsed =>
    /\ [i \in DOMAIN Listed |-> Listed[i].sym] = [i \in DOMAIN text |-> text[i].t.sym]
    /\ \A i \in DOMAIN text : \A j \in DOMAIN text[i].t.props : \A a \in Answers :
         AsStated(i, text[i].t.props[j], Evaluate(Listed[i].props[j].vis, a), a)
-----------------------------------------------------------------------------
(* Recursive dependencies. *)

Depends(s) == UNION {ToSet(SymbolsOf(e)) : e \in ToSet(Dependencies(program, s))}

\* A choice and its members are one; that a choice and its members need each other is
\* meant so, that two members do is not.
Unit(s) == IF program.choice[s] # "" THEN program.choice[s] ELSE s
Edges ==
  {<<Unit(p[1]), Unit(p[2])>> : p \in
    {q \in Symbols \X Symbols :
       /\ q[2] \in Depends(q[1])
       /\ Unit(q[1]) = Unit(q[2]) => program.choice[q[2]] # "" \/ program.choice[q[1]] = ""}}

\* Some symbols depend on themselves: from each of them leads an edge to one of them.
Cyclic ==
  LET edges == Edges
  IN \E S \in SUBSET Symbols : S # {} /\ \A u \in S : \E w \in S : <<u, w>> \in edges

\* sym_check_deps, started from the symbols in any order, reports a recursive dependency
\* exactly when a symbol depends on itself.
RecursionFound ==
  Parsed => \A order \in {Ascending, Descending} : Accepted(program, order) <=> ~Cyclic

\* Without one, the values and what is written do not depend on the order in which the
\* symbols are evaluated, whether they are answered or not.
UserState(a, has) == [Fresh EXCEPT !.def = [s \in Symbols |-> [tri |-> a[s], str |-> ""]], !.has = has]
OrderFree ==
  Parsed /\ ~Cyclic /\ ~Warned(program) =>
    \A st \in {UserState(a, Symbols) : a \in Answers} \cup {Fresh} :
      LET Same(up, down) == up.curr = down.curr /\ up.write = down.write
      IN Same(CalcAll(program, st, Ascending), CalcAll(program, st, Descending))

\* Whatever prompt is visible can be reached: every entry above it is visible too. Menus and
\* comments do not take the `visible if` of the menus around them; in a menu that it
\* hides only the symbols count.
RECURSIVE Reachable(_, _, _, _)
Reachable(st, e, above, hidden) ==
  LET From(shown, hides) ==
        /\ PromptVisible(program, st, e) /\ (e.sym = "" => ~hides) => above
        /\ \A i \in DOMAIN e.kids : Reachable(st, e.kids[i], shown, hides)
  IN From(above /\ menu_is_visible(program, st, e).v, hidden \/ Eval(program, st, e.vis).v = no)
PromptsReachable ==
  Parsed /\ ~Cyclic /\ ~Warned(program) => \A a \in Answers :
    Reachable(CalcAll(program, UserState(a, Symbols), Ascending), program.tree, TRUE, FALSE)
=============================================================================
