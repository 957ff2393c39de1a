------------------------------ MODULE MCKSession ------------------------------
(* An instance of KSession for TLC: small Kconfig files. *)
EXTENDS KSession

\* A, B bool, T tristate, C a choice with the members P and Q, I hex
Names == {"A", "B", "T", "C", "P", "Q", "I"}
Types == [s \in Names |-> CASE s \in {"A", "B"} -> "bool" [] s = "I" -> "hex" [] OTHER -> "tri"]

Prompt(c) == [type |-> "prompt", expr |-> Null, vis |-> c]
Menu(c) == [type |-> "menu", expr |-> Null, vis |-> c]
Default(e, c) == [type |-> "default", expr |-> e, vis |-> c]
Select(s) == [type |-> "select", expr |-> Sym(s), vis |-> Null]
Imply(s) == [type |-> "imply", expr |-> Sym(s), vis |-> Null]
Limits(low, high) == [type |-> "range", expr |-> <<"range", low, high>>, vis |-> Null]
E(s, dep, props, kids) == [sym |-> s, dep |-> dep, vis |-> Null, props |-> props, kids |-> kids]
Main(kids) == E("", Null, <<Menu(Null)>>, kids)
File(kids, choices, optional, modules, ord) ==
  [root |-> Main(kids), choices |-> choices, optional |-> optional, modules |-> modules, order |-> ord]

\* modules, a tristate symbol, numbers below it
Plain == File(<<E("A", Null, <<Prompt(Null)>>, <<>>),
                E("T", Null, <<Prompt(Null), Default(M, Null)>>, <<>>),
                E("B", Sym("T"), <<Prompt(Null), Default(Y, <<"eq", "T", "y">>)>>, <<>>),
                E("I", Sym("B"), <<Prompt(Null), Limits("0x5", "0x10"), Default(Sym("0x10"), Null)>>, <<>>)>>,
              {}, {}, "A", <<"I", "B", "T", "A">>)

\* a choice without modules; a member that depends on another symbol, one with a submenu
Choice == File(<<E("C", Null, <<Prompt(Null), Default(Sym("Q"), Null)>>,
                   <<E("P", Null, <<Prompt(Null)>>, <<>>),
                     E("B", Sym("P"), <<Prompt(Null)>>, <<>>),
                     E("Q", Sym("A"), <<Prompt(Null)>>, <<>>)>>),
                 E("A", Null, <<Prompt(Null), Default(Y, Null)>>, <<>>)>>,
               {"C"}, {}, "", <<"A", "B", "C", "P", "Q">>)

\* an optional choice with modules
TriChoice == File(<<E("A", Null, <<Prompt(Null)>>, <<>>),
                    E("C", Null, <<Prompt(Null)>>,
                      <<E("P", Null, <<Prompt(Null)>>, <<>>),
                        E("Q", Null, <<Prompt(Null)>>, <<>>)>>)>>,
                  {"C"}, {"C"}, "A", <<"Q", "P", "C", "A">>)

\* a menu, a symbol selected and implied with an entry below it; what the menu
\* asks for depends on what comes after it
Menus == File(<<E("", Null, <<Menu(Null)>>,
                  <<E("T", Null, <<Prompt(Sym("B"))>>, <<>>),
                    E("I", Sym("T"), <<Prompt(Null), Default(Sym("0x10"), Null)>>, <<>>)>>),
                E("A", Null, <<Prompt(Null), Select("T")>>, <<>>),
                E("B", Null, <<Prompt(Null), Imply("T")>>, <<>>)>>,
              {}, {}, "", <<"A", "B", "T", "I">>)

\* a choice whose members all depend on another symbol, and a symbol to ask for
Hidden == File(<<E("B", Null, <<Prompt(Null)>>, <<>>),
                 E("C", Null, <<Prompt(Null)>>, <<E("P", Sym("A"), <<Prompt(Null)>>, <<>>)>>),
                 E("A", Null, <<Prompt(Null)>>, <<>>)>>,
               {"C"}, {}, "", <<"A", "B", "C", "P">>)

\* a choice of bool symbols with a default, below a symbol that hides it
BoolChoice == File(<<E("T", Null, <<Prompt(Null), Default(Y, Null)>>, <<>>),
                     E("C", Sym("T"), <<Prompt(Null), Default(Sym("B"), Null)>>,
                       <<E("A", Null, <<Prompt(Null)>>, <<>>),
                         E("B", Null, <<Prompt(Null)>>, <<>>)>>)>>,
                   {"C"}, {}, "", <<"B", "T", "A", "C">>)

All == <<Plain, Choice, TriChoice, Menus, Hidden, BoolChoice>>
Typed == {"5", "10"}
Dice == {[s \in Names |-> no], [s \in Names |-> yes],
         [s \in Names |-> IF s \in {"A", "C", "Q"} THEN yes ELSE mod]}
=============================================================================
