------------------------------- MODULE MCKParse -------------------------------
(* An instance of KParse for TLC. *)
EXTENDS KParse

\* A, B bool, T tristate, C a tristate choice
Types == [s \in {"A", "B", "T", "C"} |-> IF s \in {"T", "C"} THEN "tri" ELSE "bool"]

Prompt(c) == [type |-> "prompt", expr |-> Null, cond |-> c]
Default(e, c) == [type |-> "default", expr |-> e, cond |-> c]
Imply(s, c) == [type |-> "imply", expr |-> Sym(s), cond |-> c]
Select(s, c) == [type |-> "select", expr |-> Sym(s), cond |-> c]
Config(s, dep, props) == [sym |-> s, block |-> "config", dep |-> dep, vis |-> Null, props |-> props]
Blk(b, s, dep, vis, props) == [sym |-> s, block |-> b, dep |-> dep, vis |-> vis, props |-> props]
Not(e) == <<"not", e>>

Vocabulary ==
  {Config("A", Null, <<Prompt(Null), Imply("B", Null)>>),
   Config("A", <<"or", Sym("B"), Sym("T")>>, <<Prompt(Sym("B")), Default(Y, M)>>),
   Config("B", Sym("A"), <<Prompt(Null), Select("T", Null)>>),
   Config("T", Not(Sym("A")), <<Prompt(M), Default(Y, Null)>>),
   Blk("if", "", <<"ne", "T", "n">>, Null, <<>>),
   Blk("menu", "", Null, Sym("B"), <<[type |-> "menu", expr |-> Null, cond |-> Null]>>),
   Blk("choice", "C", Null, Null, <<Prompt(Null), Default(Sym("B"), Null)>>)}

Up == <<"A", "B", "C", "T">>
Down == <<"T", "C", "B", "A">>
\* Every two of A, B and T have every two of their values.
Answer(a, b, t) ==
  [s \in {"A", "B", "T", "C"} |-> CASE s = "A" -> a [] s = "B" -> b [] OTHER -> t]
SomeAnswers ==
  {Answer(a, IF t = mod THEN 2 - a ELSE a, t) : a \in {no, yes}, t \in Tristate}
=============================================================================
