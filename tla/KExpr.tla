-------------------------------- MODULE KExpr --------------------------------
(***************************************************************************)
(* The functions on the dependency expressions of the Kconfig engine,      *)
(* scripts/kconfig/parser/expr.c: how expressions are built, evaluated,    *)
(* compared and rewritten.  What a function does with one node of an       *)
(* expression is an operator of KRules, which takes the calls for the      *)
(* operands as a parameter; here they are the function itself.             *)
(***************************************************************************)
EXTENDS KRules, SequencesExt, TLC

\* What Do makes of x, which is computed first, and once.
With(x, Do(_)) == CHOOSE done \in {Do(it) : it \in {x}} : TRUE

\* What Do makes of s with each element of seq, one after the other.
Through(Do(_, _), s, seq) == FoldLeft(LAMBDA u, x : With(u, LAMBDA t : Do(t, x)), s, seq)

expr_alloc_and(e1, e2) ==
  IF e1 = Null THEN e2 ELSE IF e2 = Null THEN e1 ELSE <<"and", e1, e2>>
expr_alloc_or(e1, e2) ==
  IF e1 = Null THEN e2 ELSE IF e2 = Null THEN e1 ELSE <<"or", e1, e2>>

expr_is_yes(e) == e \in {Null, Y}
expr_is_no(e) == e = N

RECURSIVE expr_calc_value(_, _)
expr_calc_value(e, v) == calc_value(e, v, LAMBDA x : expr_calc_value(x, v))
-----------------------------------------------------------------------------
(* Removing operands. *)

RECURSIVE expr_eliminate_yn(_)
expr_eliminate_yn(e) == eliminate_yn(e, expr_eliminate_yn)

RECURSIVE Operands(_, _)
Operands(type, e) == operands(type, e, LAMBDA x : Operands(type, x))

RECURSIVE WithOperands(_, _, _)
WithOperands(type, e, ops) ==
  with_operands(type, e, ops, LAMBDA x : Operands(type, x), LAMBDA x, l : WithOperands(type, x, l))

\* Two nested walks over m and n operands; Step is what happens where they meet a pair.
WalkPairs(m, n, s, Step(_, _)) ==
  LET Inner(u, i) == Through(LAMBDA t, j : Step(t, <<i, j>>), u, [j \in 1..n |-> j])
  IN Through(Inner, s, [i \in 1..m |-> i])

RECURSIVE expr_eq(_, _)

\* __expr_eliminate_eq: every operand of e1 against every operand of e2; equal ones go.
EliminateEqOf(type, e1, e2) ==
  LET ops1 == Operands(type, e1)
      ops2 == Operands(type, e2)
      Step(s, p) == EliminatePair(type, s, p, expr_eq)
      Rebuilt(s) == <<WithOperands(type, e1, s[1]), WithOperands(type, e2, s[2])>>
  IN Rebuilt(WalkPairs(Len(ops1), Len(ops2), <<ops1, ops2>>, Step))

expr_eliminate_eq(e1, e2) == eliminate_eq(e1, e2, EliminateEqOf, expr_eliminate_yn)
expr_eq(e1, e2) == equal(e1, e2, expr_eq, expr_eliminate_eq)
-----------------------------------------------------------------------------
(* Joining operands. *)

RECURSIVE expr_trans_bool(_)
\* Mutant of expr_trans_bool: the constant is not looked at.
TransBoolAny(e) ==
  CASE e[1] \in {"and", "or"} -> <<e[1], expr_trans_bool(e[2]), expr_trans_bool(e[3])>>
    [] e[1] = "not" -> <<"not", expr_trans_bool(e[2])>>
    [] e[1] = "ne" /\ TypeOf(e[2]) = "tri" -> Sym(e[2])
    [] OTHER -> e
expr_trans_bool(e) == trans_bool(e, expr_trans_bool)

expr_join_or(e1, e2) == join_or(e1, e2, expr_eq)
expr_join_and(e1, e2) == join_and(e1, e2, expr_eq)

\* One pass over all pairs of operands of e (expr_eliminate_dups1 with e for both
\* trees); n counts the joins.
RECURSIVE expr_eliminate_dups1(_, _)
expr_eliminate_dups1(type, e) ==
  LET ops == Operands(type, e)
      Join(a, b) == IF type = "or" THEN expr_join_or(a, b) ELSE expr_join_and(a, b)
      Step(s, p) == MeetPair(type, s, p, LAMBDA a : expr_eliminate_dups1(a[1], a), Join)
      Rebuilt(s) == [e |-> WithOperands(type, e, s.ops), n |-> s.n]
  IN Rebuilt(WalkPairs(Len(ops), Len(ops), [ops |-> ops, n |-> 0], Step))

\* Passes until one joins nothing; y and n are swept out after each of the others.
RECURSIVE expr_eliminate_dups(_)
expr_eliminate_dups(e) ==
  IF e[1] \notin {"or", "and"} THEN e ELSE
    LET After(pass) == IF pass.n = 0 THEN pass.e ELSE expr_eliminate_dups(expr_eliminate_yn(pass.e))
    IN After(expr_eliminate_dups1(e[1], e))
-----------------------------------------------------------------------------
(* Transformations. *)

RECURSIVE expr_transform(_)
expr_transform(e) == transform(e, expr_transform)

RECURSIVE expr_contains_symbol(_, _)
expr_contains_symbol(dep, s) ==
  CASE dep[1] \in {"and", "or"} -> expr_contains_symbol(dep[2], s) \/ expr_contains_symbol(dep[3], s)
    [] dep[1] = "sym" -> dep[2] = s
    [] dep[1] \in Comparisons -> s \in {dep[2], dep[3]}
    [] dep[1] = "not" -> expr_contains_symbol(dep[2], s)
    [] OTHER -> FALSE

RECURSIVE expr_depends_symbol(_, _)
\* Mutant of expr_depends_symbol: one operand of || is enough.
DependsOnEither(dep, s) ==
  CASE dep[1] \in {"and", "or"} -> expr_depends_symbol(dep[2], s) \/ expr_depends_symbol(dep[3], s)
    [] dep[1] = "sym" -> dep[2] = s
    [] OTHER -> FALSE
expr_depends_symbol(dep, s) == depends_symbol(dep, s, LAMBDA x : expr_depends_symbol(x, s))

RECURSIVE expr_trans_compare(_, _, _)
expr_trans_compare(e, type, s) ==
  trans_compare(e, type, s, LAMBDA x, t : expr_trans_compare(x, t, s))
=============================================================================
