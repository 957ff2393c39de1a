------------------------------- MODULE KDepends -------------------------------
(***************************************************************************)
(* What the rewriting of KExpr promises.  The parser (autogen/parser.y,    *)
(* rules expr and symbol) builds the expressions of `depends on`, `if` and *)
(* `visible if` bottom up; its value stack is the state.  Every expression *)
(* it can hold, and every two of them, are checked under every valuation   *)
(* of the symbols against the values that expr_calc_value gives.           *)
(***************************************************************************)
EXTENDS KExpr, KFunctions

CONSTANTS
  Leaves,      \* symbols and comparisons that the files contain
  FewLeaves,   \* those that a third operand is taken from
  LastLeaves,  \* those that four operands are taken from
  Valuations   \* functions that give each symbol with a type a value

VARIABLE stack  \* the expressions the parser has reduced and not used yet

\* Bounds: at most three expressions wait, of four operands altogether.
MaxStack == 3
MaxOperands == 4

RECURSIVE Size(_)
Size(e) ==
  CASE e[1] \in {"and", "or"} -> Size(e[2]) + Size(e[3])
    [] e[1] = "not" -> Size(e[2])
    [] OTHER -> 1

Total == FoldLeft(LAMBDA n, e : n + Size(e), 0, stack)

RECURSIVE LeavesOf(_)
LeavesOf(e) ==
  CASE e[1] \in {"and", "or"} -> LeavesOf(e[2]) \cup LeavesOf(e[3])
    [] e[1] = "not" -> LeavesOf(e[2])
    [] OTHER -> {e}

\* The operands that may come after n others.
NextLeaves(n) ==
  CASE n < 2 -> Leaves
    [] n = 2 -> FewLeaves
    [] n = 3 -> IF \A i \in DOMAIN stack : LeavesOf(stack[i]) \subseteq LastLeaves THEN LastLeaves ELSE {}
-----------------------------------------------------------------------------
Init == stack = <<>>

\* expr: symbol, symbol = symbol and the other comparisons
ReduceOperand ==
  /\ Len(stack) < MaxStack /\ Total < MaxOperands
  /\ \E l \in NextLeaves(Total) : stack' = Append(stack, l)

\* expr: ! expr   (bound: not before a comparison or a second !, nor with four operands,
\* with three of them before the whole only)
ReduceNot ==
  /\ stack # <<>> /\ Last(stack)[1] \in {"sym", "and", "or"}
  /\ Total < MaxOperands /\ (Total = MaxOperands - 1 => Len(stack) = 1)
  /\ stack' = Append(Front(stack), <<"not", Last(stack)>>)

\* expr: expr || expr, expr && expr
ReduceTwo(type) ==
  /\ Len(stack) >= 2
  /\ stack' = Append(SubSeq(stack, 1, Len(stack) - 2), <<type, stack[Len(stack) - 1], stack[Len(stack)]>>)

Next == ReduceOperand \/ ReduceNot \/ ReduceTwo("or") \/ ReduceTwo("and")

Spec == Init /\ [][Next]_stack
-----------------------------------------------------------------------------
Value(e, v) == expr_calc_value(e, v)
Same(e1, e2) == \A v \in Valuations : Value(e1, v) = Value(e2, v)

\* Every expression is once alone on the stack, every two are once the only ones.
One(P(_)) == Len(stack) = 1 => P(stack[1])
Two(P(_, _)) == Len(stack) = 2 => P(stack[1], stack[2])

RECURSIVE NegatesSymbolsOnly(_)
NegatesSymbolsOnly(e) == negates_symbols(e, NegatesSymbolsOnly)

\* expr_transform and expr_eliminate_dups, which menu_finalize applies to every
\* dependency, keep its value n, m or y under all values of the symbols.
SimplifyKeepsValue ==
  One(LAMBDA e : LET Kept(t) == Same(e, t) /\ Same(e, expr_eliminate_dups(t)) IN Kept(expr_transform(e)))

\* expr_transform leaves no negation but of a symbol. This is what expr_trans_bool
\* relies on, which rewrites FOO!=n to FOO below a ! as well, where it would be wrong:
\* the dependencies of a bool symbol stay satisfied and unsatisfied as they were.
BoolKeepsTruth ==
  One(LAMBDA e :
    LET SameTruth(t) == \A v \in Valuations : Value(e, v) = no <=> Value(t, v) = no
        Kept(t) == NegatesSymbolsOnly(t) /\ SameTruth(expr_trans_bool(t))
    IN Kept(expr_eliminate_dups(expr_transform(e))))

\* expr_trans_compare reads !A as A=n, which is not so where A is m. The two tests that
\* use it are right as long as nothing is m: no tristate symbol, and no operand m.
TwoValued == {v \in Valuations : NothingIsM(v)}
RECURSIVE NoM(_)
NoM(e) == no_operand_m(e, NoM)

\* Expressions that expr_eq calls equal have the same value; an expression equals
\* itself, and equality is symmetric. The search for common operands rewrites both
\* copies while it compares them.
EqualMeansSame ==
  /\ One(LAMBDA e : expr_eq(e, e))
  /\ Two(LAMBDA e1, e2 : /\ expr_eq(e1, e2) => Same(e1, e2)
                         /\ expr_eq(e1, e2) <=> expr_eq(e2, e1))

\* The two tests by which menu_finalize puts an entry into the submenu of a symbol: an
\* expression that expr_depends_symbol says depends on a symbol is n while the symbol is
\* n; and when expr_eliminate_eq leaves nothing of the first dependency (both in the form
\* e != n), every configuration that shows the entry shows the symbol above it.
SubmenuImplies ==
  /\ One(LAMBDA e : \A s \in DOMAIN Type : expr_depends_symbol(e, s) =>
       \A v \in Valuations : Value(e, v) # no => v[s].tri # no)
  /\ Two(LAMBDA e1, e2 : NoM(e1) /\ NoM(e2) =>
       LET Form(e) == expr_eliminate_dups(expr_transform(expr_trans_compare(e, "ne", "n")))
       IN expr_is_yes(expr_eliminate_eq(Form(e1), Form(e2))[2]) =>
            \A v \in TwoValued : Value(e1, v) # no => Value(e2, v) # no)
=============================================================================
