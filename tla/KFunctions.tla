------------------------------- MODULE KFunctions -------------------------------
(***************************************************************************)
(* The functions on expressions as sets of pairs: an operator of KRules    *)
(* says what a function makes of one node, given what it makes of others,  *)
(* and here a function on a set E of expressions is said to do that at     *)
(* every node.  The recursive operators of KExpr, tabulated, are such      *)
(* functions; KRulesProofs and KLevelProofs are about all of them.         *)
(***************************************************************************)
EXTENDS KRules

Strings == {Words[i] : i \in DOMAIN Words}

CONSTANT Names  \* the symbols that the files name, those with a type and constant ones

ASSUME NamesAssumption ==
  /\ DOMAIN Type \cup {"y", "m", "n"} \subseteq Names
  /\ Names \subseteq DOMAIN Type \cup Strings

\* E is the set of all expressions over the names whose weight w is at most bound. A
\* negation weighs twice its operand, so that pushing it down adds nothing. No operand is
\* the NULL pointer: expr_alloc_and, expr_alloc_or and the parser build none.
Expressions(E, w, bound) ==
  /\ bound \in Nat /\ bound >= 4
  /\ \A e \in E :
       \/ e[1] = "sym" /\ e[2] \in Names /\ e = Sym(e[2]) /\ w[e] = 1
       \/ e[1] \in Comparisons /\ {e[2], e[3]} \subseteq Names /\ e = <<e[1], e[2], e[3]>> /\ w[e] = 2
       \/ e[1] = "not" /\ e[2] \in E /\ e = <<"not", e[2]>> /\ w[e] = 2 * w[e[2]]
       \/ /\ e[1] \in {"and", "or"} /\ {e[2], e[3]} \subseteq E
          /\ e = <<e[1], e[2], e[3]>> /\ w[e] = w[e[2]] + w[e[3]] + 1
  /\ \A s \in Names : Sym(s) \in E
  /\ \A t \in Comparisons, s, c \in Names : <<t, s, c>> \in E
  /\ \A a \in E : 2 * w[a] <= bound => <<"not", a>> \in E
  /\ \A k \in 1..bound, t \in {"and", "or"} :
       \A a \in {x \in E : w[x] = k}, b \in {x \in E : w[x] + k < bound} : <<t, a, b>> \in E
  /\ w \in [E -> 1..bound]

\* What sym_calc_value leaves in a symbol, by its type.
Valuation(v) ==
  /\ DOMAIN v = DOMAIN Type
  /\ \A s \in DOMAIN Type :
       CASE Type[s] = "bool" -> <<v[s].tri, v[s].str>> \in {<<no, "n">>, <<yes, "y">>}
         [] Type[s] = "tri" -> <<v[s].tri, v[s].str>> \in {<<no, "n">>, <<mod, "m">>, <<yes, "y">>}
         [] OTHER -> v[s].tri = no /\ v[s].str \in Strings
NothingIsM(v) == \A s \in DOMAIN Type : v[s].tri # mod

\* val is expr_calc_value, T expr_transform, S expr_eliminate_yn, B expr_trans_bool, D
\* expr_depends_symbol with the symbol s, and C[t] expr_trans_compare with t and s.
Values(E, v, val) == \A e \in E : val[e] = calc_value(e, v, LAMBDA x : val[x])
Transforms(E, T) == \A e \in E : T[e] = transform(e, LAMBDA x : T[x])
SweepsYN(E, S) == \A e \in E : S[e] = eliminate_yn(e, LAMBDA x : S[x])
TransformsBool(E, B) == \A e \in E : B[e] = trans_bool(e, LAMBDA x : B[x])
Demands(E, s, D) == \A e \in E : D[e] <=> depends_symbol(e, s, LAMBDA x : D[x])
Compares(E, s, C) ==
  \A t \in {"eq", "ne"} : \A e \in E : C[t][e] = trans_compare(e, t, s, LAMBDA x, u : C[u][x])

\* Two properties of expressions: the only negations are those of a symbol; and every
\* operand that is a symbol is y, n, or a bool or tristate symbol.
negates_symbols(e, Of(_)) ==
  CASE e[1] \in {"and", "or"} -> Of(e[2]) /\ Of(e[3])
    [] e[1] = "not" -> e[2][1] = "sym" /\ e[2] \notin {Y, M, N}
    [] OTHER -> TRUE
no_operand_m(e, Of(_)) ==
  CASE e[1] \in {"and", "or"} -> Of(e[2]) /\ Of(e[3])
    [] e[1] = "not" -> Of(e[2])
    [] e[1] = "sym" -> e \in {Y, N} \/ TypeOf(e[2]) \in {"bool", "tri"}
    [] OTHER -> TRUE
Forms(E, form) == \A e \in E : form[e] <=> negates_symbols(e, LAMBDA x : form[x])
Plain(E, P) == \A e \in E : P[e] <=> no_operand_m(e, LAMBDA x : P[x])
-----------------------------------------------------------------------------
(* The levels of && and ||, and the functions that walk over their operands. *)

Levels == {"and", "or"}

\* O[type][e] is the list of operands of e at one level, R[type] is e with those of another
\* list l in their places, and V[type] is what that weighs.
Lists(E, O) ==
  \A type \in Levels : \A e \in E : O[type][e] = operands(type, e, LAMBDA x : O[type][x])
Rebuilds(E, O, R) ==
  \A type \in Levels : \A e \in E : \A l \in [1..Len(O[type][e]) -> E] :
    R[type][<<e, l>>] = with_operands(type, e, l, LAMBDA x : O[type][x], LAMBDA x, k : R[type][<<x, k>>])
weight(type, e, l, w, Ops(_), Of(_, _)) ==
  IF e[1] # type THEN w[l[1]] ELSE
    LET k == Len(Ops(e[2])) IN Of(e[2], SubSeq(l, 1, k)) + Of(e[3], SubSeq(l, k + 1, Len(l))) + 1
Weighs(E, w, O, V) ==
  \A type \in Levels : \A e \in E : \A l \in [1..Len(O[type][e]) -> E] :
    V[type][<<e, l>>] = weight(type, e, l, w, LAMBDA x : O[type][x], LAMBDA x, k : V[type][<<x, k>>])

\* x is what __expr_eliminate_eq makes of e1 and e2 when Q is expr_eq and it meets the pairs
\* of operands in the order p, with W[k] the lists after k of them. The order is not fixed.
EliminatePairOf(Q, type, s, p) == EliminatePair(type, s, p, LAMBDA a, b : Q[<<a, b>>])
EliminatesInOrder(O, R, Q, type, e1, e2, x, n, p, W) ==
  /\ n \in Nat /\ p \in [1..n -> (1..Len(O[type][e1])) \X (1..Len(O[type][e2]))]
  /\ W[0] = <<O[type][e1], O[type][e2]>>
  /\ \A k \in 1..n : W[k] = EliminatePairOf(Q, type, W[k - 1], p[k])
  /\ x = <<R[type][<<e1, W[n][1]>>], R[type][<<e2, W[n][2]>>]>>
EliminatesEq(O, R, Q, type, e1, e2, x) ==
  \E n, p, W : EliminatesInOrder(O, R, Q, type, e1, e2, x, n, p, W)

\* L[type] is __expr_eliminate_eq, Eliminated expr_eliminate_eq, and Q expr_eq.
Eliminated(L, S, e1, e2) == eliminate_eq(e1, e2, LAMBDA type, a, b : L[type][<<a, b>>], LAMBDA x : S[x])
EqualOf(L, S, Q, e1, e2) == equal(e1, e2, LAMBDA a, b : Q[<<a, b>>], LAMBDA a, b : Eliminated(L, S, a, b))
Eliminates(E, O, R, Q, L) ==
  \A type \in Levels : \A e1, e2 \in E : EliminatesEq(O, R, Q, type, e1, e2, L[type][<<e1, e2>>])
Equals(E, L, S, Q) == \A e1, e2 \in E : Q[<<e1, e2>>] <=> EqualOf(L, S, Q, e1, e2)
Equality(E, O, R, S, L, Q) == Eliminates(E, O, R, Q, L) /\ Equals(E, L, S, Q)

\* expr_join_or and expr_join_and.
JoinedOr(Q, e1, e2) == join_or(e1, e2, LAMBDA a, b : Q[<<a, b>>])
JoinedAnd(Q, e1, e2) == join_and(e1, e2, LAMBDA a, b : Q[<<a, b>>])
Joined(Q, type, e1, e2) == IF type = "or" THEN JoinedOr(Q, e1, e2) ELSE JoinedAnd(Q, e1, e2)

\* J is expr_eliminate_dups1: J[e].e what it makes of e, J[e].n how many operands it joins.
MeetPairOf(J, Q, type, s, p) == MeetPair(type, s, p, LAMBDA a : J[a], LAMBDA a, b : Joined(Q, type, a, b))
JoinsInOrder(O, R, Q, J, type, e, n, p, W) ==
  /\ n \in Nat /\ p \in [1..n -> (1..Len(O[type][e])) \X (1..Len(O[type][e]))]
  /\ W[0] = [ops |-> O[type][e], n |-> 0]
  /\ \A k \in 1..n : W[k] = MeetPairOf(J, Q, type, W[k - 1], p[k])
  /\ J[e] = [e |-> R[type][<<e, W[n].ops>>], n |-> W[n].n]
JoinsDups(E, O, R, Q, J) ==
  \A e \in E : e[1] \in Levels => \E n, p, W : JoinsInOrder(O, R, Q, J, e[1], e, n, p, W)

\* r is what expr_eliminate_dups makes of e: passes that join operands, each followed by a
\* sweep, until one joins none or there is no level left.
EliminatesDups(J, S, e, r) ==
  \E n \in Nat : \E P :
    /\ P[0] = e
    /\ \A k \in 1..n : P[k - 1][1] \in Levels /\ J[P[k - 1]].n # 0 /\ P[k] = S[J[P[k - 1]].e]
    /\ IF P[n][1] \in Levels THEN J[P[n]].n = 0 /\ r = J[P[n]].e ELSE r = P[n]
=============================================================================
