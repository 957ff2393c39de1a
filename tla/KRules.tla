-------------------------------- MODULE KRules --------------------------------
(***************************************************************************)
(* One level of the functions on the dependency expressions of the Kconfig *)
(* engine, scripts/kconfig/parser/expr.c: what each does with the node it  *)
(* is called for.  The calls it makes for the operands are the parameter   *)
(* Of; KExpr ties the recursion.                                           *)
(*   An expression is a tuple <<type, operands>>: <<"null">> is the NULL   *)
(* pointer, <<"sym", s>> E_SYMBOL, <<"not", e>>, <<"and", l, r>>,          *)
(* <<"or", l, r>>, and <<"eq", s1, s2>> (also "ne", "lt", "le", "gt",      *)
(* "ge") a comparison of two symbols.  A function of the code that rewrites*)
(* its argument in place is an operator that returns the new expression.   *)
(***************************************************************************)
EXTENDS Integers, Sequences

CONSTANT Type   \* the symbols that have a type: "bool", "tri", "int", "hex" or "string"

\* y, m and n are names of constant symbols, which sym_lookup never gives a type.
ASSUME TypeAssumption ==
  /\ \A s \in DOMAIN Type : Type[s] \in {"bool", "tri", "int", "hex", "string"}
  /\ DOMAIN Type \cap {"y", "m", "n"} = {}

\* The tristate values, and the constant symbols of these names.
no == 0
mod == 1
yes == 2
Tristate == {no, mod, yes}

EXPR_OR(a, b) == IF a > b THEN a ELSE b
EXPR_AND(a, b) == IF a < b THEN a ELSE b
EXPR_NOT(a) == 2 - a

TypeOf(s) == IF s \in DOMAIN Type THEN Type[s] ELSE "unknown"
IsConst(s) == s \notin DOMAIN Type

Null == <<"null">>
Sym(s) == <<"sym", s>>
Y == Sym("y")
M == Sym("m")
N == Sym("n")

Comparisons == {"eq", "ne", "lt", "le", "gt", "ge"}
-----------------------------------------------------------------------------
(* Values.  A valuation v gives each symbol with a type a record [tri, str]. *)

\* The strings of the model in the order of strcmp, and what strtoll makes of them in
\* base 10, 16 and 0: <<number>>, or <<>> where the string is no number to its end.
Words == <<"", "-1", "0x10", "0x5", "10", "5", "m", "n", "y">>
Rank(str) == CHOOSE i \in DOMAIN Words : Words[i] = str
Numbers(dec, hex, any) == [dec |-> dec, hex |-> hex, any |-> any]
Strtoll(str) ==
  CASE str = "-1" -> Numbers(<<-1>>, <<-1>>, <<-1>>)
    [] str = "0x10" -> Numbers(<<>>, <<16>>, <<16>>)
    [] str = "0x5" -> Numbers(<<>>, <<5>>, <<5>>)
    [] str = "10" -> Numbers(<<10>>, <<16>>, <<10>>)
    [] str = "5" -> Numbers(<<5>>, <<5>>, <<5>>)
    [] OTHER -> Numbers(<<>>, <<>>, <<>>)

\* A negative number that is compared as an unsigned one is above all others.
AsUnsigned(k) == IF k < 0 THEN 1000 + k ELSE k

ValTri(v, s) == CASE s \in DOMAIN v -> v[s].tri
                  [] s = "y" -> yes [] s = "m" -> mod [] OTHER -> no
ValStr(v, s) == IF s \in DOMAIN v THEN v[s].str ELSE s

\* The number a string stands for, by the type of its symbol; <<>> for k_string.
expr_parse_string(str, type) ==
  CASE type \in {"bool", "tri"} ->
         <<CASE str = "n" -> 0 [] str = "m" -> 1 [] str = "y" -> 2 [] OTHER -> -1>>
    [] OTHER -> Strtoll(str)[CASE type = "int" -> "dec" [] type = "hex" -> "hex" [] OTHER -> "any"]

\* What is compared: numbers if both have one, else the strings; two strings as such.
NumberOf(v, s, other) ==
  IF {TypeOf(s), TypeOf(other)} = {"string"} THEN <<>> ELSE expr_parse_string(ValStr(v, s), TypeOf(s))
Difference(str1, str2, k1, k2, hex) ==
  CASE k1 = <<>> \/ k2 = <<>> -> Rank(str1) - Rank(str2)
    [] k1 # <<>> /\ k2 # <<>> /\ hex -> AsUnsigned(k1[1]) - AsUnsigned(k2[1])
    [] OTHER -> k1[1] - k2[1]
Compare(v, s1, s2) ==
  Difference(ValStr(v, s1), ValStr(v, s2), NumberOf(v, s1, s2), NumberOf(v, s2, s1), "hex" \in {TypeOf(s1), TypeOf(s2)})

Holds(type, res) ==
  CASE type = "eq" -> res = 0
    [] type = "ne" -> res # 0
    [] type = "lt" -> res < 0
    [] type = "le" -> res <= 0
    [] type = "gt" -> res > 0
    [] type = "ge" -> res >= 0

calc_value(e, v, Of(_)) ==
  CASE e[1] = "null" -> yes
    [] e[1] = "sym" -> ValTri(v, e[2])
    [] e[1] = "and" -> EXPR_AND(Of(e[2]), Of(e[3]))
    [] e[1] = "or" -> EXPR_OR(Of(e[2]), Of(e[3]))
    [] e[1] = "not" -> EXPR_NOT(Of(e[2]))
    [] e[1] \in Comparisons -> IF Holds(e[1], Compare(v, e[2], e[3])) THEN yes ELSE no
-----------------------------------------------------------------------------
(* Removing and joining operands. *)

\* What an operand becomes that is dropped from a level of && or ||.
Gone(type) == IF type = "or" THEN N ELSE Y

\* expr && n -> n, expr && y -> expr, expr || n -> expr, expr || y -> y.
eliminate_yn(e, Of(_)) ==
  IF e[1] \notin {"and", "or"} THEN e ELSE
    LET unit == Gone(e[1])
        zero == IF e[1] = "and" THEN N ELSE Y
        Joined(l, r) ==
          CASE l = zero -> zero
            [] l = unit -> r
            [] r = zero -> zero
            [] r = unit -> l
            [] OTHER -> <<e[1], l, r>>
    IN Joined(Of(e[2]), Of(e[3]))

\* The operands of e at one level of && or ||, and e with other operands in their places.
operands(type, e, Of(_)) ==
  IF e[1] = type THEN Of(e[2]) \o Of(e[3]) ELSE <<e>>
with_operands(type, e, ops, Ops(_), Of(_, _)) ==
  IF e[1] # type THEN ops[1] ELSE
    LET k == Len(Ops(e[2]))
    IN <<type, Of(e[2], SubSeq(ops, 1, k)), Of(e[3], SubSeq(ops, k + 1, Len(ops)))>>

\* Mutant of Without: a common operand makes both expressions constant.
WithoutAny(type, s, p) ==
  <<[i \in DOMAIN s[1] |-> Gone(type)], [i \in DOMAIN s[2] |-> Gone(type)]>>

\* The levels s[1] and s[2] without their operands at p.
Without(type, s, p) ==
  <<[s[1] EXCEPT ![p[1]] = Gone(type)], [s[2] EXCEPT ![p[2]] = Gone(type)]>>

\* __expr_eliminate_eq meets the operands at p of the levels s[1] and s[2]; equal ones go.
EliminatePair(type, s, p, Eq(_, _)) ==
  LET a == s[1][p[1]]
      b == s[2][p[2]]
  IN IF (a = b /\ a \in {Y, N}) \/ ~Eq(a, b) THEN s ELSE Without(type, s, p)

\* Both expressions without the operands they have in common: of the level of the first,
\* then of the second where that is another one.
eliminate_eq(e1, e2, Level(_, _, _), Swept(_)) ==
  IF e1 = Null \/ e2 = Null THEN <<e1, e2>> ELSE
    LET Of(type, p) == IF type \in {"or", "and"} THEN Level(type, p[1], p[2]) ELSE p
        ThenOfOther(p) == IF p[1][1] # p[2][1] THEN Of(p[2][1], p) ELSE p
        Both(p) == <<Swept(p[1]), Swept(p[2])>>
    IN Both(ThenOfOther(Of(e1[1], <<e1, e2>>)))

equal(e1, e2, Eq(_, _), Eliminated(_, _)) ==
  CASE e1 = Null \/ e2 = Null -> {e1, e2} \subseteq {Null, Y}
    [] e1 # Null /\ e2 # Null /\ e1[1] # e2[1] -> FALSE
    [] e1[1] = e2[1] /\ e1[1] \in Comparisons \cup {"sym"} -> e1 = e2
    [] e1[1] = e2[1] /\ e1[1] = "not" -> Eq(e1[2], e2[2])
    [] e1[1] = e2[1] /\ e1[1] \in {"and", "or"} ->
         LET OneSymbol(r) == r[1][1] = "sym" /\ r[1] = r[2] IN OneSymbol(Eliminated(e1, e2))

\* The symbol an operand is about, if it is one that can be joined: a symbol, an
\* equation, or the negation of one of the given types.
JoinSymbol(e, negated) ==
  CASE e[1] \in {"eq", "ne", "sym"} -> <<e[2]>>
    [] e[1] = "not" /\ e[2][1] \in negated -> <<e[2][2]>>
    [] OTHER -> <<>>

\* The symbol that both operands of a join are about, or <<>>.
Joinable(e1, e2) ==
  LET s == JoinSymbol(e1, {"eq", "ne", "sym"})
  IN IF s # <<>> /\ s = JoinSymbol(e2, {"sym"}) /\ TypeOf(s[1]) \in {"bool", "tri"}
       THEN s ELSE <<>>

\* Two different constants of y, m and n leave one.
OtherConstant(e1, e2) == CHOOSE c \in {"y", "m", "n"} : c \notin {e1[3], e2[3]}
TwoConstants(type, e1, e2) ==
  /\ e1[1] = type /\ e2[1] = type
  /\ e1[3] # e2[3] /\ {e1[3], e2[3]} \subseteq {"y", "m", "n"}

\* e1 || e2 as one operand, Null if there is none.
join_or(e1, e2, Eq(_, _)) ==
  IF Eq(e1, e2) THEN e1 ELSE
    LET s == Joinable(e1, e2)
    IN CASE s = <<>> -> Null
         [] s # <<>> /\ TypeOf(s[1]) = "tri" /\ TwoConstants("eq", e1, e2) ->
              <<"ne", s[1], OtherConstant(e1, e2)>>
         [] s # <<>> /\ TypeOf(s[1]) = "bool" /\ {e1, e2} = {Sym(s[1]), <<"not", Sym(s[1])>>} -> Y
         [] OTHER -> Null

\* e1 && e2 as one operand, Null if there is none.
join_and(e1, e2, Eq(_, _)) ==
  IF Eq(e1, e2) THEN e1 ELSE
    LET s == Joinable(e1, e2)
        Are(a, b) == {e1, e2} = {a, b}
        a == s[1]
        \* (a=b) && (a!=c) -> b=c ? n : a=b
        OneOf(eq, ne) == IF eq[3] # ne[3] THEN eq ELSE N
    IN CASE s = <<>> -> Null
         [] s # <<>> /\ Are(Sym(a), <<"eq", a, "y">>) -> <<"eq", a, "y">>
         [] s # <<>> /\ Are(Sym(a), <<"ne", a, "n">>) -> Sym(a)
         [] s # <<>> /\ Are(Sym(a), <<"ne", a, "m">>) -> <<"eq", a, "y">>
         [] s # <<>> /\ TypeOf(a) = "tri" /\ e1[1] = "eq" /\ e2[1] = "ne"
              /\ IsConst(e1[3]) /\ IsConst(e2[3]) -> OneOf(e1, e2)
         [] s # <<>> /\ TypeOf(a) = "tri" /\ e1[1] = "ne" /\ e2[1] = "eq"
              /\ IsConst(e1[3]) /\ IsConst(e2[3]) -> OneOf(e2, e1)
         [] s # <<>> /\ TypeOf(a) = "tri" /\ TwoConstants("ne", e1, e2) ->
              <<"eq", a, OtherConstant(e1, e2)>>
         [] OTHER -> Null

\* expr_eliminate_dups1 meets the operands at p of the level s.ops: the first, which a pass
\* of its own has made inner.e of, is joined into the second, where there is a join.
JoinPair(type, s, p, inner, join) ==
  [ops |-> IF join = Null THEN [s.ops EXCEPT ![p[1]] = inner.e]
           ELSE [s.ops EXCEPT ![p[1]] = Gone(type), ![p[2]] = join],
   n |-> s.n + inner.n + (IF join = Null THEN 0 ELSE 1)]
MeetPair(type, s, p, Pass(_), Join(_, _)) ==
  LET Inner(a) == IF a[1] \in {"or", "and"} THEN Pass(a) ELSE [e |-> a, n |-> 0]
      Meet(inner) == JoinPair(type, s, p, inner, Join(inner.e, s.ops[p[2]]))
  IN IF p[1] = p[2] THEN s ELSE Meet(Inner(s.ops[p[1]]))
-----------------------------------------------------------------------------
(* Transformations. *)

\* tristate FOO!=n => FOO, also inside of &&, || and !.
trans_bool(e, Of(_)) ==
  CASE e[1] \in {"and", "or"} -> <<e[1], Of(e[2]), Of(e[3])>>
    [] e[1] = "not" -> <<"not", Of(e[2])>>
    [] e[1] = "ne" /\ TypeOf(e[2]) = "tri" /\ e[3] = "n" -> Sym(e[2])
    [] OTHER -> e

\* Mutant of Negated: the limit itself is lost.
NegatedLess(type) ==
  CASE type = "eq" -> "ne" [] type = "ne" -> "eq"
    [] type \in {"le", "lt"} -> "gt" [] type \in {"ge", "gt"} -> "lt"

Negated(type) ==
  CASE type = "eq" -> "ne" [] type = "ne" -> "eq"
    [] type = "le" -> "gt" [] type = "ge" -> "lt"
    [] type = "lt" -> "ge" [] type = "gt" -> "le"

\* An equation with a bool symbol on its left.
TransformEquation(e) ==
  LET is == Sym(e[2])
      isnot == <<"not", Sym(e[2])>>
  IN CASE TypeOf(e[2]) # "bool" -> e
       [] TypeOf(e[2]) = "bool" /\ e[3] = "n" -> IF e[1] = "eq" THEN isnot ELSE is
       [] TypeOf(e[2]) = "bool" /\ e[3] = "m" -> IF e[1] = "eq" THEN N ELSE Y
       [] TypeOf(e[2]) = "bool" /\ e[3] = "y" -> IF e[1] = "eq" THEN is ELSE isnot
       [] OTHER -> e

\* Pushes negations down to the symbols and reads bool equations as symbols.
transform(e, Of(_)) ==
  CASE e[1] \in {"and", "or"} -> <<e[1], Of(e[2]), Of(e[3])>>
    [] e[1] \in {"eq", "ne"} -> TransformEquation(e)
    [] e[1] = "not" ->
         LET Not(c) ==
               CASE c[1] = "not" -> Of(c[2])
                 [] c[1] \in Comparisons -> <<Negated(c[1]), c[2], c[3]>>
                 [] c[1] = "or" -> Of(<<"and", <<"not", c[2]>>, <<"not", c[3]>>>>)
                 [] c[1] = "and" -> Of(<<"or", <<"not", c[2]>>, <<"not", c[3]>>>>)
                 [] c = Y -> N
                 [] c = M -> M
                 [] c = N -> Y
                 [] OTHER -> <<"not", c>>
         IN Not(Of(e[2]))
    [] OTHER -> e

\* Does the expression demand that the symbol is not n?
depends_symbol(dep, s, Of(_)) ==
  CASE dep[1] = "and" -> Of(dep[2]) \/ Of(dep[3])
    [] dep[1] = "sym" -> dep[2] = s
    [] dep[1] = "eq" -> dep[2] = s /\ dep[3] \in {"y", "m"}
    [] dep[1] = "ne" -> dep[2] = s /\ dep[3] = "n"
    [] OTHER -> FALSE

\* The expression "e = s" ("e != s" for type "ne") with the comparison at the symbols.
trans_compare(e, type, s, Of(_, _)) ==
  LET Not(x) == IF type = "ne" THEN <<"not", x>> ELSE x
      l == Of(e[2], "eq")
      r == Of(e[3], "eq")
      dual == IF e[1] = "and" THEN "or" ELSE "and"
  IN CASE e = Null -> Not(Sym(s))
       [] e[1] \in {"and", "or"} ->
            CASE s = "y" -> Not(<<e[1], l, r>>) [] s = "n" -> Not(<<dual, l, r>>) [] OTHER -> Not(e)
       [] e[1] = "not" -> Of(e[2], IF type = "eq" THEN "ne" ELSE "eq")
       [] e[1] \in Comparisons ->
            CASE s = "m" -> IF type = "eq" THEN N ELSE Y
              [] (s = "y" /\ type = "eq") \/ (s = "n" /\ type = "ne") -> e
              [] OTHER -> <<"not", e>>
       [] e[1] = "sym" -> <<type, e[2], s>>
=============================================================================
