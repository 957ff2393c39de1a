----------------------------- MODULE KRulesProofs -----------------------------
(***************************************************************************)
(* Theorems about the functions of KRules that look at one node of an      *)
(* expression at a time: expr_transform, expr_eliminate_yn,                *)
(* expr_trans_bool, expr_join_or, expr_join_and, expr_depends_symbol and   *)
(* expr_trans_compare.  They hold on every set E of expressions of bounded *)
(* weight (Expressions) and for every valuation v of the symbols, val      *)
(* being what expr_calc_value gives.  Each is shown by the least           *)
(* counterexample: an expression of least weight that breaks it, all of    *)
(* whose parts, and all lighter expressions made on the way, obey it.      *)
(***************************************************************************)
EXTENDS KFunctions, WellFoundedInduction, TLAPS
-----------------------------------------------------------------------------
\* A set of expressions that is not empty has one of least weight.
LEMMA LeastWeight ==
  ASSUME NEW E, NEW w \in [E -> Nat], NEW B, B \subseteq E, B # {}
  PROVE \E x \in B : \A y \in B : w[x] <= w[y]
<1> DEFINE W == {w[y] : y \in B}
           R == OpToRel(<, Nat)
<1>1. W \subseteq Nat /\ W # {}
  OBVIOUS
<1>2. \A m, n \in Nat : <<m, n>> \in R <=> m < n
  BY DEF OpToRel
<1>3. IsWellFoundedOn(R, Nat)
  BY NatLessThanWellFounded
<1>4. PICK n \in W : \A m \in W : ~ (<<m, n>> \in R)
  <2> HIDE DEF W, R
  <2> QED BY <1>1, <1>3, WFMin
<1>5. PICK x \in B : n = w[x]
  BY <1>4
<1>6. \A y \in B : w[x] <= w[y]
  <2> TAKE y \in B
  <2>1. w[y] \in W /\ w[y] \in Nat /\ w[x] \in Nat
    OBVIOUS
  <2>2. ~(<<w[y], w[x]>> \in R)
    BY <2>1, <1>4, <1>5
  <2> HIDE DEF R
  <2>3. ~(w[y] < w[x])
    BY <2>1, <2>2, <1>2
  <2> QED BY <2>1, <2>3
<1> QED BY <1>6

\* The comparisons are no other type of node, and Negated turns each into its contrary.
LEMMA SixComparisons ==
  /\ \A t \in Comparisons : t \notin {"null", "sym", "not", "and", "or"}
  /\ \A t \in Comparisons : Negated(t) \in Comparisons
  /\ \A t \in Comparisons, r \in Int : Holds(Negated(t), r) <=> ~Holds(t, r)
BY DEF Comparisons, Negated, Holds

\* The strings of the model, spelled out.
LEMMA TheStrings == Strings = {"", "-1", "0x10", "0x5", "10", "5", "m", "n", "y"}
<1>1. DOMAIN Words = 1..9
  BY DEF Words
<1>2. \A i \in 1..9 : i \in {1, 2, 3, 4, 5, 6, 7, 8, 9}
  OBVIOUS
<1>3. /\ Words[1] = "" /\ Words[2] = "-1" /\ Words[3] = "0x10" /\ Words[4] = "0x5" /\ Words[5] = "10"
      /\ Words[6] = "5" /\ Words[7] = "m" /\ Words[8] = "n" /\ Words[9] = "y"
  BY DEF Words
<1> HIDE DEF Words
<1>4. ASSUME NEW a \in Strings PROVE a \in {"", "-1", "0x10", "0x5", "10", "5", "m", "n", "y"}
  <2>1. PICK i \in 1..9 : a = Words[i]
    BY <1>1 DEF Strings
  <2> QED BY <2>1, <1>2, <1>3
<1>5. \A i \in 1..9 : Words[i] \in Strings
  BY <1>1 DEF Strings
<1>6. {Words[1], Words[2], Words[3], Words[4], Words[5], Words[6], Words[7], Words[8], Words[9]} \subseteq Strings
  BY <1>5
<1> QED BY <1>3, <1>4, <1>6

\* Rank finds the place of a string.
LEMMA RankIsAnOrder ==
  \A a \in Strings : Rank(a) \in 1..9 /\ Words[Rank(a)] = a
<1> TAKE a \in Strings
<1>1. PICK i \in DOMAIN Words : Words[i] = a
  BY DEF Strings
<1>2. Rank(a) \in DOMAIN Words /\ Words[Rank(a)] = a
  BY <1>1 DEF Rank
<1>3. DOMAIN Words = 1..9
  BY DEF Words
<1> QED BY <1>2, <1>3

\* A bool or tristate symbol compares as equal with a constant of its own name only.
LEMMA EqualMeansSameString ==
  ASSUME NEW v, Valuation(v), NEW s \in DOMAIN Type, Type[s] \in {"bool", "tri"},
         NEW c \in Strings, c \notin DOMAIN Type
  PROVE /\ Compare(v, s, c) \in Int
        /\ Compare(v, s, c) = 0 <=> v[s].str = c
<1>1. /\ TypeOf(s) \in {"bool", "tri"} /\ TypeOf(c) = "unknown"
      /\ ValStr(v, s) = v[s].str /\ ValStr(v, c) = c
      /\ v[s].str \in {"n", "m", "y"}
  BY DEF TypeOf, ValStr, Valuation
<1>2. NumberOf(v, c, s) = Strtoll(c).any
  BY <1>1 DEF NumberOf, expr_parse_string
<1>3. /\ Strtoll(c).any \in {<<>>, <<-1>>, <<16>>, <<5>>, <<10>>}
      /\ c \in {"n", "m", "y"} => Strtoll(c).any = <<>>
  BY DEF Strtoll, Numbers
<1>4. NumberOf(v, s, c) \in {<<0>>, <<1>>, <<2>>}
  BY <1>1 DEF NumberOf, expr_parse_string
<1>5. "hex" \notin {TypeOf(s), TypeOf(c)}
  BY <1>1
<1>6. v[s].str \in Strings
  BY <1>1, TheStrings
<1>7. CASE Strtoll(c).any = <<>>
  <2>1. Compare(v, s, c) = Rank(v[s].str) - Rank(c)
    BY <1>7, <1>1, <1>2 DEF Compare, Difference
  <2> QED BY <2>1, <1>6, RankIsAnOrder
<1>8. CASE Strtoll(c).any # <<>>
  <2>1. c # v[s].str
    BY <1>8, <1>3, <1>1
  <2>2. Compare(v, s, c) = NumberOf(v, s, c)[1] - Strtoll(c).any[1]
    BY <1>8, <1>1, <1>2, <1>4, <1>5 DEF Compare, Difference
  <2>3. NumberOf(v, s, c)[1] \in 0..2 /\ Strtoll(c).any[1] \in {-1, 16, 5, 10}
    BY <1>3, <1>4, <1>8
  <2> QED BY <2>1, <2>2, <2>3
<1> QED BY <1>7, <1>8

\* Compare gives a number for any two names.
LEMMA CompareIsInt ==
  ASSUME NEW v, Valuation(v), NEW s \in Names, NEW c \in Names
  PROVE Compare(v, s, c) \in Int
<1>1. ASSUME NEW x \in Names PROVE ValStr(v, x) \in Strings
  BY <1>1, TheStrings, TypeAssumption, NamesAssumption DEF ValStr, Valuation
<1>2. ASSUME NEW x \in Names, NEW y \in Names
      PROVE NumberOf(v, x, y) = <<>> \/ (NumberOf(v, x, y) = <<NumberOf(v, x, y)[1]>> /\ NumberOf(v, x, y)[1] \in Int)
  <2>1. \A str : Strtoll(str).dec \in {<<>>, <<-1>>, <<10>>, <<5>>}
    BY DEF Strtoll, Numbers
  <2>2. \A str : Strtoll(str).hex \in {<<>>, <<-1>>, <<16>>, <<5>>}
    BY DEF Strtoll, Numbers
  <2>3. \A str : Strtoll(str).any \in {<<>>, <<-1>>, <<16>>, <<10>>, <<5>>}
    BY DEF Strtoll, Numbers
  <2>4. \A str, type : expr_parse_string(str, type) \in {<<>>, <<-1>>, <<0>>, <<1>>, <<2>>, <<16>>, <<10>>, <<5>>}
    BY <2>1, <2>2, <2>3 DEF expr_parse_string
  <2> QED BY <2>4 DEF NumberOf
<1>3. ASSUME NEW k \in Int PROVE AsUnsigned(k) \in Int
  BY DEF AsUnsigned
<1>4. Rank(ValStr(v, s)) - Rank(ValStr(v, c)) \in Int
  BY <1>1, RankIsAnOrder
<1> QED BY <1>2, <1>3, <1>4 DEF Compare, Difference

\* The four kinds of expressions in E.
LEMMA KindsOf ==
  ASSUME NEW E, NEW w, NEW bound, Expressions(E, w, bound), NEW e \in E
  PROVE \/ \E s \in Names : e = Sym(s) /\ w[e] = 1
        \/ \E t \in Comparisons, s, c \in Names : e = <<t, s, c>> /\ w[e] = 2
        \/ \E a \in E : e = <<"not", a>> /\ w[e] = 2 * w[a]
        \/ \E t \in {"and", "or"}, a, b \in E : e = <<t, a, b>> /\ w[e] = w[a] + w[b] + 1
  BY DEF Expressions

\* All symbols and all comparisons are in E.
LEMMA Leaves ==
  ASSUME NEW E, NEW w, NEW bound, Expressions(E, w, bound)
  PROVE /\ \A s \in Names : Sym(s) \in E /\ w[Sym(s)] = 1
        /\ \A t \in Comparisons, s, c \in Names : <<t, s, c>> \in E /\ w[<<t, s, c>>] = 2
<1>1. ASSUME NEW s \in Names PROVE Sym(s) \in E /\ w[Sym(s)] = 1
  BY SixComparisons, KindsOf DEF Expressions, Sym
<1>2. ASSUME NEW t \in Comparisons, NEW s \in Names, NEW c \in Names
      PROVE <<t, s, c>> \in E /\ w[<<t, s, c>>] = 2
  BY SixComparisons, KindsOf DEF Expressions, Sym
<1> QED BY <1>1, <1>2

\* A negation in E is of a lighter expression in E.
LEMMA PartsOfNot ==
  ASSUME NEW E, NEW w, NEW bound, Expressions(E, w, bound), NEW e \in E, NEW a, e = <<"not", a>>
  PROVE a \in E /\ w[a] \in Nat /\ w[e] \in Nat /\ w[a] < w[e] /\ w[e] = 2 * w[a] /\ w[e] <= bound /\ bound \in Nat
<1>1. w[e] \in 1..bound /\ bound \in Nat
  BY DEF Expressions
<1>2. a \in E /\ w[e] = 2 * w[a]
  BY SixComparisons, KindsOf DEF Sym
<1>3. w[a] \in 1..bound
  BY <1>2 DEF Expressions
<1> QED BY <1>1, <1>2, <1>3

\* The operands of && and || in E are lighter expressions in E.
LEMMA PartsOfTwo ==
  ASSUME NEW E, NEW w, NEW bound, Expressions(E, w, bound), NEW e \in E,
         NEW a, NEW b, NEW t \in {"and", "or"}, e = <<t, a, b>>
  PROVE /\ a \in E /\ b \in E /\ w[a] \in Nat /\ w[b] \in Nat /\ w[e] \in Nat
        /\ w[a] < w[e] /\ w[b] < w[e] /\ w[e] = w[a] + w[b] + 1 /\ w[e] <= bound /\ bound \in Nat
<1>1. w[e] \in 1..bound /\ bound \in Nat
  BY DEF Expressions
<1>2. a \in E /\ b \in E /\ w[e] = w[a] + w[b] + 1
  BY SixComparisons, KindsOf DEF Sym
<1>3. w[a] \in 1..bound /\ w[b] \in 1..bound
  BY <1>2 DEF Expressions
<1> QED BY <1>1, <1>2, <1>3

\* A negation that is light enough is in E.
LEMMA MakeNot ==
  ASSUME NEW E, NEW w, NEW bound, Expressions(E, w, bound), NEW a \in E, 2 * w[a] <= bound,
         NEW e, e = <<"not", a>>
  PROVE e \in E /\ w[e] = 2 * w[a]
<1>1. e \in E
  BY DEF Expressions
<1> QED BY <1>1, PartsOfNot

\* An expression of two operands that is light enough is in E.
LEMMA MakeTwo ==
  ASSUME NEW E, NEW w, NEW bound, Expressions(E, w, bound), NEW a \in E, NEW b \in E,
         NEW t \in {"and", "or"}, w[a] + w[b] + 1 <= bound, NEW e, e = <<t, a, b>>
  PROVE e \in E /\ w[e] = w[a] + w[b] + 1
<1>1. e \in E
  BY DEF Expressions
<1> QED BY <1>1, PartsOfTwo

\* expr_calc_value, kind by kind.
LEMMA ValueOf ==
  ASSUME NEW E, NEW v, NEW val, Values(E, v, val), NEW e \in E
  PROVE /\ \A s : e = Sym(s) => val[e] = ValTri(v, s)
        /\ \A t \in Comparisons : \A s, c : e = <<t, s, c>> => val[e] = IF Holds(t, Compare(v, s, c)) THEN 2 ELSE 0
        /\ \A a : e = <<"not", a>> => val[e] = 2 - val[a]
        /\ \A a, b : e = <<"and", a, b>> => val[e] = IF val[a] < val[b] THEN val[a] ELSE val[b]
        /\ \A a, b : e = <<"or", a, b>> => val[e] = IF val[a] > val[b] THEN val[a] ELSE val[b]
<1>1. val[e] = calc_value(e, v, LAMBDA x : val[x])
  BY DEF Values
<1>2. ASSUME NEW s, e = Sym(s) PROVE val[e] = ValTri(v, s)
  BY <1>1, <1>2, SixComparisons DEF calc_value, Sym
<1>3. ASSUME NEW t \in Comparisons, NEW s, NEW c, e = <<t, s, c>>
      PROVE val[e] = IF Holds(t, Compare(v, s, c)) THEN 2 ELSE 0
  BY <1>1, <1>3, SixComparisons DEF calc_value, yes, no
<1>4. ASSUME NEW a, e = <<"not", a>> PROVE val[e] = 2 - val[a]
  BY <1>1, <1>4, SixComparisons DEF calc_value, EXPR_NOT
<1>5. ASSUME NEW a, NEW b, e = <<"and", a, b>> PROVE val[e] = IF val[a] < val[b] THEN val[a] ELSE val[b]
  BY <1>1, <1>5, SixComparisons DEF calc_value, EXPR_AND
<1>6. ASSUME NEW a, NEW b, e = <<"or", a, b>> PROVE val[e] = IF val[a] > val[b] THEN val[a] ELSE val[b]
  BY <1>1, <1>6, SixComparisons DEF calc_value, EXPR_OR
<1> QED BY <1>2, <1>3, <1>4, <1>5, <1>6

\* Every expression is n, m or y.
LEMMA ValueIsTristate ==
  ASSUME NEW E, NEW w, NEW bound, Expressions(E, w, bound),
         NEW v, NEW val, Valuation(v), Values(E, v, val)
  PROVE \A e \in E : val[e] \in Tristate
<1> DEFINE Bad == {e \in E : val[e] \notin Tristate}
<1>1. SUFFICES ASSUME Bad # {} PROVE FALSE
  OBVIOUS
<1>2. w \in [E -> Nat]
  BY DEF Expressions
<1>3. PICK e \in Bad : \A y \in Bad : w[e] <= w[y]
  BY <1>1, <1>2, LeastWeight
<1>4. \A y \in E : w[y] < w[e] => val[y] \in Tristate
  BY <1>2, <1>3
<1>5. ASSUME NEW s \in Names, e = Sym(s) PROVE FALSE
  <2>1. val[e] = ValTri(v, s)
    BY <1>5, ValueOf
  <2>2. s \in DOMAIN Type => v[s].tri \in Tristate
    BY DEF Valuation, Tristate
  <2> QED BY <2>1, <2>2 DEF ValTri, Tristate, no, mod, yes, Valuation
<1>6. ASSUME NEW t \in Comparisons, NEW s \in Names, NEW c \in Names, e = <<t, s, c>> PROVE FALSE
  BY <1>6, ValueOf DEF Tristate, no, yes
<1>7. ASSUME NEW a \in E, e = <<"not", a>> PROVE FALSE
  <2>1. w[a] < w[e]
    BY <1>7, PartsOfNot
  <2>2. val[a] \in Tristate
    BY <2>1, <1>4
  <2> QED BY <1>7, <2>2, ValueOf DEF Tristate, no, mod, yes
<1>8. ASSUME NEW t \in {"and", "or"}, NEW a \in E, NEW b \in E, e = <<t, a, b>> PROVE FALSE
  <2>1. w[a] < w[e] /\ w[b] < w[e]
    BY <1>8, PartsOfTwo
  <2>2. val[a] \in Tristate /\ val[b] \in Tristate
    BY <2>1, <1>4
  <2> QED BY <1>8, <2>2, ValueOf DEF Tristate
<1> QED BY <1>5, <1>6, <1>7, <1>8, KindsOf

\* When a negation is one of a symbol only, kind by kind.
LEMMA FormOf ==
  ASSUME NEW E, NEW form, Forms(E, form), NEW e \in E
  PROVE /\ \A s : e = Sym(s) => form[e]
        /\ \A t \in Comparisons : \A s, c : e = <<t, s, c>> => form[e]
        /\ \A a : e = <<"not", a>> => (form[e] <=> a[1] = "sym" /\ a \notin {Y, M, N})
        /\ \A t \in {"and", "or"} : \A a, b : e = <<t, a, b>> => (form[e] <=> form[a] /\ form[b])
<1>1. form[e] <=> negates_symbols(e, LAMBDA x : form[x])
  BY DEF Forms
<1>2. ASSUME NEW s, e = Sym(s) PROVE form[e]
  BY <1>1, <1>2 DEF negates_symbols, Sym
<1>3. ASSUME NEW t \in Comparisons, NEW s, NEW c, e = <<t, s, c>> PROVE form[e]
  BY <1>1, <1>3, SixComparisons DEF negates_symbols
<1>4. ASSUME NEW a, e = <<"not", a>> PROVE form[e] <=> a[1] = "sym" /\ a \notin {Y, M, N}
  BY <1>1, <1>4 DEF negates_symbols
<1>5. ASSUME NEW t \in {"and", "or"}, NEW a, NEW b, e = <<t, a, b>> PROVE form[e] <=> form[a] /\ form[b]
  BY <1>1, <1>5 DEF negates_symbols
<1> QED BY <1>2, <1>3, <1>4, <1>5

\* y, m and n are constants, with the values of these names.
LEMMA TheConstants ==
  /\ \A c \in {"y", "m", "n"} : c \in Strings /\ c \in Names /\ c \notin DOMAIN Type
  /\ \A v : Valuation(v) => ValTri(v, "y") = 2 /\ ValTri(v, "m") = 1 /\ ValTri(v, "n") = 0
<1>1. \A c \in {"y", "m", "n"} : c \in Strings /\ c \in Names /\ c \notin DOMAIN Type
  BY TheStrings, TypeAssumption, NamesAssumption
<1>2. ASSUME NEW v, Valuation(v) PROVE ValTri(v, "y") = 2 /\ ValTri(v, "m") = 1 /\ ValTri(v, "n") = 0
  BY <1>1, <1>2 DEF Valuation, ValTri, yes, mod, no
<1> QED BY <1>1, <1>2

\* A bool equation read as a symbol, its negation or a constant has the same value.
LEMMA EquationKeepsValue ==
  ASSUME NEW E, NEW w, NEW bound, Expressions(E, w, bound),
         NEW v, NEW val, Valuation(v), Values(E, v, val), NEW form, Forms(E, form),
         NEW t \in {"eq", "ne"}, NEW s \in Names, NEW c \in Names, NEW r, r = TransformEquation(<<t, s, c>>)
  PROVE r \in E /\ w[r] \in Nat /\ w[r] <= 2 /\ val[r] = val[<<t, s, c>>] /\ form[r]
<1>1. t \in Comparisons /\ <<t, s, c>> \in E /\ w[<<t, s, c>>] = 2 /\ form[<<t, s, c>>]
  BY Leaves, FormOf DEF Comparisons
<1>2. CASE r = <<t, s, c>>
  BY <1>1, <1>2
<1>3. CASE r # <<t, s, c>>
  <2>1. TypeOf(s) = "bool" /\ c \in {"y", "m", "n"}
    BY <1>3 DEF TransformEquation
  <2>2. s \in DOMAIN Type /\ Type[s] = "bool"
    BY <2>1 DEF TypeOf
  <2>3. Compare(v, s, c) \in Int /\ (Compare(v, s, c) = 0 <=> v[s].str = c)
    BY <2>1, <2>2, TheConstants, EqualMeansSameString
  <2>4. <<v[s].tri, v[s].str>> \in {<<0, "n">>, <<2, "y">>}
    BY <2>2 DEF Valuation, no, yes
  <2>5. val[<<t, s, c>>] = IF t = "eq" <=> v[s].str = c THEN 2 ELSE 0
    <3>1. val[<<t, s, c>>] = IF Holds(t, Compare(v, s, c)) THEN 2 ELSE 0
      BY <1>1, ValueOf
    <3>2. Holds(t, Compare(v, s, c)) <=> (t = "eq" <=> v[s].str = c)
      BY <2>3 DEF Holds
    <3> QED BY <3>1, <3>2
  <2>6. Sym(s) \in E /\ w[Sym(s)] = 1 /\ form[Sym(s)] /\ val[Sym(s)] = v[s].tri
    <3>1. Sym(s) \in E /\ w[Sym(s)] = 1 /\ form[Sym(s)]
      BY Leaves, FormOf
    <3>2. val[Sym(s)] = ValTri(v, s)
      BY <3>1, ValueOf
    <3>3. ValTri(v, s) = v[s].tri
      <4>1. s \in DOMAIN v /\ s \notin {"y", "m", "n"}
        BY <2>2, TheConstants DEF Valuation
      <4> QED BY <4>1 DEF ValTri
    <3> QED BY <3>1, <3>2, <3>3
  <2>7. /\ <<"not", Sym(s)>> \in E /\ w[<<"not", Sym(s)>>] = 2 /\ form[<<"not", Sym(s)>>]
        /\ val[<<"not", Sym(s)>>] = 2 - v[s].tri
    <3>1. 2 * w[Sym(s)] <= bound
      BY <2>6 DEF Expressions
    <3>2. <<"not", Sym(s)>> \in E /\ w[<<"not", Sym(s)>>] = 2
      BY <2>6, <3>1, MakeNot
    <3>3. Sym(s)[1] = "sym" /\ Sym(s) \notin {Y, M, N}
      BY <2>2, TheConstants DEF Sym, Y, M, N
    <3> QED BY <2>6, <3>2, <3>3, FormOf, ValueOf
  <2>8. \A k \in {Y, M, N} : k \in E /\ w[k] = 1 /\ form[k]
    BY Leaves, FormOf, TheConstants DEF Y, M, N
  <2>9. val[Y] = 2 /\ val[N] = 0
    BY <2>8, ValueOf, TheConstants DEF Y, N
  <2>10. CASE c = "n"
    <3>1. r = IF t = "eq" THEN <<"not", Sym(s)>> ELSE Sym(s)
      BY <2>1, <2>10 DEF TransformEquation
    <3> QED BY <3>1, <2>10, <2>4, <2>5, <2>6, <2>7
  <2>11. CASE c = "m"
    <3>1. r = IF t = "eq" THEN N ELSE Y
      BY <2>1, <2>11 DEF TransformEquation
    <3> QED BY <3>1, <2>11, <2>4, <2>5, <2>8, <2>9
  <2>12. CASE c = "y"
    <3>1. r = IF t = "eq" THEN Sym(s) ELSE <<"not", Sym(s)>>
      BY <2>1, <2>12 DEF TransformEquation
    <3> QED BY <3>1, <2>12, <2>4, <2>5, <2>6, <2>7
  <2> QED BY <2>1, <2>10, <2>11, <2>12
<1> QED BY <1>2, <1>3

\* The laws of De Morgan on the three values.
LEMMA DeMorgan ==
  ASSUME NEW x \in Tristate, NEW y \in Tristate
  PROVE /\ (IF 2 - x < 2 - y THEN 2 - x ELSE 2 - y) = 2 - (IF x > y THEN x ELSE y)
        /\ (IF 2 - x > 2 - y THEN 2 - x ELSE 2 - y) = 2 - (IF x < y THEN x ELSE y)
        /\ 2 - (2 - x) = x
  BY DEF Tristate, no, mod, yes

\* What expr_transform makes of !a, when c is what it has made of a.
TransformNot(T, c) ==
  CASE c[1] = "not" -> T[c[2]]
    [] c[1] \in Comparisons -> <<Negated(c[1]), c[2], c[3]>>
    [] c[1] = "or" -> T[<<"and", <<"not", c[2]>>, <<"not", c[3]>>>>]
    [] c[1] = "and" -> T[<<"or", <<"not", c[2]>>, <<"not", c[3]>>>>]
    [] c = Y -> N
    [] c = M -> M
    [] c = N -> Y
    [] OTHER -> <<"not", c>>

\* expr_transform, kind by kind.
LEMMA TransformOf ==
  ASSUME NEW E, NEW T, Transforms(E, T), NEW e \in E
  PROVE /\ \A s : e = Sym(s) => T[e] = e
        /\ \A t \in Comparisons : \A s, c : e = <<t, s, c>> =>
             T[e] = IF t \in {"eq", "ne"} THEN TransformEquation(e) ELSE e
        /\ \A a : e = <<"not", a>> => T[e] = TransformNot(T, T[a])
        /\ \A t \in {"and", "or"} : \A a, b : e = <<t, a, b>> => T[e] = <<t, T[a], T[b]>>
<1>1. T[e] = transform(e, LAMBDA x : T[x])
  BY DEF Transforms
<1>2. ASSUME NEW s, e = Sym(s) PROVE T[e] = e
  BY <1>1, <1>2 DEF transform, Sym
<1>3. ASSUME NEW t \in Comparisons, NEW s, NEW c, e = <<t, s, c>>
      PROVE T[e] = IF t \in {"eq", "ne"} THEN TransformEquation(e) ELSE e
  BY <1>1, <1>3, SixComparisons DEF transform
<1>4. ASSUME NEW a, e = <<"not", a>> PROVE T[e] = TransformNot(T, T[a])
  BY <1>1, <1>4 DEF transform, TransformNot
<1>5. ASSUME NEW t \in {"and", "or"}, NEW a, NEW b, e = <<t, a, b>> PROVE T[e] = <<t, T[a], T[b]>>
  BY <1>1, <1>5 DEF transform
<1> QED BY <1>2, <1>3, <1>4, <1>5

\* expr_transform keeps the value of every expression under all values of the symbols,
\* makes it no heavier, and leaves no negation but of a symbol.
THEOREM TransformKeepsValue ==
  ASSUME NEW E, NEW w, NEW bound, Expressions(E, w, bound),
         NEW v, NEW val, Valuation(v), Values(E, v, val), NEW form, Forms(E, form),
         NEW T, Transforms(E, T)
  PROVE \A e \in E : T[e] \in E /\ w[T[e]] <= w[e] /\ val[T[e]] = val[e] /\ form[T[e]]
<1> DEFINE Good(e) == T[e] \in E /\ w[T[e]] <= w[e] /\ val[T[e]] = val[e] /\ form[T[e]]
           Bad == {e \in E : ~Good(e)}
<1>1. SUFFICES ASSUME Bad # {} PROVE FALSE
  OBVIOUS
<1>2. w \in [E -> Nat] /\ bound \in Nat /\ (\A e \in E : w[e] <= bound) /\ 4 <= bound
  BY DEF Expressions
<1>3. PICK e \in Bad : \A y \in Bad : w[e] <= w[y]
  BY <1>1, <1>2, LeastWeight
<1>4. ASSUME NEW y \in E, w[y] < w[e] PROVE Good(y)
  BY <1>2, <1>3, <1>4
<1>5. e \in E /\ ~Good(e)
  OBVIOUS
<1>v. \A x \in E : val[x] \in Tristate
  BY ValueIsTristate
<1> HIDE DEF Bad
<1>6. ASSUME NEW s \in Names, e = Sym(s) PROVE Good(e)
  <2>1. T[e] = e
    BY <1>5, <1>6, TransformOf
  <2>2. form[e]
    BY <1>5, <1>6, FormOf
  <2> QED BY <1>2, <1>5, <2>1, <2>2
<1>7. ASSUME NEW t \in Comparisons, NEW s \in Names, NEW c \in Names, e = <<t, s, c>> PROVE Good(e)
  <2>1. T[e] = IF t \in {"eq", "ne"} THEN TransformEquation(e) ELSE e
    BY <1>5, <1>7, TransformOf
  <2>2. w[e] = 2 /\ form[e]
    BY <1>5, <1>7, Leaves, FormOf
  <2>3. CASE t \in {"eq", "ne"}
    BY <1>7, <2>1, <2>2, <2>3, EquationKeepsValue
  <2>4. CASE t \notin {"eq", "ne"}
    BY <1>5, <2>1, <2>2, <2>4
  <2> QED BY <2>3, <2>4
<1>8. ASSUME NEW t \in {"and", "or"}, NEW a \in E, NEW b \in E, e = <<t, a, b>> PROVE Good(e)
  <2>1. /\ w[a] < w[e] /\ w[b] < w[e] /\ w[e] = w[a] + w[b] + 1 /\ w[e] <= bound
        /\ w[a] \in Nat /\ w[b] \in Nat
    BY <1>5, <1>8, PartsOfTwo
  <2>2. Good(a) /\ Good(b)
    BY <2>1, <1>4
  <2>3. w[T[a]] \in Nat /\ w[T[b]] \in Nat
    BY <2>2, <1>2
  <2>4. T[e] = <<t, T[a], T[b]>>
    BY <1>5, <1>8, TransformOf
  <2>5. w[T[a]] + w[T[b]] + 1 <= w[e]
    BY <2>1, <2>2, <2>3
  <2>6. T[e] \in E /\ w[T[e]] = w[T[a]] + w[T[b]] + 1
    <3>1. w[T[a]] + w[T[b]] + 1 <= bound
      BY <2>1, <2>3, <2>5, <1>2
    <3>2. T[a] \in E /\ T[b] \in E
      BY <2>2
    <3> QED BY <2>4, <3>1, <3>2, MakeTwo
  <2>7. form[T[e]]
    BY <2>2, <2>4, <2>6, FormOf
  <2>8. val[T[e]] = val[e]
    BY <1>5, <1>8, <2>2, <2>4, <2>6, ValueOf
  <2> QED BY <2>5, <2>6, <2>7, <2>8
<1>9. ASSUME NEW a \in E, e = <<"not", a>> PROVE Good(e)
  <2> DEFINE c == T[a]
  <2>1. w[a] < w[e] /\ w[e] = 2 * w[a] /\ w[e] <= bound /\ w[a] \in Nat /\ w[e] \in Nat /\ bound \in Nat
    BY <1>5, <1>9, PartsOfNot
  <2>2. c \in E /\ w[c] \in Nat /\ w[c] <= w[a] /\ val[c] = val[a] /\ form[c]
    BY <2>1, <1>2, <1>4
  <2>3. T[e] = TransformNot(T, c)
    BY <1>5, <1>9, TransformOf
  <2>4. val[e] = 2 - val[c] /\ val[c] \in Tristate
    BY <1>5, <1>9, <1>v, <2>2, ValueOf
  <2> HIDE DEF c
  <2>5. ASSUME NEW s \in Names, c = Sym(s) PROVE Good(e)
    <3>1. \A k \in {"y", "m", "n"} : Sym(k) \in E /\ w[Sym(k)] = 1
      BY Leaves, TheConstants
    <3>2. \A k \in {"y", "m", "n"} : form[Sym(k)]
      BY <3>1, FormOf
    <3>3. val[Y] = 2 /\ val[M] = 1 /\ val[N] = 0
      BY <3>1, ValueOf, TheConstants DEF Y, M, N
    <3>4. CASE s = "y"
      <4>1. T[e] = N /\ c = Y
        BY <2>3, <2>5, <3>4, SixComparisons DEF TransformNot, Y, M, N, Sym
      <4> QED BY <4>1, <3>1, <3>2, <3>3, <2>1, <2>2, <2>4 DEF N
    <3>5. CASE s = "m"
      <4>1. T[e] = M /\ c = M
        BY <2>3, <2>5, <3>5, SixComparisons DEF TransformNot, Y, M, N, Sym
      <4> QED BY <4>1, <3>1, <3>2, <3>3, <2>1, <2>2, <2>4 DEF M
    <3>6. CASE s = "n"
      <4>1. T[e] = Y /\ c = N
        BY <2>3, <2>5, <3>6, SixComparisons DEF TransformNot, Y, M, N, Sym
      <4> QED BY <4>1, <3>1, <3>2, <3>3, <2>1, <2>2, <2>4 DEF Y
    <3>7. CASE s \notin {"y", "m", "n"}
      <4>1. c[1] = "sym" /\ c \notin {Y, M, N}
        BY <2>5, <3>7 DEF Y, M, N, Sym
      <4>2. T[e] = <<"not", c>>
        BY <2>3, <4>1, SixComparisons DEF TransformNot
      <4>3. 2 * w[c] <= bound /\ 2 * w[c] <= w[e]
        BY <2>1, <2>2
      <4>4. T[e] \in E /\ w[T[e]] = 2 * w[c]
        BY <4>2, <4>3, <2>2, MakeNot
      <4>5. form[T[e]] /\ val[T[e]] = 2 - val[c]
        BY <4>1, <4>2, <4>4, FormOf, ValueOf
      <4> QED BY <4>3, <4>4, <4>5, <2>4
    <3> QED BY <3>4, <3>5, <3>6, <3>7
  <2>6. ASSUME NEW t \in Comparisons, NEW s \in Names, NEW k \in Names, c = <<t, s, k>> PROVE Good(e)
    <3>1. T[e] = <<Negated(t), s, k>>
      BY <2>3, <2>6, SixComparisons DEF TransformNot, Y, M, N, Sym
    <3>2. Negated(t) \in Comparisons
      BY SixComparisons
    <3>3. T[e] \in E /\ w[T[e]] = 2 /\ w[c] = 2
      BY <3>1, <3>2, <2>6, Leaves
    <3>4. form[T[e]]
      BY <3>1, <3>2, <3>3, FormOf
    <3>5. val[c] = (IF Holds(t, Compare(v, s, k)) THEN 2 ELSE 0)
      BY <2>2, <2>6, ValueOf
    <3>6. val[T[e]] = (IF Holds(Negated(t), Compare(v, s, k)) THEN 2 ELSE 0)
      BY <3>1, <3>2, <3>3, ValueOf
    <3>7. Holds(Negated(t), Compare(v, s, k)) <=> ~Holds(t, Compare(v, s, k))
      BY CompareIsInt, SixComparisons
    <3> QED BY <2>1, <2>2, <2>4, <3>3, <3>4, <3>5, <3>6, <3>7
  <2>7. ASSUME NEW d \in E, c = <<"not", d>> PROVE Good(e)
    <3>1. T[e] = T[d]
      BY <2>3, <2>7, SixComparisons DEF TransformNot, Y, M, N, Sym
    <3>2. w[d] < w[c] /\ w[d] \in Nat
      BY <2>2, <2>7, PartsOfNot
    <3>3. Good(d)
      BY <3>2, <2>1, <2>2, <1>4
    <3>4. val[c] = 2 - val[d] /\ val[d] \in Tristate
      BY <2>2, <2>7, <1>v, ValueOf
    <3>5. val[e] = val[d]
      BY <2>4, <3>4, DeMorgan
    <3>6. w[T[d]] \in Nat
      BY <3>3, <1>2
    <3> QED BY <3>1, <3>2, <3>3, <3>5, <3>6, <2>1, <2>2
  <2>8. ASSUME NEW t \in {"and", "or"}, NEW l \in E, NEW r \in E, c = <<t, l, r>> PROVE Good(e)
    <3> DEFINE dual == IF t = "and" THEN "or" ELSE "and"
               nl == <<"not", l>>
               nr == <<"not", r>>
               x == <<dual, nl, nr>>
    <3>1. T[e] = T[x]
      BY <2>3, <2>8, SixComparisons DEF TransformNot, Y, M, N, Sym
    <3>2. w[c] = w[l] + w[r] + 1 /\ w[l] \in Nat /\ w[r] \in Nat
      BY <2>2, <2>8, PartsOfTwo
    <3>3. 2 * w[l] <= bound /\ 2 * w[r] <= bound /\ 2 * w[l] + 2 * w[r] + 1 < w[e]
      BY <3>2, <2>1, <2>2
    <3>4. nl \in E /\ w[nl] = 2 * w[l] /\ nr \in E /\ w[nr] = 2 * w[r]
      BY <3>3, MakeNot
    <3>5. x \in E /\ w[x] = w[nl] + w[nr] + 1
      <4>1. w[nl] + w[nr] + 1 <= bound /\ dual \in {"and", "or"}
        BY <3>3, <3>4, <3>2, <2>1
      <4> HIDE DEF dual, nl, nr
      <4> QED BY <4>1, <3>4, MakeTwo
    <3>6. Good(x)
      BY <3>5, <3>4, <3>3, <3>2, <2>1, <1>4
    <3>7. val[l] \in Tristate /\ val[r] \in Tristate
      BY <1>v
    <3>8. val[nl] = 2 - val[l] /\ val[nr] = 2 - val[r]
      BY <3>4, ValueOf
    <3>9. val[c] = IF t = "and" THEN (IF val[l] < val[r] THEN val[l] ELSE val[r])
                                ELSE (IF val[l] > val[r] THEN val[l] ELSE val[r])
      BY <2>2, <2>8, ValueOf
    <3>10. val[x] = IF t = "and" THEN (IF val[nl] > val[nr] THEN val[nl] ELSE val[nr])
                                 ELSE (IF val[nl] < val[nr] THEN val[nl] ELSE val[nr])
      BY <3>5, ValueOf
    <3>11. val[e] = val[x]
      BY <2>4, <3>7, <3>8, <3>9, <3>10, DeMorgan
    <3>12. w[T[x]] \in Nat /\ w[x] \in Nat /\ w[x] < w[e]
      BY <3>6, <3>5, <3>4, <3>3, <3>2, <2>1, <1>2
    <3> QED BY <3>1, <3>6, <3>11, <3>12, <2>1
  <2> QED BY <2>2, <2>5, <2>6, <2>7, <2>8, KindsOf
<1> QED BY <1>5, <1>6, <1>7, <1>8, <1>9, KindsOf

-----------------------------------------------------------------------------
\* expr_eliminate_yn, kind by kind.
LEMMA SweepOf ==
  ASSUME NEW E, NEW S, SweepsYN(E, S), NEW e \in E
  PROVE /\ \A s : e = Sym(s) => S[e] = e
        /\ \A t \in Comparisons : \A s, c : e = <<t, s, c>> => S[e] = e
        /\ \A a : e = <<"not", a>> => S[e] = e
        /\ \A a, b : e = <<"and", a, b>> =>
             \/ S[e] = N /\ (S[a] = N \/ S[b] = N)
             \/ S[e] = S[b] /\ S[a] = Y
             \/ S[e] = S[a] /\ S[b] = Y
             \/ S[e] = <<"and", S[a], S[b]>>
        /\ \A a, b : e = <<"or", a, b>> =>
             \/ S[e] = Y /\ (S[a] = Y \/ S[b] = Y)
             \/ S[e] = S[b] /\ S[a] = N
             \/ S[e] = S[a] /\ S[b] = N
             \/ S[e] = <<"or", S[a], S[b]>>
<1>1. S[e] = eliminate_yn(e, LAMBDA x : S[x])
  BY DEF SweepsYN
<1>2. ASSUME NEW s, e = Sym(s) PROVE S[e] = e
  BY <1>1, <1>2 DEF eliminate_yn, Sym
<1>3. ASSUME NEW t \in Comparisons, NEW s, NEW c, e = <<t, s, c>> PROVE S[e] = e
  BY <1>1, <1>3, SixComparisons DEF eliminate_yn
<1>4. ASSUME NEW a, e = <<"not", a>> PROVE S[e] = e
  BY <1>1, <1>4 DEF eliminate_yn
<1>5. ASSUME NEW a, NEW b, e = <<"and", a, b>>
      PROVE \/ S[e] = N /\ (S[a] = N \/ S[b] = N)
            \/ S[e] = S[b] /\ S[a] = Y
            \/ S[e] = S[a] /\ S[b] = Y
            \/ S[e] = <<"and", S[a], S[b]>>
  BY <1>1, <1>5 DEF eliminate_yn, Gone
<1>6. ASSUME NEW a, NEW b, e = <<"or", a, b>>
      PROVE \/ S[e] = Y /\ (S[a] = Y \/ S[b] = Y)
            \/ S[e] = S[b] /\ S[a] = N
            \/ S[e] = S[a] /\ S[b] = N
            \/ S[e] = <<"or", S[a], S[b]>>
  BY <1>1, <1>6 DEF eliminate_yn, Gone
<1> QED BY <1>2, <1>3, <1>4, <1>5, <1>6

\* The expressions y, m and n are in E and have these values.
LEMMA ConstantsOf ==
  ASSUME NEW E, NEW w, NEW bound, Expressions(E, w, bound),
         NEW v, NEW val, Valuation(v), Values(E, v, val)
  PROVE /\ Y \in E /\ M \in E /\ N \in E
        /\ w[Y] = 1 /\ w[M] = 1 /\ w[N] = 1
        /\ val[Y] = 2 /\ val[M] = 1 /\ val[N] = 0
<1>1. \A k \in {"y", "m", "n"} : Sym(k) \in E /\ w[Sym(k)] = 1
  BY Leaves, TheConstants
<1>2. val[Y] = 2 /\ val[M] = 1 /\ val[N] = 0
  BY <1>1, ValueOf, TheConstants DEF Y, M, N
<1> QED BY <1>1, <1>2 DEF Y, M, N

\* expr_eliminate_yn keeps the value of every expression and makes it no heavier.
THEOREM SweepKeepsValue ==
  ASSUME NEW E, NEW w, NEW bound, Expressions(E, w, bound),
         NEW v, NEW val, Valuation(v), Values(E, v, val),
         NEW S, SweepsYN(E, S)
  PROVE \A e \in E : S[e] \in E /\ w[S[e]] <= w[e] /\ val[S[e]] = val[e]
<1> DEFINE Good(e) == S[e] \in E /\ w[S[e]] <= w[e] /\ val[S[e]] = val[e]
           Bad == {e \in E : ~Good(e)}
<1>1. SUFFICES ASSUME Bad # {} PROVE FALSE
  OBVIOUS
<1>2. w \in [E -> Nat] /\ bound \in Nat
  BY DEF Expressions
<1>3. PICK e \in Bad : \A y \in Bad : w[e] <= w[y]
  BY <1>1, <1>2, LeastWeight
<1>4. ASSUME NEW y \in E, w[y] < w[e] PROVE Good(y)
  BY <1>2, <1>3, <1>4
<1>5. e \in E /\ ~Good(e)
  OBVIOUS
<1> HIDE DEF Bad
<1>6. S[e] = e => Good(e)
  BY <1>2, <1>5
<1>7. ASSUME NEW t \in {"and", "or"}, NEW a \in E, NEW b \in E, e = <<t, a, b>> PROVE Good(e)
  <2>1. /\ w[a] < w[e] /\ w[b] < w[e] /\ w[e] = w[a] + w[b] + 1 /\ w[e] <= bound
        /\ w[a] \in Nat /\ w[b] \in Nat /\ w[e] \in Nat
    BY <1>5, <1>7, PartsOfTwo
  <2>2. Good(a) /\ Good(b)
    BY <2>1, <1>4
  <2>3. w[S[a]] \in Nat /\ w[S[b]] \in Nat
    BY <2>2, <1>2
  <2>4. val[S[a]] \in Tristate /\ val[S[b]] \in Tristate
    BY <2>2, ValueIsTristate
  <2>6. val[e] = IF t = "and" THEN (IF val[S[a]] < val[S[b]] THEN val[S[a]] ELSE val[S[b]])
                              ELSE (IF val[S[a]] > val[S[b]] THEN val[S[a]] ELSE val[S[b]])
    BY <1>5, <1>7, <2>2, ValueOf
  <2>7. val[Y] = 2 /\ val[N] = 0 /\ Y \in E /\ N \in E /\ w[Y] = 1 /\ w[N] = 1
    BY ConstantsOf
  <2>8. CASE S[e] = <<t, S[a], S[b]>>
    <3>1. w[S[a]] + w[S[b]] + 1 <= w[e] /\ w[S[a]] + w[S[b]] + 1 <= bound
      BY <1>2, <2>1, <2>2, <2>3
    <3>2. S[e] \in E /\ w[S[e]] = w[S[a]] + w[S[b]] + 1
      BY <2>2, <2>8, <3>1, MakeTwo
    <3>4. val[S[e]] = val[e]
      BY <2>6, <2>8, <3>2, ValueOf
    <3> QED BY <3>1, <3>2, <3>4
  <2>9. CASE S[e] \in {Y, N} /\ val[S[e]] = val[e]
    BY <2>7, <2>9, <2>1
  <2>10. CASE S[e] \in {S[a], S[b]} /\ val[S[e]] = val[e]
    BY <2>10, <2>1, <2>2, <2>3
  <2>11. \/ S[e] = <<t, S[a], S[b]>>
         \/ S[e] \in {Y, N} /\ val[S[e]] = val[e]
         \/ S[e] \in {S[a], S[b]} /\ val[S[e]] = val[e]
    <3>1. CASE t = "and"
      BY <1>5, <1>7, <3>1, <2>4, <2>6, <2>7, SweepOf DEF Tristate, no, mod, yes
    <3>2. CASE t = "or"
      BY <1>5, <1>7, <3>2, <2>4, <2>6, <2>7, SweepOf DEF Tristate, no, mod, yes
    <3> QED BY <3>1, <3>2
  <2> QED BY <2>8, <2>9, <2>10, <2>11
<1>8. \/ S[e] = e
      \/ \E t \in {"and", "or"}, a, b \in E : e = <<t, a, b>>
  BY <1>5, SweepOf, KindsOf
<1> QED BY <1>5, <1>6, <1>7, <1>8

\* The form in which the only negations are those of symbols is kept as well.
LEMMA SweepKeepsForm ==
  ASSUME NEW E, NEW w, NEW bound, Expressions(E, w, bound),
         NEW v, NEW val, Valuation(v), Values(E, v, val), NEW form, Forms(E, form),
         NEW S, SweepsYN(E, S)
  PROVE \A e \in E : form[e] => form[S[e]]
<1> DEFINE Good(e) == form[e] => form[S[e]]
           Bad == {e \in E : ~Good(e)}
<1>1. SUFFICES ASSUME Bad # {} PROVE FALSE
  OBVIOUS
<1>2. w \in [E -> Nat] /\ bound \in Nat
  BY DEF Expressions
<1>3. PICK e \in Bad : \A y \in Bad : w[e] <= w[y]
  BY <1>1, <1>2, LeastWeight
<1>4. ASSUME NEW y \in E, w[y] < w[e] PROVE Good(y)
  BY <1>2, <1>3, <1>4
<1>5. e \in E /\ ~Good(e)
  OBVIOUS
<1> HIDE DEF Bad
<1>6. S[e] = e => Good(e)
  BY <1>5
<1>7. ASSUME NEW t \in {"and", "or"}, NEW a \in E, NEW b \in E, e = <<t, a, b>> PROVE Good(e)
  <2>1. w[a] < w[e] /\ w[b] < w[e]
    BY <1>5, <1>7, PartsOfTwo
  <2>2. Good(a) /\ Good(b)
    BY <2>1, <1>4
  <2>3. form[e] => form[S[a]] /\ form[S[b]]
    BY <1>5, <1>7, <2>2, FormOf
  <2>4. Y \in E /\ N \in E /\ form[Y] /\ form[N]
    BY ConstantsOf, FormOf DEF Y, N
  <2>5. S[e] \in E /\ S[a] \in E /\ S[b] \in E
    BY <1>5, SweepKeepsValue
  <2>6. S[e] \in {Y, N, S[a], S[b], <<t, S[a], S[b]>>}
    BY <1>5, <1>7, SweepOf
  <2> QED BY <2>3, <2>4, <2>5, <2>6, FormOf
<1>8. \/ S[e] = e
      \/ \E t \in {"and", "or"}, a, b \in E : e = <<t, a, b>>
  BY <1>5, SweepOf, KindsOf
<1> QED BY <1>5, <1>6, <1>7, <1>8

\* expr_trans_bool, kind by kind.
LEMMA TransBoolOf ==
  ASSUME NEW E, NEW B, TransformsBool(E, B), NEW e \in E
  PROVE /\ \A s : e = Sym(s) => B[e] = e
        /\ \A t \in Comparisons : \A s, c : e = <<t, s, c>> =>
             B[e] = IF t = "ne" /\ TypeOf(s) = "tri" /\ c = "n" THEN Sym(s) ELSE e
        /\ \A a : e = <<"not", a>> => B[e] = <<"not", B[a]>>
        /\ \A t \in {"and", "or"} : \A a, b : e = <<t, a, b>> => B[e] = <<t, B[a], B[b]>>
<1>1. B[e] = trans_bool(e, LAMBDA x : B[x])
  BY DEF TransformsBool
<1>2. ASSUME NEW s, e = Sym(s) PROVE B[e] = e
  BY <1>1, <1>2 DEF trans_bool, Sym
<1>3. ASSUME NEW t \in Comparisons, NEW s, NEW c, e = <<t, s, c>>
      PROVE B[e] = IF t = "ne" /\ TypeOf(s) = "tri" /\ c = "n" THEN Sym(s) ELSE e
  BY <1>1, <1>3, SixComparisons DEF trans_bool
<1>4. ASSUME NEW a, e = <<"not", a>> PROVE B[e] = <<"not", B[a]>>
  BY <1>1, <1>4 DEF trans_bool
<1>5. ASSUME NEW t \in {"and", "or"}, NEW a, NEW b, e = <<t, a, b>> PROVE B[e] = <<t, B[a], B[b]>>
  BY <1>1, <1>5 DEF trans_bool
<1> QED BY <1>2, <1>3, <1>4, <1>5

\* expr_trans_bool keeps whether an expression is n, if only symbols are negated in it.
LEMMA TransBoolInForm ==
  ASSUME NEW E, NEW w, NEW bound, Expressions(E, w, bound),
         NEW v, NEW val, Valuation(v), Values(E, v, val), NEW form, Forms(E, form),
         NEW B, TransformsBool(E, B)
  PROVE \A e \in E : form[e] => B[e] \in E /\ w[B[e]] <= w[e] /\ (val[B[e]] = no <=> val[e] = no)
<1> DEFINE Good(e) == form[e] => B[e] \in E /\ w[B[e]] <= w[e] /\ (val[B[e]] = no <=> val[e] = no)
           Bad == {e \in E : ~Good(e)}
<1>1. SUFFICES ASSUME Bad # {} PROVE FALSE
  OBVIOUS
<1>2. w \in [E -> Nat] /\ bound \in Nat
  BY DEF Expressions
<1>3. PICK e \in Bad : \A y \in Bad : w[e] <= w[y]
  BY <1>1, <1>2, LeastWeight
<1>4. ASSUME NEW y \in E, w[y] < w[e] PROVE Good(y)
  BY <1>2, <1>3, <1>4
<1>5. e \in E /\ form[e] /\ ~Good(e)
  OBVIOUS
<1> HIDE DEF Bad
<1>6. B[e] = e => Good(e)
  BY <1>2, <1>5
<1>7. ASSUME NEW s \in Names, e = <<"ne", s, "n">>, TypeOf(s) = "tri", B[e] = Sym(s) PROVE Good(e)
  <2>1. s \in DOMAIN Type /\ Type[s] = "tri"
    BY <1>7 DEF TypeOf
  <2>2. Compare(v, s, "n") \in Int /\ (Compare(v, s, "n") = 0 <=> v[s].str = "n")
    BY <2>1, TheConstants, EqualMeansSameString
  <2>3. val[e] = IF Holds("ne", Compare(v, s, "n")) THEN 2 ELSE 0
    BY <1>5, <1>7, ValueOf DEF Comparisons
  <2>4. val[e] = 0 <=> v[s].str = "n"
    BY <2>2, <2>3 DEF Holds
  <2>5. Sym(s) \in E /\ w[Sym(s)] = 1 /\ w[e] = 2
    BY <1>7, Leaves, TheConstants DEF Comparisons
  <2>6. val[Sym(s)] = ValTri(v, s)
    BY <2>5, ValueOf
  <2>7. ValTri(v, s) = v[s].tri
    <3>1. s \in DOMAIN v /\ s \notin {"y", "m", "n"}
      BY <2>1, TheConstants DEF Valuation
    <3> QED BY <3>1 DEF ValTri
  <2>8. v[s].tri = 0 <=> v[s].str = "n"
    BY <2>1 DEF Valuation, no, mod, yes
  <2> QED BY <1>7, <2>4, <2>5, <2>6, <2>7, <2>8 DEF no
<1>8. ASSUME NEW t \in Comparisons, NEW s \in Names, NEW c \in Names, e = <<t, s, c>> PROVE Good(e)
  <2>1. B[e] = IF t = "ne" /\ TypeOf(s) = "tri" /\ c = "n" THEN Sym(s) ELSE e
    BY <1>5, <1>8, TransBoolOf
  <2> QED BY <1>6, <1>7, <1>8, <2>1
<1>9. ASSUME NEW a \in E, e = <<"not", a>> PROVE Good(e)
  <2>1. a[1] = "sym"
    BY <1>5, <1>9, FormOf
  <2>2. \E s \in Names : a = Sym(s)
    BY <2>1, SixComparisons, KindsOf DEF Sym
  <2>3. B[a] = a
    BY <2>2, TransBoolOf
  <2>4. B[e] = e
    BY <1>5, <1>9, <2>3, TransBoolOf
  <2> QED BY <2>4, <1>6
<1>10. ASSUME NEW t \in {"and", "or"}, NEW a \in E, NEW b \in E, e = <<t, a, b>> PROVE Good(e)
  <2>1. /\ w[a] < w[e] /\ w[b] < w[e] /\ w[e] = w[a] + w[b] + 1 /\ w[e] <= bound
        /\ w[a] \in Nat /\ w[b] \in Nat
    BY <1>5, <1>10, PartsOfTwo
  <2>2. form[a] /\ form[b]
    BY <1>5, <1>10, FormOf
  <2>3. /\ B[a] \in E /\ w[B[a]] <= w[a] /\ (val[B[a]] = no <=> val[a] = no)
        /\ B[b] \in E /\ w[B[b]] <= w[b] /\ (val[B[b]] = no <=> val[b] = no)
    BY <2>1, <2>2, <1>4
  <2>4. B[e] = <<t, B[a], B[b]>>
    BY <1>5, <1>10, TransBoolOf
  <2>5. w[B[a]] \in Nat /\ w[B[b]] \in Nat
    BY <2>3, <1>2
  <2>6. w[B[a]] + w[B[b]] + 1 <= w[e] /\ w[B[a]] + w[B[b]] + 1 <= bound
    BY <1>2, <2>1, <2>3, <2>5
  <2>7. B[e] \in E /\ w[B[e]] = w[B[a]] + w[B[b]] + 1
    BY <2>3, <2>4, <2>6, MakeTwo
  <2>8. val[a] \in Tristate /\ val[b] \in Tristate /\ val[B[a]] \in Tristate /\ val[B[b]] \in Tristate
    BY <2>3, ValueIsTristate
  <2>9. CASE t = "and"
    <3>1. val[e] = IF val[a] < val[b] THEN val[a] ELSE val[b]
      BY <1>5, <1>10, <2>9, ValueOf
    <3>2. val[B[e]] = IF val[B[a]] < val[B[b]] THEN val[B[a]] ELSE val[B[b]]
      BY <2>4, <2>7, <2>9, ValueOf
    <3> QED BY <3>1, <3>2, <2>3, <2>6, <2>7, <2>8 DEF Tristate, no, mod, yes
  <2>10. CASE t = "or"
    <3>1. val[e] = IF val[a] > val[b] THEN val[a] ELSE val[b]
      BY <1>5, <1>10, <2>10, ValueOf
    <3>2. val[B[e]] = IF val[B[a]] > val[B[b]] THEN val[B[a]] ELSE val[B[b]]
      BY <2>4, <2>7, <2>10, ValueOf
    <3> QED BY <3>1, <3>2, <2>3, <2>6, <2>7, <2>8 DEF Tristate, no, mod, yes
  <2> QED BY <2>9, <2>10
<1>11. ASSUME NEW s \in Names, e = Sym(s) PROVE Good(e)
  BY <1>5, <1>6, <1>11, TransBoolOf
<1> QED BY <1>5, <1>8, <1>9, <1>10, <1>11, KindsOf

\* After expr_transform, expr_trans_bool keeps whether an expression is n: it rewrites
\* FOO!=n to FOO below a ! as well, and no such ! is left.
THEOREM TransBoolKeepsTruth ==
  ASSUME NEW E, NEW w, NEW bound, Expressions(E, w, bound),
         NEW v, NEW val, Valuation(v), Values(E, v, val), NEW form, Forms(E, form),
         NEW T, Transforms(E, T), NEW B, TransformsBool(E, B)
  PROVE \A e \in E : B[T[e]] \in E /\ (val[B[T[e]]] = no <=> val[e] = no)
<1> TAKE e \in E
<1>1. T[e] \in E /\ val[T[e]] = val[e] /\ form[T[e]]
  BY TransformKeepsValue
<1>2. B[T[e]] \in E /\ (val[B[T[e]]] = no <=> val[T[e]] = no)
  BY <1>1, TransBoolInForm
<1> QED BY <1>1, <1>2

-----------------------------------------------------------------------------
\* A comparison is of two names.
LEMMA ShapeOfComparison ==
  ASSUME NEW E, NEW w, NEW bound, Expressions(E, w, bound), NEW e \in E, e[1] \in Comparisons
  PROVE e = <<e[1], e[2], e[3]>> /\ e[2] \in Names /\ e[3] \in Names
  BY SixComparisons DEF Expressions, Sym

\* A bool or tristate symbol as an operand, and the string it has.
LEMMA ValueOfSymbol ==
  ASSUME NEW E, NEW w, NEW bound, Expressions(E, w, bound),
         NEW v, NEW val, Valuation(v), Values(E, v, val),
         NEW s \in DOMAIN Type, Type[s] \in {"bool", "tri"}
  PROVE /\ Sym(s) \in E /\ val[Sym(s)] = v[s].tri
        /\ <<v[s].tri, v[s].str>> \in {<<0, "n">>, <<1, "m">>, <<2, "y">>}
        /\ Type[s] = "bool" => v[s].tri # 1
<1>1. s \in Names /\ Sym(s) \in E
  BY Leaves, NamesAssumption
<1>2. val[Sym(s)] = ValTri(v, s)
  BY <1>1, ValueOf
<1>3. ValTri(v, s) = v[s].tri
  <2>1. s \in DOMAIN v /\ s \notin {"y", "m", "n"}
    BY TheConstants DEF Valuation
  <2> QED BY <2>1 DEF ValTri
<1>4. <<v[s].tri, v[s].str>> \in {<<0, "n">>, <<1, "m">>, <<2, "y">>} /\ (Type[s] = "bool" => v[s].tri # 1)
  BY DEF Valuation, no, mod, yes
<1> QED BY <1>1, <1>2, <1>3, <1>4

\* A bool or tristate symbol against a constant.
LEMMA ValueOfEquation ==
  ASSUME NEW E, NEW w, NEW bound, Expressions(E, w, bound),
         NEW v, NEW val, Valuation(v), Values(E, v, val),
         NEW s \in DOMAIN Type, Type[s] \in {"bool", "tri"},
         NEW t \in {"eq", "ne"}, NEW c \in Names, c \notin DOMAIN Type, NEW e, e = <<t, s, c>>
  PROVE e \in E /\ val[e] = IF t = "eq" <=> v[s].str = c THEN 2 ELSE 0
<1>1. t \in Comparisons /\ s \in Names /\ c \in Strings
  BY NamesAssumption DEF Comparisons
<1>2. e \in E
  BY <1>1, Leaves
<1>3. val[e] = IF Holds(t, Compare(v, s, c)) THEN 2 ELSE 0
  BY <1>1, <1>2, ValueOf
<1>4. Compare(v, s, c) \in Int /\ (Compare(v, s, c) = 0 <=> v[s].str = c)
  BY <1>1, EqualMeansSameString
<1>5. Holds(t, Compare(v, s, c)) <=> (t = "eq" <=> v[s].str = c)
  BY <1>4 DEF Holds
<1> QED BY <1>2, <1>3, <1>5

\* The negation of a symbol.
LEMMA ValueOfNegation ==
  ASSUME NEW E, NEW w, NEW bound, Expressions(E, w, bound),
         NEW v, NEW val, Values(E, v, val), NEW s \in Names, NEW e, e = <<"not", Sym(s)>>
  PROVE e \in E /\ val[e] = 2 - val[Sym(s)]
<1>1. Sym(s) \in E /\ 2 * w[Sym(s)] <= bound
  <2>1. Sym(s) \in E /\ w[Sym(s)] = 1
    BY Leaves
  <2> QED BY <2>1 DEF Expressions
<1>2. e \in E
  BY <1>1, MakeNot
<1> QED BY <1>2, ValueOf

\* Of y, m and n there is one that two comparisons do not name.
LEMMA TheOther ==
  ASSUME NEW e1, NEW e2
  PROVE OtherConstant(e1, e2) \in {"y", "m", "n"} \ {e1[3], e2[3]}
<1>1. \E c \in {"y", "m", "n"} : c \notin {e1[3], e2[3]}
  OBVIOUS
<1> QED BY <1>1 DEF OtherConstant

\* Operands that can be joined are about one bool or tristate symbol.
LEMMA JoinableIsTristate ==
  ASSUME NEW e1, NEW e2, Joinable(e1, e2) # <<>>
  PROVE LET s == Joinable(e1, e2)[1]
        IN /\ s \in DOMAIN Type /\ Type[s] \in {"bool", "tri"} /\ TypeOf(s) = Type[s]
           /\ e1[1] \in {"eq", "ne", "sym"} => e1[2] = s
           /\ e2[1] \in {"eq", "ne", "sym"} => e2[2] = s
  BY DEF Joinable, JoinSymbol, TypeOf

\* What expr_join_or makes of two operands has the value of their ||, for every pair of the
\* cases of the code and provided that what expr_eq calls equal has one value.
THEOREM JoinOrKeepsValue ==
  ASSUME NEW E, NEW w, NEW bound, Expressions(E, w, bound),
         NEW v, NEW val, Valuation(v), Values(E, v, val),
         NEW Q, NEW e1 \in E, NEW e2 \in E, Q[<<e1, e2>>] => val[e1] = val[e2],
         NEW r, r = JoinedOr(Q, e1, e2), r # Null
  PROVE r \in E /\ val[r] = EXPR_OR(val[e1], val[e2])
<1>1. val[e1] \in Tristate /\ val[e2] \in Tristate
  BY ValueIsTristate
<1>2. CASE Q[<<e1, e2>>]
  <2>1. r = e1 /\ val[e1] = val[e2]
    BY <1>2 DEF JoinedOr, join_or
  <2> QED BY <1>1, <2>1 DEF EXPR_OR
<1>3. CASE ~Q[<<e1, e2>>]
  <2> DEFINE s == Joinable(e1, e2)
             a == s[1]
  <2>1. /\ s # <<>>
        /\ \/ TypeOf(a) = "tri" /\ TwoConstants("eq", e1, e2) /\ r = <<"ne", a, OtherConstant(e1, e2)>>
           \/ TypeOf(a) = "bool" /\ {e1, e2} = {Sym(a), <<"not", Sym(a)>>} /\ r = Y
    BY <1>3 DEF JoinedOr, join_or
  <2>2. /\ a \in DOMAIN Type /\ Type[a] \in {"bool", "tri"} /\ TypeOf(a) = Type[a]
        /\ e1[1] \in {"eq", "ne", "sym"} => e1[2] = a
        /\ e2[1] \in {"eq", "ne", "sym"} => e2[2] = a
    BY <2>1, JoinableIsTristate
  <2> HIDE DEF a, s
  <2>3. ASSUME TypeOf(a) = "tri", TwoConstants("eq", e1, e2), r = <<"ne", a, OtherConstant(e1, e2)>>
        PROVE r \in E /\ val[r] = EXPR_OR(val[e1], val[e2])
    <3>1. PICK c1 \in {"y", "m", "n"}, c2 \in {"y", "m", "n"}, c3 \in {"y", "m", "n"} :
            /\ c1 # c2 /\ c3 # c1 /\ c3 # c2
            /\ e1 = <<"eq", a, c1>> /\ e2 = <<"eq", a, c2>> /\ r = <<"ne", a, c3>>
      <4>1. /\ e1[1] = "eq" /\ e2[1] = "eq" /\ e1[3] # e2[3]
            /\ e1[3] \in {"y", "m", "n"} /\ e2[3] \in {"y", "m", "n"}
        BY <2>3 DEF TwoConstants
      <4>2. e1 = <<e1[1], e1[2], e1[3]>> /\ e2 = <<e2[1], e2[2], e2[3]>>
        BY <4>1, ShapeOfComparison DEF Comparisons
      <4>3. e1 = <<"eq", a, e1[3]>> /\ e2 = <<"eq", a, e2[3]>>
        BY <4>1, <4>2, <2>2
      <4> QED BY <4>1, <4>3, <2>3, TheOther
    <3>2. \A c \in {"y", "m", "n"} : c \in Names \ DOMAIN Type
      BY TheConstants
    <3>3. /\ r \in E /\ val[r] = IF v[a].str = c3 THEN 0 ELSE 2
          /\ val[e1] = (IF v[a].str = c1 THEN 2 ELSE 0) /\ val[e2] = (IF v[a].str = c2 THEN 2 ELSE 0)
      <4>1. r \in E /\ val[r] = IF v[a].str = c3 THEN 0 ELSE 2
        BY <2>2, <3>1, <3>2, ValueOfEquation, NamesAssumption
      <4>2. val[e1] = IF v[a].str = c1 THEN 2 ELSE 0
        BY <2>2, <3>1, <3>2, ValueOfEquation, NamesAssumption
      <4>3. val[e2] = IF v[a].str = c2 THEN 2 ELSE 0
        BY <2>2, <3>1, <3>2, ValueOfEquation, NamesAssumption
      <4> QED BY <4>1, <4>2, <4>3
    <3>4. v[a].str \in {"y", "m", "n"}
      BY <2>2, ValueOfSymbol
    <3> QED BY <3>1, <3>3, <3>4 DEF EXPR_OR
  <2>4. ASSUME TypeOf(a) = "bool", {e1, e2} = {Sym(a), <<"not", Sym(a)>>}, r = Y
        PROVE r \in E /\ val[r] = EXPR_OR(val[e1], val[e2])
    <3>1. v[a].tri \in {0, 2} /\ val[Sym(a)] = v[a].tri
      <4>1. Type[a] = "bool"
        BY <2>2, <2>4
      <4>2. v[a].tri \in {0, 1, 2}
        BY <2>2, ValueOfSymbol
      <4>3. v[a].tri # 1
        BY <2>2, <4>1, ValueOfSymbol
      <4>4. val[Sym(a)] = v[a].tri
        BY <2>2, ValueOfSymbol
      <4> QED BY <4>2, <4>3, <4>4
    <3>4. val[<<"not", Sym(a)>>] = 2 - val[Sym(a)]
      BY <2>2, ValueOfNegation, NamesAssumption
    <3>2. Y \in E /\ val[Y] = 2
      BY ConstantsOf
    <3>3. \/ e1 = Sym(a) /\ e2 = <<"not", Sym(a)>>
          \/ e2 = Sym(a) /\ e1 = <<"not", Sym(a)>>
      <4>1. Sym(a) # <<"not", Sym(a)>>
        BY DEF Sym
      <4> QED BY <4>1, <2>4
    <3> QED BY <2>4, <3>1, <3>2, <3>3, <3>4 DEF EXPR_OR
  <2> QED BY <2>1, <2>3, <2>4
<1> QED BY <1>2, <1>3

\* What expr_join_and makes of two operands has the value of their &&, likewise.
THEOREM JoinAndKeepsValue ==
  ASSUME NEW E, NEW w, NEW bound, Expressions(E, w, bound),
         NEW v, NEW val, Valuation(v), Values(E, v, val),
         NEW Q, NEW e1 \in E, NEW e2 \in E, Q[<<e1, e2>>] => val[e1] = val[e2],
         NEW r, r = JoinedAnd(Q, e1, e2), r # Null
  PROVE r \in E /\ val[r] = EXPR_AND(val[e1], val[e2])
<1>1. val[e1] \in Tristate /\ val[e2] \in Tristate
  BY ValueIsTristate
<1>2. CASE Q[<<e1, e2>>]
  <2>1. r = e1 /\ val[e1] = val[e2]
    BY <1>2 DEF JoinedAnd, join_and
  <2> QED BY <1>1, <2>1 DEF EXPR_AND
<1>3. CASE ~Q[<<e1, e2>>]
  <2> DEFINE s == Joinable(e1, e2)
             a == s[1]
  <2>1. /\ s # <<>>
        /\ \/ {e1, e2} = {Sym(a), <<"eq", a, "y">>} /\ r = <<"eq", a, "y">>
           \/ {e1, e2} = {Sym(a), <<"ne", a, "n">>} /\ r = Sym(a)
           \/ {e1, e2} = {Sym(a), <<"ne", a, "m">>} /\ r = <<"eq", a, "y">>
           \/ /\ e1[1] = "eq" /\ e2[1] = "ne" /\ IsConst(e1[3]) /\ IsConst(e2[3])
              /\ r = IF e1[3] # e2[3] THEN e1 ELSE N
           \/ /\ e1[1] = "ne" /\ e2[1] = "eq" /\ IsConst(e1[3]) /\ IsConst(e2[3])
              /\ r = IF e2[3] # e1[3] THEN e2 ELSE N
           \/ TypeOf(a) = "tri" /\ TwoConstants("ne", e1, e2) /\ r = <<"eq", a, OtherConstant(e1, e2)>>
    <3> HIDE DEF s
    <3>1. JoinedAnd(Q, e1, e2) =
            CASE s = <<>> -> Null
              [] s # <<>> /\ {e1, e2} = {Sym(a), <<"eq", a, "y">>} -> <<"eq", a, "y">>
              [] s # <<>> /\ {e1, e2} = {Sym(a), <<"ne", a, "n">>} -> Sym(a)
              [] s # <<>> /\ {e1, e2} = {Sym(a), <<"ne", a, "m">>} -> <<"eq", a, "y">>
              [] s # <<>> /\ TypeOf(a) = "tri" /\ e1[1] = "eq" /\ e2[1] = "ne"
                   /\ IsConst(e1[3]) /\ IsConst(e2[3]) -> (IF e1[3] # e2[3] THEN e1 ELSE N)
              [] s # <<>> /\ TypeOf(a) = "tri" /\ e1[1] = "ne" /\ e2[1] = "eq"
                   /\ IsConst(e1[3]) /\ IsConst(e2[3]) -> (IF e2[3] # e1[3] THEN e2 ELSE N)
              [] s # <<>> /\ TypeOf(a) = "tri" /\ TwoConstants("ne", e1, e2) ->
                   <<"eq", a, OtherConstant(e1, e2)>>
              [] OTHER -> Null
      BY <1>3 DEF JoinedAnd, join_and, s
    <3>2. s # <<>>
      BY <3>1
    <3> QED BY <3>1, <3>2
  <2>2. /\ a \in DOMAIN Type /\ Type[a] \in {"bool", "tri"} /\ TypeOf(a) = Type[a]
        /\ e1[1] \in {"eq", "ne", "sym"} => e1[2] = a
        /\ e2[1] \in {"eq", "ne", "sym"} => e2[2] = a
    BY <2>1, JoinableIsTristate
  <2> HIDE DEF a, s
  <2>3. \A c \in {"y", "m", "n"} : c \in Names \ DOMAIN Type
    BY TheConstants
  <2>4. /\ Sym(a) \in E /\ val[Sym(a)] = v[a].tri
        /\ <<v[a].tri, v[a].str>> \in {<<0, "n">>, <<1, "m">>, <<2, "y">>}
    BY <2>2, ValueOfSymbol
  <2>5. \A t \in {"eq", "ne"} : \A c \in Names \ DOMAIN Type :
          <<t, a, c>> \in E /\ val[<<t, a, c>>] = IF t = "eq" <=> v[a].str = c THEN 2 ELSE 0
    BY <2>2, ValueOfEquation, NamesAssumption
  <2>6. ASSUME NEW t \in {"eq", "ne"}, NEW c \in {"y", "m", "n"}, {e1, e2} = {Sym(a), <<t, a, c>>}
        PROVE EXPR_AND(val[e1], val[e2]) = EXPR_AND(val[Sym(a)], val[<<t, a, c>>])
    BY <2>6, <1>1, <2>3, <2>4, <2>5 DEF EXPR_AND, Tristate, no, mod, yes, Sym
  <2>7. ASSUME {e1, e2} = {Sym(a), <<"eq", a, "y">>}, r = <<"eq", a, "y">>
        PROVE r \in E /\ val[r] = EXPR_AND(val[e1], val[e2])
    <3>1. r \in E /\ val[r] = IF v[a].str = "y" THEN 2 ELSE 0
      BY <2>3, <2>5, <2>7
    <3>2. EXPR_AND(val[e1], val[e2]) = EXPR_AND(val[Sym(a)], val[r])
      BY <2>6, <2>7
    <3> QED BY <2>4, <3>1, <3>2 DEF EXPR_AND
  <2>8. ASSUME {e1, e2} = {Sym(a), <<"ne", a, "n">>}, r = Sym(a)
        PROVE r \in E /\ val[r] = EXPR_AND(val[e1], val[e2])
    <3>1. val[<<"ne", a, "n">>] = IF v[a].str = "n" THEN 0 ELSE 2
      BY <2>3, <2>5
    <3>2. EXPR_AND(val[e1], val[e2]) = EXPR_AND(val[r], val[<<"ne", a, "n">>])
      BY <2>6, <2>8
    <3> QED BY <2>4, <2>8, <3>1, <3>2 DEF EXPR_AND
  <2>9. ASSUME {e1, e2} = {Sym(a), <<"ne", a, "m">>}, r = <<"eq", a, "y">>
        PROVE r \in E /\ val[r] = EXPR_AND(val[e1], val[e2])
    <3>1. /\ val[<<"ne", a, "m">>] = IF v[a].str = "m" THEN 0 ELSE 2
          /\ r \in E /\ val[r] = IF v[a].str = "y" THEN 2 ELSE 0
      BY <2>3, <2>5, <2>9
    <3>2. EXPR_AND(val[e1], val[e2]) = EXPR_AND(val[Sym(a)], val[<<"ne", a, "m">>])
      BY <2>6, <2>9
    <3> QED BY <2>4, <3>1, <3>2 DEF EXPR_AND
  <2>10. ASSUME NEW t1 \in {"eq", "ne"}, NEW t2 \in {"eq", "ne"}, e1[1] = t1, e2[1] = t2,
                IsConst(e1[3]), IsConst(e2[3])
         PROVE /\ val[e1] = (IF t1 = "eq" <=> v[a].str = e1[3] THEN 2 ELSE 0)
               /\ val[e2] = (IF t2 = "eq" <=> v[a].str = e2[3] THEN 2 ELSE 0)
    <3>1. /\ e1 = <<e1[1], e1[2], e1[3]>> /\ e1[3] \in Names
          /\ e2 = <<e2[1], e2[2], e2[3]>> /\ e2[3] \in Names
      BY <2>10, ShapeOfComparison DEF Comparisons
    <3>2. e1 = <<t1, a, e1[3]>> /\ e2 = <<t2, a, e2[3]>>
      BY <2>2, <2>10, <3>1
    <3>3. e1[3] \in Names \ DOMAIN Type /\ e2[3] \in Names \ DOMAIN Type
      BY <2>10, <3>1, NamesAssumption DEF IsConst
    <3> QED BY <3>2, <3>3, <2>5
  <2>11. N \in E /\ val[N] = 0
    BY ConstantsOf
  <2>12. ASSUME e1[1] = "eq", e2[1] = "ne", IsConst(e1[3]), IsConst(e2[3]), r = IF e1[3] # e2[3] THEN e1 ELSE N
         PROVE r \in E /\ val[r] = EXPR_AND(val[e1], val[e2])
    BY <2>10, <2>11, <2>12 DEF EXPR_AND
  <2>13. ASSUME e1[1] = "ne", e2[1] = "eq", IsConst(e1[3]), IsConst(e2[3]), r = IF e2[3] # e1[3] THEN e2 ELSE N
         PROVE r \in E /\ val[r] = EXPR_AND(val[e1], val[e2])
    BY <2>10, <2>11, <2>13 DEF EXPR_AND
  <2>14. ASSUME TwoConstants("ne", e1, e2), r = <<"eq", a, OtherConstant(e1, e2)>>
         PROVE r \in E /\ val[r] = EXPR_AND(val[e1], val[e2])
    <3>1. /\ e1[1] = "ne" /\ e2[1] = "ne" /\ e1[3] # e2[3]
          /\ e1[3] \in {"y", "m", "n"} /\ e2[3] \in {"y", "m", "n"}
      BY <2>14 DEF TwoConstants
    <3>2. OtherConstant(e1, e2) \in {"y", "m", "n"} /\ OtherConstant(e1, e2) \notin {e1[3], e2[3]}
      BY TheOther
    <3>3. r \in E /\ val[r] = IF v[a].str = OtherConstant(e1, e2) THEN 2 ELSE 0
      BY <2>3, <2>5, <2>14, <3>2
    <3>4. IsConst(e1[3]) /\ IsConst(e2[3])
      BY <2>3, <3>1 DEF IsConst
    <3>5. /\ val[e1] = (IF v[a].str = e1[3] THEN 0 ELSE 2)
          /\ val[e2] = (IF v[a].str = e2[3] THEN 0 ELSE 2)
      BY <2>10, <3>1, <3>4
    <3>6. v[a].str \in {"y", "m", "n"}
      BY <2>4
    <3> QED BY <3>1, <3>2, <3>3, <3>5, <3>6 DEF EXPR_AND
  <2> QED BY <2>1, <2>7, <2>8, <2>9, <2>12, <2>13, <2>14
<1> QED BY <1>2, <1>3

-----------------------------------------------------------------------------
\* expr_depends_symbol, kind by kind.
LEMMA DemandOf ==
  ASSUME NEW E, NEW s, NEW D, Demands(E, s, D), NEW e \in E
  PROVE /\ \A k : e = Sym(k) => (D[e] <=> k = s)
        /\ \A t \in Comparisons : \A k, c : e = <<t, k, c>> =>
             (D[e] <=> k = s /\ ((t = "eq" /\ c \in {"y", "m"}) \/ (t = "ne" /\ c = "n")))
        /\ \A a : e = <<"not", a>> => ~D[e]
        /\ \A a, b : e = <<"and", a, b>> => (D[e] <=> D[a] \/ D[b])
        /\ \A a, b : e = <<"or", a, b>> => ~D[e]
<1>1. D[e] <=> depends_symbol(e, s, LAMBDA x : D[x])
  BY DEF Demands
<1>2. ASSUME NEW k, e = Sym(k) PROVE D[e] <=> k = s
  BY <1>1, <1>2 DEF depends_symbol, Sym
<1>3. ASSUME NEW t \in Comparisons, NEW k, NEW c, e = <<t, k, c>>
      PROVE D[e] <=> k = s /\ ((t = "eq" /\ c \in {"y", "m"}) \/ (t = "ne" /\ c = "n"))
  BY <1>1, <1>3, SixComparisons DEF depends_symbol
<1>4. ASSUME NEW a, e = <<"not", a>> PROVE ~D[e]
  BY <1>1, <1>4 DEF depends_symbol
<1>5. ASSUME NEW a, NEW b, e = <<"and", a, b>> PROVE D[e] <=> D[a] \/ D[b]
  BY <1>1, <1>5 DEF depends_symbol
<1>6. ASSUME NEW a, NEW b, e = <<"or", a, b>> PROVE ~D[e]
  BY <1>1, <1>6 DEF depends_symbol
<1> QED BY <1>2, <1>3, <1>4, <1>5, <1>6

\* An expression that expr_depends_symbol says depends on a bool or tristate symbol is n
\* while the symbol is n (the first test by which menu_finalize makes a submenu).
THEOREM DependsImplies ==
  ASSUME NEW E, NEW w, NEW bound, Expressions(E, w, bound),
         NEW v, NEW val, Valuation(v), Values(E, v, val),
         NEW s \in DOMAIN Type, Type[s] \in {"bool", "tri"}, NEW D, Demands(E, s, D)
  PROVE \A e \in E : D[e] /\ val[e] # no => v[s].tri # no
<1> DEFINE Bad == {e \in E : ~(D[e] /\ val[e] # no => v[s].tri # no)}
<1>1. SUFFICES ASSUME Bad # {} PROVE FALSE
  OBVIOUS
<1>2. w \in [E -> Nat]
  BY DEF Expressions
<1>3. PICK e \in Bad : \A y \in Bad : w[e] <= w[y]
  BY <1>1, <1>2, LeastWeight
<1>4. ASSUME NEW y \in E, w[y] < w[e] PROVE D[y] /\ val[y] # no => v[s].tri # no
  BY <1>2, <1>3, <1>4
<1>5. e \in E /\ D[e] /\ val[e] # 0 /\ v[s].tri = 0
  BY DEF no
<1>6. val[Sym(s)] = 0 /\ v[s].str = "n"
  BY <1>5, ValueOfSymbol
<1> HIDE DEF Bad
<1>7. ASSUME NEW k \in Names, e = Sym(k) PROVE FALSE
  BY <1>5, <1>6, <1>7, DemandOf
<1>8. ASSUME NEW t \in Comparisons, NEW k \in Names, NEW c \in Names, e = <<t, k, c>> PROVE FALSE
  <2>1. k = s /\ t \in {"eq", "ne"} /\ c \in {"y", "m", "n"} /\ (t = "eq" <=> c # "n")
    BY <1>5, <1>8, DemandOf
  <2>2. e = <<t, s, c>> /\ c \notin DOMAIN Type
    BY <1>8, <2>1, TheConstants
  <2>3. val[e] = IF t = "eq" <=> v[s].str = c THEN 2 ELSE 0
    BY <2>1, <2>2, ValueOfEquation
  <2> QED BY <1>5, <1>6, <2>1, <2>3
<1>9. ASSUME NEW a \in E, e = <<"not", a>> PROVE FALSE
  BY <1>5, <1>9, DemandOf
<1>10. ASSUME NEW t \in {"and", "or"}, NEW a \in E, NEW b \in E, e = <<t, a, b>> PROVE FALSE
  <2>1. t = "and" /\ (D[a] \/ D[b])
    BY <1>5, <1>10, DemandOf
  <2>2. w[a] < w[e] /\ w[b] < w[e]
    BY <1>5, <1>10, PartsOfTwo
  <2>3. val[e] = IF val[a] < val[b] THEN val[a] ELSE val[b]
    BY <1>5, <1>10, <2>1, ValueOf
  <2>4. val[a] \in {0, 1, 2} /\ val[b] \in {0, 1, 2}
    BY ValueIsTristate DEF Tristate, no, mod, yes
  <2>5. val[a] # 0 /\ val[b] # 0
    BY <1>5, <2>3, <2>4
  <2> QED BY <1>4, <1>5, <2>1, <2>2, <2>5 DEF no
<1> QED BY <1>5, <1>7, <1>8, <1>9, <1>10, KindsOf

-----------------------------------------------------------------------------
\* When an expression has no operand that can be m, kind by kind.
LEMMA PlainOf ==
  ASSUME NEW E, NEW P, Plain(E, P), NEW e \in E
  PROVE /\ \A s : e = Sym(s) => (P[e] <=> s \in {"y", "n"} \/ TypeOf(s) \in {"bool", "tri"})
        /\ \A a : e = <<"not", a>> => (P[e] <=> P[a])
        /\ \A t \in {"and", "or"} : \A a, b : e = <<t, a, b>> => (P[e] <=> P[a] /\ P[b])
<1>1. P[e] <=> no_operand_m(e, LAMBDA x : P[x])
  BY DEF Plain
<1>2. ASSUME NEW s, e = Sym(s) PROVE P[e] <=> s \in {"y", "n"} \/ TypeOf(s) \in {"bool", "tri"}
  BY <1>1, <1>2 DEF no_operand_m, Sym, Y, N
<1>3. ASSUME NEW a, e = <<"not", a>> PROVE P[e] <=> P[a]
  BY <1>1, <1>3 DEF no_operand_m
<1>4. ASSUME NEW t \in {"and", "or"}, NEW a, NEW b, e = <<t, a, b>> PROVE P[e] <=> P[a] /\ P[b]
  BY <1>1, <1>4 DEF no_operand_m
<1> QED BY <1>2, <1>3, <1>4

\* expr_trans_compare on !, && and ||.
LEMMA TransCompareOf ==
  ASSUME NEW E, NEW s, NEW C, Compares(E, s, C), s \in {"y", "n"}, NEW e \in E
  PROVE /\ \A a : e = <<"not", a>> => C["eq"][e] = C["ne"][a] /\ C["ne"][e] = C["eq"][a]
        /\ \A o \in {"and", "or"} : \A a, b : e = <<o, a, b>> =>
             \E d \in {"and", "or"} :
               /\ d = o <=> s = "y"
               /\ C["eq"][e] = <<d, C["eq"][a], C["eq"][b]>>
               /\ C["ne"][e] = <<"not", C["eq"][e]>>
<1>1. /\ C["eq"][e] = trans_compare(e, "eq", s, LAMBDA x, u : C[u][x])
      /\ C["ne"][e] = trans_compare(e, "ne", s, LAMBDA x, u : C[u][x])
  BY DEF Compares
<1>2. ASSUME NEW a, e = <<"not", a>> PROVE C["eq"][e] = C["ne"][a] /\ C["ne"][e] = C["eq"][a]
  BY <1>1, <1>2 DEF trans_compare, Null, Comparisons
<1>3. ASSUME NEW o \in {"and", "or"}, NEW a, NEW b, e = <<o, a, b>>
      PROVE \E d \in {"and", "or"} :
              /\ d = o <=> s = "y"
              /\ C["eq"][e] = <<d, C["eq"][a], C["eq"][b]>>
              /\ C["ne"][e] = <<"not", C["eq"][e]>>
  BY <1>1, <1>3 DEF trans_compare, Null, Comparisons
<1> QED BY <1>2, <1>3

\* expr_trans_compare on a symbol.
LEMMA TransCompareOfSymbol ==
  ASSUME NEW E, NEW s, NEW C, Compares(E, s, C), s \in {"y", "n"}, NEW e \in E, NEW k, e = Sym(k)
  PROVE C["eq"][e] = <<"eq", k, s>> /\ C["ne"][e] = <<"ne", k, s>>
<1>1. /\ C["eq"][e] = trans_compare(e, "eq", s, LAMBDA x, u : C[u][x])
      /\ C["ne"][e] = trans_compare(e, "ne", s, LAMBDA x, u : C[u][x])
  BY DEF Compares
<1> QED BY <1>1 DEF trans_compare, Sym, Null, Comparisons

\* expr_trans_compare on a comparison.
LEMMA TransCompareOfEquation ==
  ASSUME NEW E, NEW s, NEW C, Compares(E, s, C), s \in {"y", "n"}, NEW e \in E,
         NEW u \in Comparisons, NEW k, NEW c, e = <<u, k, c>>
  PROVE \/ s = "y" /\ C["eq"][e] = e /\ C["ne"][e] = <<"not", e>>
        \/ s = "n" /\ C["ne"][e] = e /\ C["eq"][e] = <<"not", e>>
<1>1. /\ C["eq"][e] = trans_compare(e, "eq", s, LAMBDA x, t : C[t][x])
      /\ C["ne"][e] = trans_compare(e, "ne", s, LAMBDA x, t : C[t][x])
  BY DEF Compares
<1> QED BY <1>1, SixComparisons DEF trans_compare, Null

\* Where nothing is m, an operand that is a symbol compares with y and n as its value says.
LEMMA CompareWithConstant ==
  ASSUME NEW E, NEW w, NEW bound, Expressions(E, w, bound),
         NEW v, NEW val, Valuation(v), NothingIsM(v), Values(E, v, val),
         NEW k \in Names, k \in {"y", "n"} \/ TypeOf(k) \in {"bool", "tri"},
         NEW s \in {"y", "n"}, NEW t \in {"eq", "ne"}, NEW x, x = <<t, k, s>>
  PROVE /\ val[Sym(k)] \in {0, 2}
        /\ x \in E /\ val[x] = IF t = "eq" <=> (s = "y" <=> val[Sym(k)] = 2) THEN 2 ELSE 0
<1>1. s \in Names /\ s \notin DOMAIN Type /\ Sym(k) \in E
  BY TheConstants, Leaves
<1>2. CASE k \in DOMAIN Type /\ Type[k] \in {"bool", "tri"}
  <2>1. val[Sym(k)] = v[k].tri /\ <<v[k].tri, v[k].str>> \in {<<0, "n">>, <<1, "m">>, <<2, "y">>}
    BY <1>2, ValueOfSymbol
  <2>2. v[k].tri # 1
    BY <1>2 DEF NothingIsM, mod
  <2>3. x \in E /\ val[x] = IF t = "eq" <=> v[k].str = s THEN 2 ELSE 0
    BY <1>1, <1>2, ValueOfEquation
  <2> QED BY <2>1, <2>2, <2>3
<1>3. CASE k \in {"y", "n"}
  <2>1. val[Sym(k)] = IF k = "y" THEN 2 ELSE 0
    BY <1>1, <1>3, ValueOf, TheConstants
  <2>2. t \in Comparisons
    BY DEF Comparisons
  <2>3. x \in E
    BY <1>1, <2>2, Leaves
  <2>4. val[x] = IF Holds(t, Compare(v, k, s)) THEN 2 ELSE 0
    BY <2>2, <2>3, ValueOf
  <2>5. Compare(v, k, s) = Rank(k) - Rank(s)
    <3>1. k \notin DOMAIN v /\ s \notin DOMAIN v /\ k \notin DOMAIN Type
      BY <1>1, <1>3, TheConstants DEF Valuation
    <3>2. ValStr(v, k) = k /\ ValStr(v, s) = s /\ TypeOf(k) = "unknown" /\ TypeOf(s) = "unknown"
      BY <1>1, <3>1 DEF ValStr, TypeOf
    <3>3. NumberOf(v, k, s) = <<>>
      BY <1>3, <3>2 DEF NumberOf, expr_parse_string, Strtoll, Numbers
    <3> QED BY <3>2, <3>3 DEF Compare, Difference
  <2>6. Rank(k) - Rank(s) \in Int /\ (Rank(k) - Rank(s) = 0 <=> k = s)
    <3>1. Rank(k) \in 1..9 /\ Words[Rank(k)] = k /\ Rank(s) \in 1..9 /\ Words[Rank(s)] = s
      BY <1>3, TheConstants, RankIsAnOrder
    <3> QED BY <3>1
  <2>7. Holds(t, Compare(v, k, s)) <=> (t = "eq" <=> k = s)
    BY <2>5, <2>6 DEF Holds
  <2> QED BY <1>3, <2>1, <2>3, <2>4, <2>7
<1> QED BY <1>2, <1>3, TypeAssumption DEF TypeOf

\* expr_trans_compare of an expression with y or n says y exactly where the expression is,
\* or is not, the constant, as long as nothing is m: it reads !A as A=n.
THEOREM TransCompareTruth ==
  ASSUME NEW E, NEW w, NEW bound, Expressions(E, w, bound),
         NEW v, NEW val, Valuation(v), NothingIsM(v), Values(E, v, val),
         NEW P, Plain(E, P), NEW s \in {"y", "n"}, NEW C, Compares(E, s, C)
  PROVE \A e \in E : P[e] /\ 4 * w[e] <= bound =>
          /\ val[e] \in {no, yes}
          /\ C["eq"][e] \in E /\ (val[C["eq"][e]] = yes <=> val[e] = (IF s = "y" THEN yes ELSE no))
          /\ C["ne"][e] \in E /\ (val[C["ne"][e]] = yes <=> val[e] # (IF s = "y" THEN yes ELSE no))
<1> DEFINE Fits(z, max) == z \in E /\ w[z] <= max /\ val[z] \in {0, 2}
           Says(z, of, type) == val[z] = 2 <=> (type = "eq" <=> (s = "y" <=> val[of] = 2))
           Good(z) == P[z] /\ 4 * w[z] <= bound =>
                        /\ val[z] \in {0, 2}
                        /\ Fits(C["eq"][z], 2 * w[z]) /\ Says(C["eq"][z], z, "eq")
                        /\ Fits(C["ne"][z], 4 * w[z]) /\ Says(C["ne"][z], z, "ne")
           Bad == {z \in E : ~Good(z)}
<1>1. SUFFICES ASSUME Bad # {} PROVE FALSE
  BY DEF no, yes
<1>2. w \in [E -> Nat] /\ bound \in Nat
  BY DEF Expressions
<1>3. PICK e \in Bad : \A y \in Bad : w[e] <= w[y]
  BY <1>1, <1>2, LeastWeight
<1>4. ASSUME NEW y \in E, w[y] < w[e] PROVE Good(y)
  BY <1>2, <1>3, <1>4
<1>5. e \in E
  OBVIOUS
<1>b. P[e] /\ 4 * w[e] <= bound /\ ~Good(e)
  OBVIOUS
<1> HIDE DEF Bad
<1>6. ASSUME NEW k \in Names, e = Sym(k) PROVE FALSE
  <2>1. k \in {"y", "n"} \/ TypeOf(k) \in {"bool", "tri"}
    BY <1>5, <1>b, <1>6, PlainOf
  <2>2. ASSUME NEW t \in {"eq", "ne"}
        PROVE val[e] \in {0, 2} /\ Fits(C[t][e], 2) /\ w[C[t][e]] = 2 /\ Says(C[t][e], e, t)
    <3>1. C[t][e] = <<t, k, s>>
      <4>1. C["eq"][e] = <<"eq", k, s>> /\ C["ne"][e] = <<"ne", k, s>>
        BY <1>5, <1>6, TransCompareOfSymbol
      <4> QED BY <4>1
    <3>2. t \in Comparisons /\ s \in Names
      BY TheConstants DEF Comparisons
    <3>3. C[t][e] \in E /\ w[C[t][e]] = 2
      BY <3>1, <3>2, Leaves
    <3>4. /\ val[e] \in {0, 2}
          /\ val[C[t][e]] = IF t = "eq" <=> (s = "y" <=> val[e] = 2) THEN 2 ELSE 0
      BY <1>6, <2>1, <3>1, CompareWithConstant
    <3> QED BY <3>3, <3>4
  <2>3. w[e] = 1
    BY <1>6, Leaves
  <2> QED BY <1>b, <2>2, <2>3
<1>7. ASSUME NEW u \in Comparisons, NEW k \in Names, NEW c \in Names, e = <<u, k, c>> PROVE FALSE
  <2>1. w[e] = 2 /\ val[e] \in {0, 2}
    BY <1>5, <1>7, Leaves, ValueOf
  <2> DEFINE x == <<"not", e>>
  <2>2. x \in E /\ w[x] = 4 /\ val[x] = 2 - val[e]
    <3>1. 2 * w[e] <= bound
      BY <1>b, <2>1, <1>2
    <3>2. x \in E /\ w[x] = 2 * w[e]
      BY <1>5, <3>1, MakeNot
    <3>3. val[x] = 2 - val[e]
      BY <3>2, ValueOf
    <3> QED BY <3>2, <3>3, <2>1
  <2>3. \/ s = "y" /\ C["eq"][e] = e /\ C["ne"][e] = x
        \/ s = "n" /\ C["ne"][e] = e /\ C["eq"][e] = x
    BY <1>5, <1>7, TransCompareOfEquation
  <2> HIDE DEF x
  <2>4. /\ Fits(C["eq"][e], 4) /\ Says(C["eq"][e], e, "eq")
        /\ Fits(C["ne"][e], 4) /\ Says(C["ne"][e], e, "ne")
    BY <1>5, <2>1, <2>2, <2>3
  <2>5. w[C["eq"][e]] \in Nat /\ w[C["ne"][e]] \in Nat
    BY <1>2, <2>4
  <2>6. Fits(C["eq"][e], 2 * w[e]) /\ Fits(C["ne"][e], 4 * w[e])
    BY <2>1, <2>4, <2>5
  <2> QED BY <1>b, <2>1, <2>4, <2>6
<1>8. ASSUME NEW a \in E, e = <<"not", a>> PROVE FALSE
  <2>1. w[a] < w[e] /\ w[a] \in Nat /\ w[e] = 2 * w[a]
    BY <1>5, <1>8, PartsOfNot
  <2>2. P[a] /\ 4 * w[a] <= bound
    BY <1>2, <1>5, <1>b, <1>8, <2>1, PlainOf
  <2>3. val[a] \in {0, 2} /\ val[e] = 2 - val[a]
    BY <1>4, <1>5, <1>8, <2>1, <2>2, ValueOf
  <2>4. C["eq"][e] = C["ne"][a] /\ C["ne"][e] = C["eq"][a]
    BY <1>5, <1>8, TransCompareOf
  <2>5. /\ Fits(C["eq"][a], 2 * w[a]) /\ Says(C["eq"][a], a, "eq")
        /\ Fits(C["ne"][a], 4 * w[a]) /\ Says(C["ne"][a], a, "ne")
    BY <1>4, <2>1, <2>2
  <2>6. val[e] = 2 <=> val[a] # 2
    BY <2>3
  <2>7. Says(C["eq"][e], e, "eq") /\ Says(C["ne"][e], e, "ne")
    BY <2>4, <2>5, <2>6
  <2>8. w[C["eq"][a]] \in Nat /\ w[C["ne"][a]] \in Nat
    BY <1>2, <2>5
  <2>9. Fits(C["eq"][e], 2 * w[e]) /\ Fits(C["ne"][e], 4 * w[e])
    BY <2>1, <2>4, <2>5, <2>8
  <2>10. val[e] \in {0, 2}
    BY <2>3
  <2> QED BY <1>b, <2>7, <2>9, <2>10
<1>9. ASSUME NEW o \in {"and", "or"}, NEW a \in E, NEW b \in E, e = <<o, a, b>> PROVE FALSE
  <2> DEFINE l == C["eq"][a]
             r == C["eq"][b]
             x == C["eq"][e]
             nx == C["ne"][e]
  <2>1. w[a] < w[e] /\ w[b] < w[e] /\ w[e] = w[a] + w[b] + 1 /\ w[a] \in Nat /\ w[b] \in Nat
    BY <1>5, <1>9, PartsOfTwo
  <2>2. P[a] /\ P[b] /\ 4 * w[a] <= bound /\ 4 * w[b] <= bound
    BY <1>2, <1>5, <1>b, <1>9, <2>1, PlainOf
  <2>3. /\ val[a] \in {0, 2} /\ Fits(l, 2 * w[a]) /\ Says(l, a, "eq")
        /\ val[b] \in {0, 2} /\ Fits(r, 2 * w[b]) /\ Says(r, b, "eq")
    BY <1>4, <2>1, <2>2
  <2>4. PICK d \in {"and", "or"} : (d = o <=> s = "y") /\ x = <<d, l, r>> /\ nx = <<"not", x>>
    BY <1>5, <1>9, TransCompareOf
  <2>6. val[e] = IF o = "and" THEN (IF val[a] < val[b] THEN val[a] ELSE val[b])
                              ELSE (IF val[a] > val[b] THEN val[a] ELSE val[b])
    BY <1>5, <1>9, ValueOf
  <2> HIDE DEF l, r, x, nx
  <2>7. w[l] \in Nat /\ w[r] \in Nat /\ w[l] + w[r] + 1 <= 2 * w[e] /\ 2 * (w[l] + w[r] + 1) <= bound
    <3>1. w[l] \in Nat /\ w[r] \in Nat /\ w[l] <= 2 * w[a] /\ w[r] <= 2 * w[b]
      BY <1>2, <2>3
    <3> QED BY <3>1, <1>2, <1>b, <2>1
  <2>8. x \in E /\ w[x] = w[l] + w[r] + 1
    <3>1. w[l] + w[r] + 1 <= bound
      BY <1>2, <2>7
    <3> QED BY <2>3, <2>4, <3>1, MakeTwo
  <2>9. val[x] = IF d = "and" THEN (IF val[l] < val[r] THEN val[l] ELSE val[r])
                              ELSE (IF val[l] > val[r] THEN val[l] ELSE val[r])
    BY <2>4, <2>8, ValueOf
  <2>10. nx \in E /\ w[nx] = 2 * w[x] /\ val[nx] = 2 - val[x]
    <3>1. 2 * w[x] <= bound
      BY <2>7, <2>8
    <3>2. nx \in E /\ w[nx] = 2 * w[x]
      BY <2>4, <2>8, <3>1, MakeNot
    <3> QED BY <2>4, <3>2, ValueOf
  <2>11. /\ val[e] \in {0, 2} /\ val[x] \in {0, 2} /\ val[nx] \in {0, 2}
         /\ (val[x] = 2 <=> (s = "y" <=> val[e] = 2)) /\ (val[nx] = 2 <=> val[x] # 2)
    BY <2>3, <2>4, <2>6, <2>9, <2>10
  <2>12. Fits(x, 2 * w[e]) /\ Fits(nx, 4 * w[e])
    BY <1>2, <2>1, <2>7, <2>8, <2>10, <2>11
  <2> QED BY <1>b, <2>11, <2>12 DEF x, nx
<1> QED BY <1>5, <1>6, <1>7, <1>8, <1>9, KindsOf
=============================================================================
