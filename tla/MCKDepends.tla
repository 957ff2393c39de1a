------------------------------ MODULE MCKDepends ------------------------------
(* An instance of KDepends for TLC: one symbol of each type. *)
EXTENDS KDepends

\* B bool, T tristate, I int, H hex
Types == [s \in {"B", "T", "I", "H"} |->
            CASE s = "B" -> "bool" [] s = "T" -> "tri" [] s = "I" -> "int" [] s = "H" -> "hex"]

Tri(t) == [tri |-> t, str |-> CASE t = no -> "n" [] t = mod -> "m" [] t = yes -> "y"]
Str(x) == [tri |-> no, str |-> x]

AllValuations ==
  {[s \in {"B", "T", "I", "H"} |->
      CASE s = "B" -> b [] s = "T" -> t [] s = "I" -> i [] s = "H" -> h] :
     b \in {Tri(no), Tri(yes)}, t \in {Tri(x) : x \in Tristate},
     i \in {Str("-1")}, h \in {Str("0x10")}}

SomeLeaves ==
  {Sym("B"), Sym("T"), Y, M, N,
   <<"eq", "T", "y">>, <<"eq", "T", "m">>, <<"eq", "T", "n">>,
   <<"ne", "T", "y">>, <<"ne", "T", "m">>, <<"ne", "T", "n">>,
   <<"eq", "B", "n">>, <<"ne", "B", "m">>,
   <<"eq", "T", "B">>, <<"lt", "I", "H">>, <<"ge", "T", "m">>}

SomeNames == {"B", "T", "I", "H", "y", "m", "n"}
ThirdLeaves == {Sym("B"), Sym("T"), N, <<"ne", "T", "n">>}
FourthLeaves == {Sym("B"), Sym("T")}
-----------------------------------------------------------------------------
\* The sets that the theorems of KRulesProofs quantify over are there: the expressions of
\* weight 4 or less, and on them the operators of KExpr as functions.
Light == LET E1 == {Sym(s) : s \in Names}
             E2 == {<<"not", a>> : a \in E1} \cup (Comparisons \X Names \X Names)
             Joins(A, B) == {"and", "or"} \X A \X B
         IN [e1 |-> E1, e2 |-> E2, e3 |-> Joins(E1, E1),
             e4 |-> {<<"not", a>> : a \in E2} \cup Joins(E1, E2) \cup Joins(E2, E1)]
All == Light.e1 \cup Light.e2 \cup Light.e3 \cup Light.e4
Weight(e) == CASE e \in Light.e1 -> 1 [] e \in Light.e2 -> 2 [] e \in Light.e3 -> 3 [] OTHER -> 4

ASSUME ExpressionsAssumption ==
  /\ Expressions(All, [e \in All |-> Weight(e)], 4)
  /\ \A v \in AllValuations : Valuation(v) /\ Values(All, v, [e \in All |-> expr_calc_value(e, v)])
  /\ Transforms(All, [e \in All |-> expr_transform(e)])
  /\ SweepsYN(All, [e \in All |-> expr_eliminate_yn(e)])
  /\ Compares(All, "n", [t \in {"eq", "ne"} |-> [e \in All |-> expr_trans_compare(e, t, "n")]])
  /\ Forms(All, [e \in All |-> NegatesSymbolsOnly(e)])
  /\ Plain(All, [e \in All |-> NoM(e)])

\* The pairs of two lists of m and n operands, in the order WalkPairs meets them.
Pairs(m, n) == [k \in 1..(m * n) |-> <<((k - 1) \div n) + 1, ((k - 1) % n) + 1>>]

\* The functions that walk over the operands of a level, on a smaller set: each walk meets
\* its pairs in the order of Pairs, and W holds the lists after each of them.
Alone == {Sym("B"), Sym("T"), Y, N, <<"not", Sym("B")>>, <<"ne", "T", "n">>}
RECURSIVE WeightOf(_)
WeightOf(e) == IF e[1] \in Levels THEN WeightOf(e[2]) + WeightOf(e[3]) + 1 ELSE Weight(e)
Few == Alone \cup (Levels \X Alone \X Alone)
FewOperands == [type \in Levels |-> [e \in Few |-> Operands(type, e)]]
FewWith == [type \in Levels |-> [p \in Few \X Seq(Few) |-> WithOperands(type, p[1], p[2])]]
FewEqual == [p \in Few \X Few |-> expr_eq(p[1], p[2])]
FewEliminated == [type \in Levels |-> [p \in Few \X Few |-> EliminateEqOf(type, p[1], p[2])]]
FewPasses == [e \in Few |-> expr_eliminate_dups1(e[1], e)]

ASSUME EqualityAssumption ==
  /\ Lists(Few, FewOperands)
  /\ Rebuilds(Few, FewOperands, FewWith)
  /\ Weighs(Few, [e \in Few |-> WeightOf(e)], FewOperands,
            [type \in Levels |-> [p \in Few \X Seq(Few) |-> WeightOf(WithOperands(type, p[1], p[2]))]])
  /\ \A type \in Levels : \A e1, e2 \in Few :
       LET p == Pairs(Len(FewOperands[type][e1]), Len(FewOperands[type][e2]))
           W[k \in 0..Len(p)] ==
             IF k = 0 THEN <<FewOperands[type][e1], FewOperands[type][e2]>>
             ELSE EliminatePairOf(FewEqual, type, W[k - 1], p[k])
       IN EliminatesInOrder(FewOperands, FewWith, FewEqual, type, e1, e2,
                            FewEliminated[type][<<e1, e2>>], Len(p), p, W)
  /\ Equals(Few, FewEliminated, [e \in Few |-> expr_eliminate_yn(e)], FewEqual)

ASSUME DupsAssumption ==
  \A e \in {x \in Few : x[1] \in Levels} :
    LET p == Pairs(Len(FewOperands[e[1]][e]), Len(FewOperands[e[1]][e]))
        W[k \in 0..Len(p)] ==
          IF k = 0 THEN [ops |-> FewOperands[e[1]][e], n |-> 0]
          ELSE MeetPairOf(FewPasses, FewEqual, e[1], W[k - 1], p[k])
    IN JoinsInOrder(FewOperands, FewWith, FewEqual, FewPasses, e[1], e, Len(p), p, W)
=============================================================================
