----------------------------- MODULE KLevelProofs -----------------------------
(***************************************************************************)
(* Theorems about the functions of KRules that walk over the operands of a *)
(* level of && or ||: __expr_eliminate_eq, expr_eq, expr_eliminate_dups1   *)
(* and expr_eliminate_dups, and about what menu_finalize makes with them.  *)
(*   A level of && is at least t exactly if all its operands are, and one  *)
(* of || at most t: AtLimit.  A step of a walk is judged by that for every *)
(* t, so that && and || need one argument, and the order in which pairs    *)
(* of operands meet is left open.  expr_eq and the walks call each other   *)
(* for lighter expressions only, which the least counterexample carries.   *)
(***************************************************************************)
EXTENDS KRulesProofs

\* x is at least t for &&, at most t for ||.
AtLimit(type, x, t) == IF type = "and" THEN x >= t ELSE x <= t

\* A set of numbers that is not empty has a least one.
LEMMA LeastNumber ==
  ASSUME NEW B, B \subseteq Nat, B # {}
  PROVE \E x \in B : \A y \in B : x <= y
<1> DEFINE w == [k \in Nat |-> k]
<1>1. \E x \in B : \A y \in B : w[x] <= w[y]
  <2>1. w \in [Nat -> Nat]
    OBVIOUS
  <2> HIDE DEF w
  <2> QED BY <2>1, LeastWeight
<1> QED BY <1>1

\* Induction along the steps of a walk.
LEMMA UpTo ==
  ASSUME NEW n \in Nat, NEW G, 0 \in G, \A k \in 1..n : k - 1 \in G => k \in G
  PROVE n \in G
<1> DEFINE Bad == {k \in 0..n : k \notin G}
<1>1. SUFFICES ASSUME Bad # {} PROVE FALSE
  OBVIOUS
<1>2. PICK k \in Bad : \A y \in Bad : k <= y
  <2>1. Bad \subseteq Nat
    OBVIOUS
  <2> HIDE DEF Bad
  <2> QED BY <1>1, <2>1, LeastNumber
<1>3. k \in 0..n /\ k \notin G
  OBVIOUS
<1>4. k - 1 \in 0..n /\ k \in 1..n /\ k - 1 < k
  BY <1>3
<1>5. k - 1 \in G
  BY <1>2, <1>4
<1> QED BY <1>3, <1>4, <1>5

\* Sequences joined and split, under names that the provers do not look into.
Cat(a, b) == a \o b
Left(l, m) == SubSeq(l, 1, m)
Right(l, m) == SubSeq(l, m + 1, Len(l))
Size(l) == Len(l)

IsList(l, E) == Size(l) \in Nat /\ l \in [1..Size(l) -> E]
AllAt(type, l, val, t) == \A i \in 1..Size(l) : AtLimit(type, val[l[i]], t)

\* Two lists make a list.
LEMMA CatIs ==
  ASSUME NEW E, NEW a, NEW b, IsList(a, E), IsList(b, E)
  PROVE IsList(Cat(a, b), E) /\ Size(Cat(a, b)) = Size(a) + Size(b)
<1>1. a \in Seq(E) /\ b \in Seq(E)
  BY DEF IsList, Size
<1>2. Cat(a, b) \in Seq(E) /\ Size(Cat(a, b)) = Size(a) + Size(b)
  BY <1>1 DEF Cat, Size
<1> QED BY <1>2 DEF IsList, Size

\* A list splits into two.
LEMMA SplitIs ==
  ASSUME NEW E, NEW l, IsList(l, E), NEW m \in 0..Size(l)
  PROVE /\ IsList(Left(l, m), E) /\ Size(Left(l, m)) = m
        /\ IsList(Right(l, m), E) /\ Size(Right(l, m)) = Size(l) - m
        /\ \A i \in 1..m : Left(l, m)[i] = l[i]
        /\ \A i \in 1..(Size(l) - m) : Right(l, m)[i] = l[m + i]
<1> DEFINE n == Size(l) - m
<1>1. l \in Seq(E) /\ m \in Nat /\ n \in Nat /\ Size(l) = m + n
  BY DEF IsList, Size
<1> HIDE DEF n
<1>2. Left(l, m) \in Seq(E) /\ Size(Left(l, m)) = m
  BY <1>1 DEF Left, Size
<1>3. Right(l, m) \in Seq(E) /\ Size(Right(l, m)) = n
  BY <1>1 DEF Right, Size
<1>4. \A i \in 1..m : Left(l, m)[i] = l[i]
  BY <1>1 DEF Left, Size
<1>5. \A i \in 1..n : Right(l, m)[i] = l[m + i]
  BY <1>1 DEF Right, Size
<1> QED BY <1>2, <1>3, <1>4, <1>5 DEF IsList, Size, n

\* What is no level has itself as its operand.
LEMMA ListOfLeaf ==
  ASSUME NEW E, NEW O, Lists(E, O), NEW type \in Levels, NEW e \in E, e[1] # type
  PROVE O[type][e] = <<e>>
<1>1. O[type][e] = operands(type, e, LAMBDA x : O[type][x])
  BY DEF Lists
<1> QED BY <1>1 DEF operands

\* The operands of a level are those of its left part, then of its right part.
LEMMA ListOfLevel ==
  ASSUME NEW E, NEW O, Lists(E, O), NEW type \in Levels, NEW e \in E, e[1] = type
  PROVE O[type][e] = Cat(O[type][e[2]], O[type][e[3]])
<1>1. O[type][e] = operands(type, e, LAMBDA x : O[type][x])
  BY DEF Lists
<1> QED BY <1>1 DEF operands, Cat

\* What is no level becomes its new operand.
LEMMA RebuiltLeaf ==
  ASSUME NEW E, NEW O, NEW R, Rebuilds(E, O, R), NEW type \in Levels, NEW e \in E,
         NEW l, IsList(l, E), Size(l) = Size(O[type][e]), e[1] # type
  PROVE R[type][<<e, l>>] = l[1]
<1>1. R[type][<<e, l>>] =
        with_operands(type, e, l, LAMBDA x : O[type][x], LAMBDA x, k : R[type][<<x, k>>])
  BY DEF Rebuilds, IsList, Size
<1> QED BY <1>1 DEF with_operands

\* A level is rebuilt part by part.
LEMMA RebuiltLevel ==
  ASSUME NEW E, NEW O, NEW R, Rebuilds(E, O, R), NEW type \in Levels, NEW e \in E,
         NEW l, IsList(l, E), Size(l) = Size(O[type][e]), e[1] = type
  PROVE R[type][<<e, l>>] = <<type, R[type][<<e[2], Left(l, Size(O[type][e[2]]))>>],
                                    R[type][<<e[3], Right(l, Size(O[type][e[2]]))>>]>>
<1>1. R[type][<<e, l>>] =
        with_operands(type, e, l, LAMBDA x : O[type][x], LAMBDA x, k : R[type][<<x, k>>])
  BY DEF Rebuilds, IsList, Size
<1> QED BY <1>1 DEF with_operands, Left, Right, Size

\* The weight of what is no level, rebuilt.
LEMMA WeightLeaf ==
  ASSUME NEW E, NEW w, NEW O, NEW V, Weighs(E, w, O, V), NEW type \in Levels, NEW e \in E,
         NEW l, IsList(l, E), Size(l) = Size(O[type][e]), e[1] # type
  PROVE V[type][<<e, l>>] = w[l[1]]
<1>1. V[type][<<e, l>>] = weight(type, e, l, w, LAMBDA x : O[type][x], LAMBDA x, k : V[type][<<x, k>>])
  BY DEF Weighs, IsList, Size
<1> QED BY <1>1 DEF weight

\* The weight of a level, rebuilt.
LEMMA WeightLevel ==
  ASSUME NEW E, NEW w, NEW O, NEW V, Weighs(E, w, O, V), NEW type \in Levels, NEW e \in E,
         NEW l, IsList(l, E), Size(l) = Size(O[type][e]), e[1] = type
  PROVE V[type][<<e, l>>] = V[type][<<e[2], Left(l, Size(O[type][e[2]]))>>]
                             + V[type][<<e[3], Right(l, Size(O[type][e[2]]))>>] + 1
<1>1. V[type][<<e, l>>] = weight(type, e, l, w, LAMBDA x : O[type][x], LAMBDA x, k : V[type][<<x, k>>])
  BY DEF Weighs, IsList, Size
<1> QED BY <1>1 DEF weight, Left, Right, Size

\* The parts of a level are lighter than it.
LEMMA PartsOfLevel ==
  ASSUME NEW E, NEW w, NEW bound, Expressions(E, w, bound), NEW type \in Levels, NEW e \in E, e[1] = type
  PROVE /\ e[2] \in E /\ e[3] \in E /\ e = <<type, e[2], e[3]>>
        /\ w[e[2]] \in Nat /\ w[e[3]] \in Nat /\ w[e] \in Nat /\ bound \in Nat
        /\ w[e[2]] < w[e] /\ w[e[3]] < w[e] /\ w[e] = w[e[2]] + w[e[3]] + 1 /\ w[e] <= bound
<1>1. PICK t \in {"and", "or"}, a \in E, b \in E : e = <<t, a, b>>
  BY KindsOf, SixComparisons DEF Sym, Levels
<1>2. t = type /\ e[2] = a /\ e[3] = b
  BY <1>1
<1> QED BY <1>1, <1>2, PartsOfTwo

\* All operands of a level are in E, and there is one.
LEMMA ListIsInE ==
  ASSUME NEW E, NEW w, NEW bound, Expressions(E, w, bound), NEW O, Lists(E, O), NEW type \in Levels
  PROVE \A e \in E : IsList(O[type][e], E) /\ Size(O[type][e]) >= 1
<1> DEFINE Good(e) == IsList(O[type][e], E) /\ Size(O[type][e]) >= 1
           Bad == {e \in E : ~Good(e)}
<1>1. SUFFICES ASSUME Bad # {} PROVE FALSE
  OBVIOUS
<1>2. w \in [E -> Nat]
  BY DEF Expressions
<1>3. PICK e \in Bad : \A y \in Bad : w[e] <= w[y]
  BY <1>1, <1>2, LeastWeight
<1>4. ASSUME NEW y \in E, w[y] < w[e] PROVE Good(y)
  BY <1>2, <1>3, <1>4
<1>5. e \in E
  OBVIOUS
<1> SUFFICES Good(e)
  OBVIOUS
<1> HIDE DEF Bad
<1>6. CASE e[1] # type
  <2>1. O[type][e] = <<e>>
    BY <1>5, <1>6, ListOfLeaf
  <2>2. <<e>> \in [1..Size(<<e>>) -> E] /\ Size(<<e>>) = 1
    BY <1>5 DEF Size
  <2> QED BY <2>1, <2>2 DEF IsList
<1>7. CASE e[1] = type
  <2>1. e[2] \in E /\ e[3] \in E /\ w[e[2]] < w[e] /\ w[e[3]] < w[e]
    BY <1>5, <1>7, PartsOfLevel
  <2>2. O[type][e] = Cat(O[type][e[2]], O[type][e[3]])
    BY <1>5, <1>7, ListOfLevel
  <2>3. Good(e[2]) /\ Good(e[3])
    BY <1>4, <2>1
  <2>4. /\ IsList(O[type][e], E)
        /\ Size(O[type][e]) = Size(O[type][e[2]]) + Size(O[type][e[3]])
    BY <2>2, <2>3, CatIs
  <2>5. Size(O[type][e[2]]) \in Nat /\ Size(O[type][e[3]]) \in Nat
    BY <2>3 DEF IsList
  <2> QED BY <2>3, <2>4, <2>5
<1> QED BY <1>6, <1>7

\* An element of the first of two lists.
LEMMA CatLeft ==
  ASSUME NEW E, NEW a, NEW b, IsList(a, E), IsList(b, E), NEW i \in 1..Size(a)
  PROVE Cat(a, b)[i] = a[i]
<1>1. a \in Seq(E) /\ b \in Seq(E)
  BY DEF IsList, Size
<1> QED BY <1>1 DEF Cat, Size

\* An element of the second of two lists.
LEMMA CatRight ==
  ASSUME NEW E, NEW a, NEW b, IsList(a, E), IsList(b, E), NEW i \in 1..Size(b)
  PROVE Cat(a, b)[Size(a) + i] = b[i]
<1>1. a \in Seq(E) /\ b \in Seq(E)
  BY DEF IsList, Size
<1> QED BY <1>1 DEF Cat, Size

\* All of two lists are at the limit if all of each are.
LEMMA AllAtCat ==
  ASSUME NEW E, NEW a, NEW b, IsList(a, E), IsList(b, E), NEW type, NEW val, NEW t
  PROVE AllAt(type, Cat(a, b), val, t) <=> AllAt(type, a, val, t) /\ AllAt(type, b, val, t)
<1>s. Size(a) \in Nat /\ Size(b) \in Nat
  BY DEF IsList
<1>1. /\ Size(Cat(a, b)) = Size(a) + Size(b)
      /\ \A i \in 1..Size(a) : Cat(a, b)[i] = a[i]
      /\ \A i \in 1..Size(b) : Cat(a, b)[Size(a) + i] = b[i]
  <2>1. Size(Cat(a, b)) = Size(a) + Size(b)
    BY CatIs
  <2>2. ASSUME NEW i \in 1..Size(a) PROVE Cat(a, b)[i] = a[i]
    BY CatLeft
  <2>3. ASSUME NEW i \in 1..Size(b) PROVE Cat(a, b)[Size(a) + i] = b[i]
    BY CatRight
  <2> QED BY <2>1, <2>2, <2>3
<1> DEFINE P(x) == AtLimit(type, val[x], t)
<1> HIDE DEF P
<1>2. (\A i \in 1..Size(Cat(a, b)) : P(Cat(a, b)[i])) <=>
        (\A i \in 1..Size(a) : P(a[i])) /\ (\A i \in 1..Size(b) : P(b[i]))
  <2>1. ASSUME \A i \in 1..Size(Cat(a, b)) : P(Cat(a, b)[i])
        PROVE (\A i \in 1..Size(a) : P(a[i])) /\ (\A i \in 1..Size(b) : P(b[i]))
    <3>1. ASSUME NEW i \in 1..Size(a) PROVE P(a[i])
      BY <1>s, <1>1, <2>1
    <3>2. ASSUME NEW i \in 1..Size(b) PROVE P(b[i])
      <4>1. Size(a) + i \in 1..Size(Cat(a, b))
        BY <1>s, <1>1
      <4> QED BY <1>s, <1>1, <2>1, <4>1
    <3> QED BY <3>1, <3>2
  <2>2. ASSUME \A i \in 1..Size(a) : P(a[i]), \A i \in 1..Size(b) : P(b[i]),
               NEW i \in 1..Size(Cat(a, b))
        PROVE P(Cat(a, b)[i])
    <3>1. CASE i <= Size(a)
      <4>1. i \in 1..Size(a)
        BY <1>s, <1>1, <3>1
      <4> QED BY <1>s, <1>1, <2>2, <4>1
    <3>2. CASE i > Size(a)
      <4>1. i - Size(a) \in 1..Size(b) /\ Size(a) + (i - Size(a)) = i
        BY <1>s, <1>1, <3>2
      <4> QED BY <1>s, <1>1, <2>2, <4>1
    <3> QED BY <1>s, <1>1, <3>1, <3>2
  <2> QED BY <2>1, <2>2
<1> QED BY <1>2 DEF P, AllAt

\* All of a list are at the limit if all of its two parts are.
LEMMA AllAtSplit ==
  ASSUME NEW E, NEW l, IsList(l, E), NEW m \in 0..Size(l), NEW type, NEW val, NEW t
  PROVE AllAt(type, l, val, t) <=> AllAt(type, Left(l, m), val, t) /\ AllAt(type, Right(l, m), val, t)
<1> DEFINE n == Size(l) - m
<1>s. m \in Nat /\ n \in Nat /\ Size(l) = m + n
  BY DEF IsList
<1>1. /\ Size(Left(l, m)) = m /\ Size(Right(l, m)) = n
      /\ \A i \in 1..m : Left(l, m)[i] = l[i]
      /\ \A i \in 1..n : Right(l, m)[i] = l[m + i]
  BY SplitIs
<1> HIDE DEF n
<1> DEFINE P(x) == AtLimit(type, val[x], t)
<1> HIDE DEF P
<1>2. (\A i \in 1..Size(l) : P(l[i])) <=>
        (\A i \in 1..m : P(Left(l, m)[i])) /\ (\A i \in 1..n : P(Right(l, m)[i]))
  <2>1. ASSUME \A i \in 1..Size(l) : P(l[i])
        PROVE (\A i \in 1..m : P(Left(l, m)[i])) /\ (\A i \in 1..n : P(Right(l, m)[i]))
    <3>1. ASSUME NEW i \in 1..m PROVE P(Left(l, m)[i])
      BY <1>s, <1>1, <2>1
    <3>2. ASSUME NEW i \in 1..n PROVE P(Right(l, m)[i])
      <4>1. m + i \in 1..Size(l)
        BY <1>s
      <4> QED BY <1>s, <1>1, <2>1, <4>1
    <3> QED BY <3>1, <3>2
  <2>2. ASSUME \A i \in 1..m : P(Left(l, m)[i]), \A i \in 1..n : P(Right(l, m)[i]), NEW i \in 1..Size(l)
        PROVE P(l[i])
    <3>1. CASE i <= m
      <4>1. i \in 1..m
        BY <1>s, <3>1
      <4> QED BY <1>s, <1>1, <2>2, <4>1
    <3>2. CASE i > m
      <4>1. i - m \in 1..n /\ m + (i - m) = i
        BY <1>s, <3>2
      <4> QED BY <1>s, <1>1, <2>2, <4>1
    <3> QED BY <3>1, <3>2
  <2> QED BY <2>1, <2>2
<1> QED BY <1>s, <1>1, <1>2 DEF P, AllAt

\* A level is at the limit exactly if its two parts are.
LEMMA ValueOfLevel ==
  ASSUME NEW E, NEW w, NEW bound, Expressions(E, w, bound),
         NEW v, NEW val, Valuation(v), Values(E, v, val),
         NEW type \in Levels, NEW e \in E, e[1] = type, NEW t \in Tristate
  PROVE AtLimit(type, val[e], t) <=> AtLimit(type, val[e[2]], t) /\ AtLimit(type, val[e[3]], t)
<1>1. e[2] \in E /\ e[3] \in E /\ e = <<type, e[2], e[3]>>
  BY PartsOfLevel
<1>2. val[e[2]] \in {0, 1, 2} /\ val[e[3]] \in {0, 1, 2}
  BY <1>1, ValueIsTristate DEF Tristate, no, mod, yes
<1>3. t \in {0, 1, 2}
  BY DEF Tristate, no, mod, yes
<1>4. CASE type = "and"
  <2>1. val[e] = IF val[e[2]] < val[e[3]] THEN val[e[2]] ELSE val[e[3]]
    BY <1>1, <1>4, ValueOf
  <2> QED BY <1>2, <1>3, <1>4, <2>1 DEF AtLimit
<1>5. CASE type = "or"
  <2>1. val[e] = IF val[e[2]] > val[e[3]] THEN val[e[2]] ELSE val[e[3]]
    BY <1>1, <1>5, ValueOf
  <2> QED BY <1>2, <1>3, <1>5, <2>1 DEF AtLimit
<1> QED BY <1>4, <1>5 DEF Levels

\* A mark of expressions that a level has exactly if its two operands have it.
Meets(E, type, val, t) ==
  \A e \in E : e[1] = type =>
    (AtLimit(type, val[e], t) <=> AtLimit(type, val[e[2]], t) /\ AtLimit(type, val[e[3]], t))

\* Values are such a mark.
LEMMA ValuesMeet ==
  ASSUME NEW E, NEW w, NEW bound, Expressions(E, w, bound),
         NEW v, NEW val, Valuation(v), Values(E, v, val), NEW type \in Levels, NEW t \in Tristate
  PROVE Meets(E, type, val, t)
<1>1. ASSUME NEW e \in E, e[1] = type
      PROVE AtLimit(type, val[e], t) <=> AtLimit(type, val[e[2]], t) /\ AtLimit(type, val[e[3]], t)
  BY <1>1, ValueOfLevel
<1> QED BY <1>1 DEF Meets

\* A level is at the limit exactly if all its operands are.
LEMMA LevelValue ==
  ASSUME NEW E, NEW w, NEW bound, Expressions(E, w, bound), NEW O, Lists(E, O),
         NEW type \in Levels, NEW val, NEW t, Meets(E, type, val, t)
  PROVE \A e \in E : AtLimit(type, val[e], t) <=> AllAt(type, O[type][e], val, t)
<1> DEFINE Good(e) == AtLimit(type, val[e], t) <=> AllAt(type, O[type][e], val, t)
           Bad == {e \in E : ~Good(e)}
<1>1. SUFFICES ASSUME Bad # {} PROVE FALSE
  OBVIOUS
<1>2. w \in [E -> Nat]
  BY DEF Expressions
<1>3. PICK e \in Bad : \A y \in Bad : w[e] <= w[y]
  BY <1>1, <1>2, LeastWeight
<1>4. ASSUME NEW y \in E, w[y] < w[e] PROVE Good(y)
  BY <1>2, <1>3, <1>4
<1>5. e \in E
  OBVIOUS
<1> SUFFICES Good(e)
  OBVIOUS
<1> HIDE DEF Bad
<1>6. CASE e[1] # type
  <2>1. O[type][e] = <<e>>
    BY <1>5, <1>6, ListOfLeaf
  <2>2. Size(<<e>>) = 1 /\ <<e>>[1] = e
    BY DEF Size
  <2> QED BY <2>1, <2>2 DEF AllAt
<1>7. CASE e[1] = type
  <2>1. e[2] \in E /\ e[3] \in E /\ w[e[2]] < w[e] /\ w[e[3]] < w[e]
    BY <1>5, <1>7, PartsOfLevel
  <2>2. O[type][e] = Cat(O[type][e[2]], O[type][e[3]])
    BY <1>5, <1>7, ListOfLevel
  <2>3. Good(e[2]) /\ Good(e[3])
    BY <1>4, <2>1
  <2>4. IsList(O[type][e[2]], E) /\ IsList(O[type][e[3]], E)
    BY <2>1, ListIsInE
  <2>5. AllAt(type, O[type][e], val, t) <=> AllAt(type, O[type][e[2]], val, t) /\ AllAt(type, O[type][e[3]], val, t)
    BY <2>2, <2>4, AllAtCat
  <2>6. AtLimit(type, val[e], t) <=> AtLimit(type, val[e[2]], t) /\ AtLimit(type, val[e[3]], t)
    BY <1>5, <1>7 DEF Meets
  <2> QED BY <2>3, <2>5, <2>6
<1> QED BY <1>6, <1>7

-----------------------------------------------------------------------------
(* An expression rebuilt with other operands. *)

Put(l, i, x) == [l EXCEPT ![i] = x]

\* A list with another element is a list.
LEMMA PutIs ==
  ASSUME NEW E, NEW l, IsList(l, E), NEW i \in 1..Size(l), NEW x \in E
  PROVE IsList(Put(l, i, x), E) /\ Size(Put(l, i, x)) = Size(l) /\ Put(l, i, x)[i] = x
  BY DEF IsList, Size, Put

\* The other elements stay.
LEMMA PutKeeps ==
  ASSUME NEW E, NEW l, IsList(l, E), NEW i \in 1..Size(l), NEW x \in E, NEW j \in 1..Size(l), j # i
  PROVE Put(l, i, x)[j] = l[j]
  BY DEF IsList, Size, Put

\* An element of the left part of a list.
LEMMA LeftAt ==
  ASSUME NEW E, NEW l, IsList(l, E), NEW m \in 0..Size(l), NEW i \in 1..m
  PROVE Left(l, m)[i] = l[i]
<1>1. l \in Seq(E) /\ m \in Nat
  BY DEF IsList, Size
<1> QED BY <1>1 DEF Left, Size

\* An element of the right part of a list.
LEMMA RightAt ==
  ASSUME NEW E, NEW l, IsList(l, E), NEW m \in 0..Size(l), NEW i \in 1..(Size(l) - m)
  PROVE Right(l, m)[i] = l[m + i]
<1>1. l \in Seq(E) /\ m \in Nat
  BY DEF IsList, Size
<1> QED BY <1>1 DEF Right, Size

\* Lists with the same elements are the same.
LEMMA SameList ==
  ASSUME NEW E, NEW a, NEW b, IsList(a, E), IsList(b, E), Size(a) = Size(b),
         \A i \in 1..Size(a) : a[i] = b[i]
  PROVE a = b
  BY DEF IsList

\* An element put into the left part.
LEMMA PutInLeft ==
  ASSUME NEW E, NEW l, IsList(l, E), NEW m \in 0..Size(l), NEW i \in 1..Size(l), NEW x \in E, i <= m
  PROVE /\ Left(Put(l, i, x), m) = Put(Left(l, m), i, x)
        /\ Right(Put(l, i, x), m) = Right(l, m)
<1> DEFINE p == Put(l, i, x)
<1>1. IsList(p, E) /\ Size(p) = Size(l) /\ m \in 0..Size(p)
  BY PutIs
<1>2. /\ IsList(Left(l, m), E) /\ Size(Left(l, m)) = m
      /\ IsList(Right(l, m), E) /\ Size(Right(l, m)) = Size(l) - m
  BY SplitIs
<1>3. /\ IsList(Left(p, m), E) /\ Size(Left(p, m)) = m
      /\ IsList(Right(p, m), E) /\ Size(Right(p, m)) = Size(l) - m
  BY <1>1, SplitIs
<1>4. i \in 1..Size(Left(l, m)) /\ Size(l) \in Nat /\ m \in Nat
  BY <1>2 DEF IsList
<1>5. /\ IsList(Put(Left(l, m), i, x), E) /\ Size(Put(Left(l, m), i, x)) = m
      /\ Put(Left(l, m), i, x)[i] = x
  BY <1>2, <1>4, PutIs
<1>6. ASSUME NEW j \in 1..m PROVE Left(p, m)[j] = Put(Left(l, m), i, x)[j]
  <2>1. Left(p, m)[j] = p[j] /\ j \in 1..Size(l)
    BY <1>1, <1>4, LeftAt
  <2>2. CASE j = i
    BY <2>1, <2>2, <1>5, PutIs
  <2>3. CASE j # i
    <3>1. p[j] = l[j]
      BY <2>1, <2>3, PutKeeps
    <3>2. Put(Left(l, m), i, x)[j] = Left(l, m)[j]
      BY <1>2, <1>4, <2>3, PutKeeps
    <3>3. Left(l, m)[j] = l[j]
      BY LeftAt
    <3> QED BY <2>1, <3>1, <3>2, <3>3
  <2> QED BY <2>2, <2>3
<1>7. ASSUME NEW j \in 1..(Size(l) - m) PROVE Right(p, m)[j] = Right(l, m)[j]
  <2>1. j \in 1..(Size(p) - m) /\ m + j \in 1..Size(l) /\ m + j # i
    BY <1>1, <1>4
  <2>2. Right(p, m)[j] = p[m + j]
    BY <1>1, <2>1, RightAt
  <2>3. p[m + j] = l[m + j]
    BY <2>1, PutKeeps
  <2>4. Right(l, m)[j] = l[m + j]
    BY RightAt
  <2> QED BY <2>2, <2>3, <2>4
<1> HIDE DEF p
<1>8. Left(p, m) = Put(Left(l, m), i, x)
  BY <1>3, <1>5, <1>6, SameList
<1>9. Right(p, m) = Right(l, m)
  BY <1>2, <1>3, <1>7, SameList
<1> QED BY <1>8, <1>9 DEF p

\* An element put into the right part.
LEMMA PutInRight ==
  ASSUME NEW E, NEW l, IsList(l, E), NEW m \in 0..Size(l), NEW i \in 1..Size(l), NEW x \in E, i > m
  PROVE /\ Left(Put(l, i, x), m) = Left(l, m)
        /\ i - m \in 1..Size(Right(l, m))
        /\ Right(Put(l, i, x), m) = Put(Right(l, m), i - m, x)
        /\ Right(l, m)[i - m] = l[i]
<1> DEFINE p == Put(l, i, x)
           k == i - m
<1>1. IsList(p, E) /\ Size(p) = Size(l) /\ m \in 0..Size(p)
  BY PutIs
<1>2. /\ IsList(Left(l, m), E) /\ Size(Left(l, m)) = m
      /\ IsList(Right(l, m), E) /\ Size(Right(l, m)) = Size(l) - m
  BY SplitIs
<1>3. /\ IsList(Left(p, m), E) /\ Size(Left(p, m)) = m
      /\ IsList(Right(p, m), E) /\ Size(Right(p, m)) = Size(l) - m
  BY <1>1, SplitIs
<1>4. k \in 1..(Size(l) - m) /\ Size(l) \in Nat /\ m \in Nat /\ m + k = i
  BY <1>2 DEF IsList
<1> HIDE DEF k
<1>5. /\ IsList(Put(Right(l, m), k, x), E) /\ Size(Put(Right(l, m), k, x)) = Size(l) - m
      /\ Put(Right(l, m), k, x)[k] = x
  BY <1>2, <1>4, PutIs
<1>6. ASSUME NEW j \in 1..(Size(l) - m) PROVE Right(p, m)[j] = Put(Right(l, m), k, x)[j]
  <2>1. j \in 1..(Size(p) - m) /\ m + j \in 1..Size(l)
    BY <1>1, <1>4
  <2>2. Right(p, m)[j] = p[m + j]
    BY <1>1, <2>1, RightAt
  <2>3. CASE j = k
    BY <2>2, <2>3, <1>4, <1>5, PutIs
  <2>4. CASE j # k
    <3>1. m + j # i
      BY <1>4, <2>4
    <3>2. p[m + j] = l[m + j]
      BY <2>1, <3>1, PutKeeps
    <3>3. Put(Right(l, m), k, x)[j] = Right(l, m)[j]
      BY <1>2, <1>4, <2>4, PutKeeps
    <3>4. Right(l, m)[j] = l[m + j]
      BY RightAt
    <3> QED BY <2>2, <3>2, <3>3, <3>4
  <2> QED BY <2>3, <2>4
<1>7. ASSUME NEW j \in 1..m PROVE Left(p, m)[j] = Left(l, m)[j]
  <2>1. j \in 1..Size(l) /\ j # i
    BY <1>4
  <2>2. Left(p, m)[j] = p[j]
    BY <1>1, LeftAt
  <2>3. p[j] = l[j]
    BY <2>1, PutKeeps
  <2>4. Left(l, m)[j] = l[j]
    BY LeftAt
  <2> QED BY <2>2, <2>3, <2>4
<1>8. Right(l, m)[k] = l[i]
  BY <1>4, RightAt
<1> HIDE DEF p
<1>9. Right(p, m) = Put(Right(l, m), k, x)
  BY <1>3, <1>5, <1>6, SameList
<1>10. Left(p, m) = Left(l, m)
  BY <1>2, <1>3, <1>7, SameList
<1> QED BY <1>2, <1>4, <1>8, <1>9, <1>10 DEF p, k

\* A list that can take the place of the operands of e.
Fits(l, e, type, O, E) == IsList(l, E) /\ Size(l) = Size(O[type][e])

\* A list that fits a level splits into two that fit its parts.
LEMMA FitsParts ==
  ASSUME NEW E, NEW w, NEW bound, Expressions(E, w, bound), NEW O, Lists(E, O),
         NEW type \in Levels, NEW e \in E, e[1] = type, NEW l, Fits(l, e, type, O, E)
  PROVE /\ Size(O[type][e[2]]) \in 0..Size(l)
        /\ Fits(Left(l, Size(O[type][e[2]])), e[2], type, O, E)
        /\ Fits(Right(l, Size(O[type][e[2]])), e[3], type, O, E)
<1> DEFINE m == Size(O[type][e[2]])
<1>1. e[2] \in E /\ e[3] \in E
  BY PartsOfLevel
<1>2. IsList(O[type][e[2]], E) /\ IsList(O[type][e[3]], E)
  BY <1>1, ListIsInE
<1>3. O[type][e] = Cat(O[type][e[2]], O[type][e[3]])
  BY ListOfLevel
<1>4. Size(l) = m + Size(O[type][e[3]]) /\ IsList(l, E)
  BY <1>2, <1>3, CatIs DEF Fits
<1>5. m \in Nat /\ Size(O[type][e[3]]) \in Nat
  BY <1>2 DEF IsList
<1>6. m \in 0..Size(l) /\ Size(l) - m = Size(O[type][e[3]])
  BY <1>4, <1>5
<1> HIDE DEF m
<1>7. /\ IsList(Left(l, m), E) /\ Size(Left(l, m)) = m
      /\ IsList(Right(l, m), E) /\ Size(Right(l, m)) = Size(l) - m
  BY <1>4, <1>6, SplitIs
<1> QED BY <1>6, <1>7 DEF Fits, m

\* A list that fits what is no level has one element.
LEMMA FitsLeaf ==
  ASSUME NEW E, NEW O, Lists(E, O), NEW type \in Levels, NEW e \in E, e[1] # type,
         NEW l, Fits(l, e, type, O, E)
  PROVE Size(l) = 1 /\ l[1] \in E
<1>1. O[type][e] = <<e>>
  BY ListOfLeaf
<1>2. Size(<<e>>) = 1
  BY DEF Size
<1> QED BY <1>1, <1>2 DEF Fits, IsList

\* A rebuilt expression has a weight.
LEMMA WeightIsNat ==
  ASSUME NEW E, NEW w, NEW bound, Expressions(E, w, bound), NEW O, Lists(E, O),
         NEW V, Weighs(E, w, O, V), NEW type \in Levels
  PROVE \A e \in E : \A l : Fits(l, e, type, O, E) => V[type][<<e, l>>] \in Nat
<1> DEFINE Good(e) == \A l : Fits(l, e, type, O, E) => V[type][<<e, l>>] \in Nat
           Bad == {e \in E : ~Good(e)}
<1>1. SUFFICES ASSUME Bad # {} PROVE FALSE
  OBVIOUS
<1>2. w \in [E -> Nat]
  BY DEF Expressions
<1>3. PICK e \in Bad : \A y \in Bad : w[e] <= w[y]
  BY <1>1, <1>2, LeastWeight
<1>4. ASSUME NEW y \in E, w[y] < w[e] PROVE Good(y)
  BY <1>2, <1>3, <1>4
<1>5. e \in E
  OBVIOUS
<1> SUFFICES Good(e)
  OBVIOUS
<1> HIDE DEF Bad
<1>6. ASSUME NEW l, Fits(l, e, type, O, E) PROVE V[type][<<e, l>>] \in Nat
  <2>1. IsList(l, E) /\ Size(l) = Size(O[type][e])
    BY <1>6 DEF Fits
  <2>2. CASE e[1] # type
    <3>1. V[type][<<e, l>>] = w[l[1]]
      BY <1>5, <2>1, <2>2, WeightLeaf
    <3>2. l[1] \in E
      BY <1>5, <1>6, <2>2, FitsLeaf
    <3> QED BY <1>2, <3>1, <3>2
  <2>3. CASE e[1] = type
    <3> DEFINE m == Size(O[type][e[2]])
    <3>1. e[2] \in E /\ e[3] \in E /\ w[e[2]] < w[e] /\ w[e[3]] < w[e]
      BY <1>5, <2>3, PartsOfLevel
    <3>2. Fits(Left(l, m), e[2], type, O, E) /\ Fits(Right(l, m), e[3], type, O, E)
      BY <1>5, <1>6, <2>3, FitsParts
    <3>3. V[type][<<e, l>>] = V[type][<<e[2], Left(l, m)>>] + V[type][<<e[3], Right(l, m)>>] + 1
      BY <1>5, <2>1, <2>3, WeightLevel
    <3>4. Good(e[2]) /\ Good(e[3])
      BY <1>4, <3>1
    <3>5. V[type][<<e[2], Left(l, m)>>] \in Nat /\ V[type][<<e[3], Right(l, m)>>] \in Nat
      BY <3>2, <3>4
    <3> HIDE DEF m
    <3> QED BY <3>3, <3>5
  <2> QED BY <2>2, <2>3
<1> QED BY <1>6

\* Rebuilt with its own operands, an expression weighs what it weighs.
LEMMA OwnWeight ==
  ASSUME NEW E, NEW w, NEW bound, Expressions(E, w, bound), NEW O, Lists(E, O),
         NEW V, Weighs(E, w, O, V), NEW type \in Levels
  PROVE \A e \in E : V[type][<<e, O[type][e]>>] = w[e]
<1> DEFINE Good(e) == V[type][<<e, O[type][e]>>] = w[e]
           Bad == {e \in E : ~Good(e)}
<1>1. SUFFICES ASSUME Bad # {} PROVE FALSE
  OBVIOUS
<1>2. w \in [E -> Nat]
  BY DEF Expressions
<1>3. PICK e \in Bad : \A y \in Bad : w[e] <= w[y]
  BY <1>1, <1>2, LeastWeight
<1>4. ASSUME NEW y \in E, w[y] < w[e] PROVE Good(y)
  BY <1>2, <1>3, <1>4
<1>5. e \in E
  OBVIOUS
<1> SUFFICES Good(e)
  OBVIOUS
<1> HIDE DEF Bad
<1> DEFINE l == O[type][e]
<1>6. IsList(l, E)
  BY <1>5, ListIsInE
<1>7. CASE e[1] # type
  <2>1. l = <<e>>
    BY <1>5, <1>7, ListOfLeaf
  <2>2. V[type][<<e, l>>] = w[l[1]]
    BY <1>5, <1>6, <1>7, WeightLeaf
  <2> QED BY <2>1, <2>2
<1>8. CASE e[1] = type
  <2> DEFINE a == O[type][e[2]]
             b == O[type][e[3]]
  <2>1. e[2] \in E /\ e[3] \in E /\ w[e[2]] < w[e] /\ w[e[3]] < w[e] /\ w[e] = w[e[2]] + w[e[3]] + 1
    BY <1>5, <1>8, PartsOfLevel
  <2>2. l = Cat(a, b)
    BY <1>5, <1>8, ListOfLevel
  <2>3. IsList(a, E) /\ IsList(b, E)
    BY <2>1, ListIsInE
  <2>4. V[type][<<e, l>>] = V[type][<<e[2], Left(l, Size(a))>>] + V[type][<<e[3], Right(l, Size(a))>>] + 1
    BY <1>5, <1>6, <1>8, WeightLevel
  <2>5. Left(l, Size(a)) = a /\ Right(l, Size(a)) = b
    <3> HIDE DEF a, b, l
    <3>1. a \in Seq(E) /\ b \in Seq(E)
      BY <2>3 DEF IsList, Size
    <3> QED BY <2>2, <3>1 DEF Left, Right, Cat, Size
  <2>6. Good(e[2]) /\ Good(e[3])
    BY <1>4, <2>1
  <2> QED BY <2>1, <2>4, <2>5, <2>6
<1> QED BY <1>7, <1>8

\* An operand weighs less than the level.
LEMMA WeightOfOperand ==
  ASSUME NEW E, NEW w, NEW bound, Expressions(E, w, bound), NEW O, Lists(E, O),
         NEW V, Weighs(E, w, O, V), NEW type \in Levels
  PROVE \A e \in E : \A l : Fits(l, e, type, O, E) => \A i \in 1..Size(l) :
          w[l[i]] <= V[type][<<e, l>>] /\ (e[1] = type => w[l[i]] < V[type][<<e, l>>])
<1> DEFINE Good(e) == \A l : Fits(l, e, type, O, E) => \A i \in 1..Size(l) :
             w[l[i]] <= V[type][<<e, l>>] /\ (e[1] = type => w[l[i]] < V[type][<<e, l>>])
           Bad == {e \in E : ~Good(e)}
<1>1. SUFFICES ASSUME Bad # {} PROVE FALSE
  OBVIOUS
<1>2. w \in [E -> Nat]
  BY DEF Expressions
<1>3. PICK e \in Bad : \A y \in Bad : w[e] <= w[y]
  BY <1>1, <1>2, LeastWeight
<1>4. ASSUME NEW y \in E, w[y] < w[e] PROVE Good(y)
  BY <1>2, <1>3, <1>4
<1>5. e \in E
  OBVIOUS
<1> SUFFICES Good(e)
  OBVIOUS
<1> HIDE DEF Bad
<1>6. ASSUME NEW l, Fits(l, e, type, O, E), NEW i \in 1..Size(l)
      PROVE w[l[i]] <= V[type][<<e, l>>] /\ (e[1] = type => w[l[i]] < V[type][<<e, l>>])
  <2>1. IsList(l, E) /\ Size(l) = Size(O[type][e]) /\ Size(l) \in Nat /\ w[l[i]] \in Nat
    BY <1>2, <1>6 DEF Fits, IsList
  <2>2. CASE e[1] # type
    <3>1. V[type][<<e, l>>] = w[l[1]]
      BY <1>5, <2>1, <2>2, WeightLeaf
    <3>2. Size(l) = 1
      BY <1>5, <1>6, <2>2, FitsLeaf
    <3> QED BY <2>1, <2>2, <3>1, <3>2
  <2>3. CASE e[1] = type
    <3> DEFINE m == Size(O[type][e[2]])
               x == V[type][<<e[2], Left(l, m)>>]
               y == V[type][<<e[3], Right(l, m)>>]
    <3>1. e[2] \in E /\ e[3] \in E /\ w[e[2]] < w[e] /\ w[e[3]] < w[e]
      BY <1>5, <2>3, PartsOfLevel
    <3>2. m \in 0..Size(l) /\ Fits(Left(l, m), e[2], type, O, E) /\ Fits(Right(l, m), e[3], type, O, E)
      BY <1>5, <1>6, <2>3, FitsParts
    <3>3. V[type][<<e, l>>] = x + y + 1
      BY <1>5, <2>1, <2>3, WeightLevel
    <3>4. Good(e[2]) /\ Good(e[3])
      BY <1>4, <3>1
    <3>5. x \in Nat /\ y \in Nat
      BY <3>1, <3>2, WeightIsNat
    <3>6. Size(Left(l, m)) = m /\ Size(Right(l, m)) = Size(l) - m
      BY <2>1, <3>2, SplitIs
    <3>7. w[l[i]] <= x \/ w[l[i]] <= y
      <4>1. CASE i <= m
        <5>1. i \in 1..m
          BY <3>2, <4>1
        <5>2. Left(l, m)[i] = l[i]
          BY <2>1, <3>2, <5>1, LeftAt
        <5>3. w[Left(l, m)[i]] <= x
          BY <3>2, <3>4, <3>6, <5>1
        <5> QED BY <5>2, <5>3
      <4>2. CASE i > m
        <5>1. i - m \in 1..(Size(l) - m) /\ m + (i - m) = i
          BY <2>1, <3>2, <4>2
        <5>2. Right(l, m)[i - m] = l[i]
          BY <2>1, <3>2, <5>1, RightAt
        <5>3. w[Right(l, m)[i - m]] <= y
          BY <3>2, <3>4, <3>6, <5>1
        <5> QED BY <5>2, <5>3
      <4>3. i \in Nat /\ m \in Nat
        BY <3>2
      <4> QED BY <4>1, <4>2, <4>3
    <3> HIDE DEF m, x, y
    <3> QED BY <2>1, <3>3, <3>5, <3>7
  <2> QED BY <2>2, <2>3
<1> QED BY <1>6

\* Another operand changes the weight by the difference of the two.
LEMMA PutWeight ==
  ASSUME NEW E, NEW w, NEW bound, Expressions(E, w, bound), NEW O, Lists(E, O),
         NEW V, Weighs(E, w, O, V), NEW type \in Levels
  PROVE \A e \in E : \A l : Fits(l, e, type, O, E) => \A i \in 1..Size(l) : \A x \in E :
          V[type][<<e, Put(l, i, x)>>] = V[type][<<e, l>>] - w[l[i]] + w[x]
<1> DEFINE Good(e) == \A l : Fits(l, e, type, O, E) => \A i \in 1..Size(l) : \A x \in E :
             V[type][<<e, Put(l, i, x)>>] = V[type][<<e, l>>] - w[l[i]] + w[x]
           Bad == {e \in E : ~Good(e)}
<1>1. SUFFICES ASSUME Bad # {} PROVE FALSE
  OBVIOUS
<1>2. w \in [E -> Nat]
  BY DEF Expressions
<1>3. PICK e \in Bad : \A y \in Bad : w[e] <= w[y]
  BY <1>1, <1>2, LeastWeight
<1>4. ASSUME NEW y \in E, w[y] < w[e] PROVE Good(y)
  BY <1>2, <1>3, <1>4
<1>5. e \in E
  OBVIOUS
<1> SUFFICES Good(e)
  OBVIOUS
<1> HIDE DEF Bad
<1>6. ASSUME NEW l, Fits(l, e, type, O, E), NEW i \in 1..Size(l), NEW x \in E
      PROVE V[type][<<e, Put(l, i, x)>>] = V[type][<<e, l>>] - w[l[i]] + w[x]
  <2> DEFINE p == Put(l, i, x)
  <2>1. IsList(l, E) /\ Size(l) = Size(O[type][e]) /\ Size(l) \in Nat /\ w[l[i]] \in Nat /\ w[x] \in Nat
    BY <1>2, <1>6 DEF Fits, IsList
  <2>2. IsList(p, E) /\ Size(p) = Size(O[type][e]) /\ p[i] = x /\ Fits(p, e, type, O, E)
    BY <1>6, <2>1, PutIs DEF Fits
  <2> HIDE DEF p
  <2>3. CASE e[1] # type
    <3>1. V[type][<<e, l>>] = w[l[1]] /\ V[type][<<e, p>>] = w[p[1]]
      BY <1>5, <2>1, <2>2, <2>3, WeightLeaf
    <3>2. Size(l) = 1
      BY <1>5, <1>6, <2>3, FitsLeaf
    <3>3. i = 1
      BY <3>2
    <3> QED BY <2>1, <2>2, <3>1, <3>3 DEF p
  <2>4. CASE e[1] = type
    <3> DEFINE m == Size(O[type][e[2]])
               a == V[type][<<e[2], Left(l, m)>>]
               b == V[type][<<e[3], Right(l, m)>>]
               a1 == V[type][<<e[2], Left(p, m)>>]
               b1 == V[type][<<e[3], Right(p, m)>>]
    <3>1. e[2] \in E /\ e[3] \in E /\ w[e[2]] < w[e] /\ w[e[3]] < w[e]
      BY <1>5, <2>4, PartsOfLevel
    <3>2. m \in 0..Size(l) /\ Fits(Left(l, m), e[2], type, O, E) /\ Fits(Right(l, m), e[3], type, O, E)
      BY <1>5, <1>6, <2>4, FitsParts
    <3>3. V[type][<<e, l>>] = a + b + 1
      BY <1>5, <2>1, <2>4, WeightLevel
    <3>4. V[type][<<e, p>>] = a1 + b1 + 1
      BY <1>5, <2>2, <2>4, WeightLevel
    <3>5. Good(e[2]) /\ Good(e[3])
      BY <1>4, <3>1
    <3>6. a \in Nat /\ b \in Nat
      BY <3>1, <3>2, WeightIsNat
    <3>7. Size(Left(l, m)) = m /\ Size(Right(l, m)) = Size(l) - m
      BY <2>1, <3>2, SplitIs
    <3>8. CASE i <= m
      <4>1. i \in 1..m
        BY <3>2, <3>8
      <4>2. Left(p, m) = Put(Left(l, m), i, x) /\ Right(p, m) = Right(l, m)
        BY <1>6, <2>1, <3>2, <3>8, PutInLeft DEF p
      <4>3. Left(l, m)[i] = l[i]
        BY <2>1, <3>2, <4>1, LeftAt
      <4>4. a1 = a - w[l[i]] + w[x]
        BY <3>2, <3>5, <3>7, <4>1, <4>2, <4>3
      <4>5. b1 = b
        BY <4>2
      <4> HIDE DEF m, a, b, a1, b1
      <4> QED BY <2>1, <3>3, <3>4, <3>6, <4>4, <4>5 DEF p
    <3>9. CASE i > m
      <4>1. /\ Left(p, m) = Left(l, m) /\ Right(p, m) = Put(Right(l, m), i - m, x)
            /\ i - m \in 1..Size(Right(l, m)) /\ Right(l, m)[i - m] = l[i]
        BY <1>6, <2>1, <3>2, <3>9, PutInRight DEF p
      <4>2. b1 = b - w[l[i]] + w[x]
        BY <3>2, <3>5, <4>1
      <4>3. a1 = a
        BY <4>1
      <4> HIDE DEF m, a, b, a1, b1
      <4> QED BY <2>1, <3>3, <3>4, <3>6, <4>2, <4>3 DEF p
    <3>10. i \in Nat /\ m \in Nat
      BY <3>2
    <3> QED BY <3>8, <3>9, <3>10
  <2> QED BY <2>3, <2>4
<1> QED BY <1>6

\* A rebuilt expression that is light enough is in E.
LEMMA RebuiltIsInE ==
  ASSUME NEW E, NEW w, NEW bound, Expressions(E, w, bound), NEW O, Lists(E, O),
         NEW R, Rebuilds(E, O, R), NEW V, Weighs(E, w, O, V), NEW type \in Levels
  PROVE \A e \in E : \A l : Fits(l, e, type, O, E) /\ V[type][<<e, l>>] <= bound =>
          /\ R[type][<<e, l>>] \in E /\ w[R[type][<<e, l>>]] = V[type][<<e, l>>]
          /\ e[1] = type => R[type][<<e, l>>][1] = type
<1> DEFINE Good(e) == \A l : Fits(l, e, type, O, E) /\ V[type][<<e, l>>] <= bound =>
             /\ R[type][<<e, l>>] \in E /\ w[R[type][<<e, l>>]] = V[type][<<e, l>>]
             /\ e[1] = type => R[type][<<e, l>>][1] = type
           Bad == {e \in E : ~Good(e)}
<1>1. SUFFICES ASSUME Bad # {} PROVE FALSE
  OBVIOUS
<1>2. w \in [E -> Nat] /\ bound \in Nat
  BY DEF Expressions
<1>3. PICK e \in Bad : \A y \in Bad : w[e] <= w[y]
  BY <1>1, <1>2, LeastWeight
<1>4. ASSUME NEW y \in E, w[y] < w[e] PROVE Good(y)
  BY <1>2, <1>3, <1>4
<1>5. e \in E
  OBVIOUS
<1> SUFFICES Good(e)
  OBVIOUS
<1> HIDE DEF Bad
<1>6. ASSUME NEW l, Fits(l, e, type, O, E), V[type][<<e, l>>] <= bound
      PROVE /\ R[type][<<e, l>>] \in E /\ w[R[type][<<e, l>>]] = V[type][<<e, l>>]
            /\ e[1] = type => R[type][<<e, l>>][1] = type
  <2>1. IsList(l, E) /\ Size(l) = Size(O[type][e])
    BY <1>6 DEF Fits
  <2>2. CASE e[1] # type
    <3>1. V[type][<<e, l>>] = w[l[1]]
      BY <1>5, <2>1, <2>2, WeightLeaf
    <3>2. R[type][<<e, l>>] = l[1]
      BY <1>5, <2>1, <2>2, RebuiltLeaf
    <3>3. l[1] \in E
      BY <1>5, <1>6, <2>2, FitsLeaf
    <3> QED BY <2>2, <3>1, <3>2, <3>3
  <2>3. CASE e[1] = type
    <3> DEFINE m == Size(O[type][e[2]])
               x == V[type][<<e[2], Left(l, m)>>]
               y == V[type][<<e[3], Right(l, m)>>]
               a == R[type][<<e[2], Left(l, m)>>]
               b == R[type][<<e[3], Right(l, m)>>]
               r == R[type][<<e, l>>]
    <3>1. e[2] \in E /\ e[3] \in E /\ w[e[2]] < w[e] /\ w[e[3]] < w[e]
      BY <1>5, <2>3, PartsOfLevel
    <3>2. Fits(Left(l, m), e[2], type, O, E) /\ Fits(Right(l, m), e[3], type, O, E)
      BY <1>5, <1>6, <2>3, FitsParts
    <3>3. V[type][<<e, l>>] = x + y + 1
      BY <1>5, <2>1, <2>3, WeightLevel
    <3>4. r = <<type, a, b>>
      BY <1>5, <2>1, <2>3, RebuiltLevel
    <3>5. Good(e[2]) /\ Good(e[3])
      BY <1>4, <3>1
    <3>6. x \in Nat /\ y \in Nat
      BY <3>1, <3>2, WeightIsNat
    <3>7. x <= bound /\ y <= bound /\ x + y + 1 <= bound
      <4> HIDE DEF x, y
      <4> QED BY <1>2, <1>6, <3>3, <3>6
    <3>8. a \in E /\ w[a] = x /\ b \in E /\ w[b] = y
      BY <3>2, <3>5, <3>7
    <3> HIDE DEF m, x, y, a, b, r
    <3>9. r \in E /\ w[r] = w[a] + w[b] + 1
      BY <3>4, <3>7, <3>8, MakeTwo DEF Levels
    <3>10. r \in E /\ w[r] = V[type][<<e, l>>] /\ r[1] = type
      BY <3>3, <3>4, <3>8, <3>9
    <3> QED BY <3>10 DEF r
  <2> QED BY <2>2, <2>3
<1> QED BY <1>6

\* A rebuilt level is at the limit exactly if all its new operands are.
LEMMA RebuiltValue ==
  ASSUME NEW E, NEW w, NEW bound, Expressions(E, w, bound), NEW O, Lists(E, O),
         NEW R, Rebuilds(E, O, R), NEW V, Weighs(E, w, O, V),
         NEW type \in Levels, NEW val, NEW t, Meets(E, type, val, t)
  PROVE \A e \in E : \A l : Fits(l, e, type, O, E) /\ V[type][<<e, l>>] <= bound =>
          (AtLimit(type, val[R[type][<<e, l>>]], t) <=> AllAt(type, l, val, t))
<1> DEFINE Good(e) == \A l : Fits(l, e, type, O, E) /\ V[type][<<e, l>>] <= bound =>
             (AtLimit(type, val[R[type][<<e, l>>]], t) <=> AllAt(type, l, val, t))
           Bad == {e \in E : ~Good(e)}
<1>1. SUFFICES ASSUME Bad # {} PROVE FALSE
  OBVIOUS
<1>2. w \in [E -> Nat] /\ bound \in Nat
  BY DEF Expressions
<1>3. PICK e \in Bad : \A y \in Bad : w[e] <= w[y]
  BY <1>1, <1>2, LeastWeight
<1>4. ASSUME NEW y \in E, w[y] < w[e] PROVE Good(y)
  BY <1>2, <1>3, <1>4
<1>5. e \in E
  OBVIOUS
<1> SUFFICES Good(e)
  OBVIOUS
<1> HIDE DEF Bad
<1>6. ASSUME NEW l, Fits(l, e, type, O, E), V[type][<<e, l>>] <= bound
      PROVE AtLimit(type, val[R[type][<<e, l>>]], t) <=> AllAt(type, l, val, t)
  <2>1. IsList(l, E) /\ Size(l) = Size(O[type][e])
    BY <1>6 DEF Fits
  <2>2. CASE e[1] # type
    <3>1. R[type][<<e, l>>] = l[1]
      BY <1>5, <2>1, <2>2, RebuiltLeaf
    <3>2. Size(l) = 1
      BY <1>5, <1>6, <2>2, FitsLeaf
    <3> QED BY <3>1, <3>2 DEF AllAt
  <2>3. CASE e[1] = type
    <3> DEFINE m == Size(O[type][e[2]])
               x == V[type][<<e[2], Left(l, m)>>]
               y == V[type][<<e[3], Right(l, m)>>]
               a == R[type][<<e[2], Left(l, m)>>]
               b == R[type][<<e[3], Right(l, m)>>]
               r == R[type][<<e, l>>]
    <3>1. e[2] \in E /\ e[3] \in E /\ w[e[2]] < w[e] /\ w[e[3]] < w[e]
      BY <1>5, <2>3, PartsOfLevel
    <3>2. m \in 0..Size(l) /\ Fits(Left(l, m), e[2], type, O, E) /\ Fits(Right(l, m), e[3], type, O, E)
      BY <1>5, <1>6, <2>3, FitsParts
    <3>3. V[type][<<e, l>>] = x + y + 1
      BY <1>5, <2>1, <2>3, WeightLevel
    <3>4. r = <<type, a, b>>
      BY <1>5, <2>1, <2>3, RebuiltLevel
    <3>5. r \in E /\ r[1] = type
      BY <1>5, <1>6, <2>3, RebuiltIsInE
    <3>6. x \in Nat /\ y \in Nat
      BY <3>1, <3>2, WeightIsNat
    <3>7. x <= bound /\ y <= bound
      <4> HIDE DEF x, y
      <4> QED BY <1>2, <1>6, <3>3, <3>6
    <3>8. /\ AtLimit(type, val[a], t) <=> AllAt(type, Left(l, m), val, t)
          /\ AtLimit(type, val[b], t) <=> AllAt(type, Right(l, m), val, t)
      BY <1>4, <3>1, <3>2, <3>7
    <3>9. r[2] = a /\ r[3] = b
      BY <3>4
    <3> HIDE DEF m, x, y, a, b, r
    <3>10. AtLimit(type, val[r], t) <=> AtLimit(type, val[a], t) /\ AtLimit(type, val[b], t)
      BY <3>5, <3>9 DEF Meets
    <3>11. AllAt(type, l, val, t) <=> AllAt(type, Left(l, m), val, t) /\ AllAt(type, Right(l, m), val, t)
      BY <2>1, <3>2, AllAtSplit
    <3> QED BY <3>8, <3>10, <3>11 DEF r
  <2> QED BY <2>2, <2>3
<1> QED BY <1>6

-----------------------------------------------------------------------------
(* Removing the operands that two expressions have in common. *)

\* An element that is at the limit anyway adds nothing.
LEMMA AllAtPut ==
  ASSUME NEW E, NEW l, IsList(l, E), NEW i \in 1..Size(l), NEW x \in E,
         NEW type, NEW val, NEW t, AtLimit(type, val[x], t)
  PROVE AllAt(type, l, val, t) <=> AllAt(type, Put(l, i, x), val, t) /\ AtLimit(type, val[l[i]], t)
<1> DEFINE p == Put(l, i, x)
<1>1. Size(p) = Size(l) /\ p[i] = x
  BY PutIs
<1>2. ASSUME NEW j \in 1..Size(l), j # i PROVE p[j] = l[j]
  BY <1>2, PutKeeps
<1> HIDE DEF p
<1> DEFINE P(y) == AtLimit(type, val[y], t)
<1>3. P(x)
  OBVIOUS
<1> HIDE DEF P
<1>4. (\A j \in 1..Size(l) : P(l[j])) <=> (\A j \in 1..Size(l) : P(p[j])) /\ P(l[i])
  <2>1. ASSUME \A j \in 1..Size(l) : P(l[j]), NEW j \in 1..Size(l) PROVE P(p[j])
    <3>1. CASE j = i
      BY <1>1, <1>3, <3>1
    <3>2. CASE j # i
      <4>1. p[j] = l[j]
        BY <1>2, <3>2
      <4> QED BY <2>1, <4>1
    <3> QED BY <3>1, <3>2
  <2>2. ASSUME \A j \in 1..Size(l) : P(p[j]), P(l[i]), NEW j \in 1..Size(l) PROVE P(l[j])
    <3>1. CASE j = i
      BY <2>2, <3>1
    <3>2. CASE j # i
      <4>1. p[j] = l[j]
        BY <1>2, <3>2
      <4>2. P(p[j])
        BY <2>2
      <4> QED BY <4>1, <4>2
    <3> QED BY <3>1, <3>2
  <2> QED BY <2>1, <2>2
<1> QED BY <1>1, <1>4 DEF P, AllAt, p

\* What a dropped operand becomes is at every limit.
LEMMA GoneIs ==
  ASSUME NEW E, NEW w, NEW bound, Expressions(E, w, bound),
         NEW v, NEW val, Valuation(v), Values(E, v, val), NEW type \in Levels
  PROVE /\ Gone(type) \in E /\ w[Gone(type)] = 1
        /\ \A t \in Tristate : AtLimit(type, val[Gone(type)], t)
<1>1. Gone(type) \in E /\ w[Gone(type)] = 1
  BY ConstantsOf DEF Gone, Levels
<1>2. CASE type = "and"
  <2>1. val[Gone(type)] = 2
    BY <1>2, ConstantsOf DEF Gone
  <2> QED BY <1>1, <1>2, <2>1 DEF AtLimit, Tristate, no, mod, yes
<1>3. CASE type = "or"
  <2>1. val[Gone(type)] = 0
    BY <1>3, ConstantsOf DEF Gone
  <2> QED BY <1>1, <1>3, <2>1 DEF AtLimit, Tristate, no, mod, yes
<1> QED BY <1>2, <1>3 DEF Levels

\* Every expression weighs 1 or more.
LEMMA WeightAtLeastOne ==
  ASSUME NEW E, NEW w, NEW bound, Expressions(E, w, bound), NEW e \in E
  PROVE w[e] \in Nat /\ w[e] >= 1 /\ w[e] <= bound /\ bound \in Nat
<1>1. w[e] \in 1..bound /\ bound \in Nat
  BY DEF Expressions
<1> QED BY <1>1

\* The lists s of operands of e1 and e2 weigh no more than their own ones, and hide no
\* more of how the two compare.
Reduced(E, w, O, V, val, type, e1, e2, s) ==
  /\ s = <<s[1], s[2]>>
  /\ Fits(s[1], e1, type, O, E) /\ V[type][<<e1, s[1]>>] <= w[e1]
  /\ Fits(s[2], e2, type, O, E) /\ V[type][<<e2, s[2]>>] <= w[e2]
  /\ \A t \in Tristate :
       /\ (AllAt(type, s[1], val, t) => AllAt(type, s[2], val, t))
            => (AllAt(type, O[type][e1], val, t) => AllAt(type, O[type][e2], val, t))
       /\ (AllAt(type, s[2], val, t) => AllAt(type, s[1], val, t))
            => (AllAt(type, O[type][e2], val, t) => AllAt(type, O[type][e1], val, t))

\* expr_eq is right about all pairs of expressions that are smaller than e1 and e2.
SameBelow(E, w, val, Q, e1, e2) ==
  \A a, b \in E : w[a] + w[b] < w[e1] + w[e2] /\ Q[<<a, b>>] => val[a] = val[b]

\* Meeting one pair of operands hides nothing of how the two expressions compare.
LEMMA EliminateStep ==
  ASSUME NEW E, NEW w, NEW bound, Expressions(E, w, bound), NEW O, Lists(E, O),
         NEW V, Weighs(E, w, O, V), NEW v, NEW val, Valuation(v), Values(E, v, val),
         NEW type \in Levels, NEW e1 \in E, NEW e2 \in E, e1[1] = type \/ e2[1] = type,
         NEW Q, SameBelow(E, w, val, Q, e1, e2),
         NEW s, Reduced(E, w, O, V, val, type, e1, e2, s),
         NEW p \in (1..Size(O[type][e1])) \X (1..Size(O[type][e2]))
  PROVE Reduced(E, w, O, V, val, type, e1, e2, EliminatePairOf(Q, type, s, p))
<1> DEFINE l1 == s[1]
           l2 == s[2]
           i == p[1]
           j == p[2]
           g == Gone(type)
           x == EliminatePairOf(Q, type, s, p)
<1>1. s = <<l1, l2>> /\ p = <<i, j>>
  BY DEF Reduced
<1>2. /\ Fits(l1, e1, type, O, E) /\ V[type][<<e1, l1>>] <= w[e1]
      /\ Fits(l2, e2, type, O, E) /\ V[type][<<e2, l2>>] <= w[e2]
  BY DEF Reduced
<1>3. i \in 1..Size(l1) /\ j \in 1..Size(l2) /\ IsList(l1, E) /\ IsList(l2, E)
  BY <1>2 DEF Fits
<1>4. l1[i] \in E /\ l2[j] \in E
  BY <1>3 DEF IsList
<1>5. g \in E /\ w[g] = 1 /\ \A t \in Tristate : AtLimit(type, val[g], t)
  BY GoneIs
<1>6. CASE x = s
  BY <1>6
<1>7. CASE Q[<<l1[i], l2[j]>>] /\ x = <<Put(l1, i, g), Put(l2, j, g)>>
  <2> DEFINE k1 == Put(l1, i, g)
             k2 == Put(l2, j, g)
  <2>1. x = <<k1, k2>> /\ x[1] = k1 /\ x[2] = k2
    BY <1>7
  <2>2. Fits(k1, e1, type, O, E) /\ Fits(k2, e2, type, O, E)
    BY <1>2, <1>3, <1>5, PutIs DEF Fits
  <2>3. /\ V[type][<<e1, k1>>] = V[type][<<e1, l1>>] - w[l1[i]] + 1
        /\ V[type][<<e2, k2>>] = V[type][<<e2, l2>>] - w[l2[j]] + 1
    BY <1>2, <1>3, <1>5, PutWeight
  <2>4. V[type][<<e1, l1>>] \in Nat /\ V[type][<<e2, l2>>] \in Nat
    BY <1>2, WeightIsNat
  <2>5. /\ w[l1[i]] \in Nat /\ w[l1[i]] >= 1 /\ w[e1] \in Nat
        /\ w[l2[j]] \in Nat /\ w[l2[j]] >= 1 /\ w[e2] \in Nat
    BY <1>4, WeightAtLeastOne
  <2>6. V[type][<<e1, k1>>] <= w[e1] /\ V[type][<<e2, k2>>] <= w[e2]
    <3> HIDE DEF l1, l2, i, j, k1, k2
    <3> QED BY <1>2, <2>3, <2>4, <2>5
  <2>7. val[l1[i]] = val[l2[j]]
    <3>1. /\ w[l1[i]] <= V[type][<<e1, l1>>] /\ (e1[1] = type => w[l1[i]] < V[type][<<e1, l1>>])
          /\ w[l2[j]] <= V[type][<<e2, l2>>] /\ (e2[1] = type => w[l2[j]] < V[type][<<e2, l2>>])
      BY <1>2, <1>3, WeightOfOperand
    <3>2. w[l1[i]] + w[l2[j]] < w[e1] + w[e2]
      <4> HIDE DEF l1, l2, i, j
      <4> QED BY <1>2, <2>4, <2>5, <3>1
    <3> QED BY <1>4, <1>7, <3>2 DEF SameBelow
  <2>8. ASSUME NEW t \in Tristate
        PROVE /\ AllAt(type, l1, val, t) <=> AllAt(type, k1, val, t) /\ AtLimit(type, val[l1[i]], t)
              /\ AllAt(type, l2, val, t) <=> AllAt(type, k2, val, t) /\ AtLimit(type, val[l2[j]], t)
    BY <1>3, <1>5, AllAtPut
  <2>9. ASSUME NEW t \in Tristate
        PROVE /\ (AllAt(type, k1, val, t) => AllAt(type, k2, val, t))
                   => (AllAt(type, O[type][e1], val, t) => AllAt(type, O[type][e2], val, t))
              /\ (AllAt(type, k2, val, t) => AllAt(type, k1, val, t))
                   => (AllAt(type, O[type][e2], val, t) => AllAt(type, O[type][e1], val, t))
    <3>1. /\ (AllAt(type, l1, val, t) => AllAt(type, l2, val, t))
               => (AllAt(type, O[type][e1], val, t) => AllAt(type, O[type][e2], val, t))
          /\ (AllAt(type, l2, val, t) => AllAt(type, l1, val, t))
               => (AllAt(type, O[type][e2], val, t) => AllAt(type, O[type][e1], val, t))
      BY DEF Reduced
    <3>2. /\ AllAt(type, l1, val, t) <=> AllAt(type, k1, val, t) /\ AtLimit(type, val[l1[i]], t)
          /\ AllAt(type, l2, val, t) <=> AllAt(type, k2, val, t) /\ AtLimit(type, val[l1[i]], t)
      BY <2>7, <2>8
    <3> QED BY <3>1, <3>2
  <2> HIDE DEF k1, k2, x
  <2> QED BY <2>1, <2>2, <2>6, <2>9 DEF Reduced, x
<1>8. x = s \/ (Q[<<l1[i], l2[j]>>] /\ x = <<Put(l1, i, g), Put(l2, j, g)>>)
  BY <1>1 DEF EliminatePairOf, EliminatePair, Without, Put
<1> QED BY <1>6, <1>7, <1>8

\* Two values compare as their limits do.
LEMMA OrderOfLimits ==
  ASSUME NEW type \in Levels, NEW a \in Tristate, NEW b \in Tristate
  PROVE a <= b <=> \A t \in Tristate : IF type = "and" THEN AtLimit(type, a, t) => AtLimit(type, b, t)
                                                       ELSE AtLimit(type, b, t) => AtLimit(type, a, t)
  BY DEF AtLimit, Levels, Tristate, no, mod, yes

\* If the limits of two values hide nothing, their order does not.
LEMMA OrderKept ==
  ASSUME NEW type \in Levels, NEW a1 \in Tristate, NEW a2 \in Tristate, NEW b1 \in Tristate, NEW b2 \in Tristate,
         \A t \in Tristate :
           /\ (AtLimit(type, b1, t) => AtLimit(type, b2, t)) => (AtLimit(type, a1, t) => AtLimit(type, a2, t))
           /\ (AtLimit(type, b2, t) => AtLimit(type, b1, t)) => (AtLimit(type, a2, t) => AtLimit(type, a1, t))
  PROVE (b1 <= b2 => a1 <= a2) /\ (b2 <= b1 => a2 <= a1)
<1>1. b1 <= b2 => a1 <= a2
  BY OrderOfLimits
<1>2. b2 <= b1 => a2 <= a1
  BY OrderOfLimits
<1> QED BY <1>1, <1>2

\* __expr_eliminate_eq hides nothing of how the two expressions compare.
LEMMA LevelOrder ==
  ASSUME NEW E, NEW w, NEW bound, Expressions(E, w, bound), NEW O, Lists(E, O),
         NEW R, Rebuilds(E, O, R), NEW V, Weighs(E, w, O, V),
         NEW v, NEW val, Valuation(v), Values(E, v, val),
         NEW type \in Levels, NEW e1 \in E, NEW e2 \in E, e1[1] = type \/ e2[1] = type,
         NEW Q, SameBelow(E, w, val, Q, e1, e2),
         NEW x, EliminatesEq(O, R, Q, type, e1, e2, x)
  PROVE /\ x = <<x[1], x[2]>> /\ x[1] \in E /\ x[2] \in E /\ w[x[1]] <= w[e1] /\ w[x[2]] <= w[e2]
        /\ val[x[1]] <= val[x[2]] => val[e1] <= val[e2]
        /\ val[x[2]] <= val[x[1]] => val[e2] <= val[e1]
<1>1. PICK n, p, W : EliminatesInOrder(O, R, Q, type, e1, e2, x, n, p, W)
  BY DEF EliminatesEq
<1>2. n \in Nat /\ p \in [1..n -> (1..Size(O[type][e1])) \X (1..Size(O[type][e2]))]
  BY <1>1 DEF EliminatesInOrder, Size
<1>3. /\ W[0] = <<O[type][e1], O[type][e2]>>
      /\ \A k \in 1..n : W[k] = EliminatePairOf(Q, type, W[k - 1], p[k])
      /\ x = <<R[type][<<e1, W[n][1]>>], R[type][<<e2, W[n][2]>>]>>
  BY <1>1 DEF EliminatesInOrder
<1> DEFINE Inv(k) == Reduced(E, w, O, V, val, type, e1, e2, W[k])
<1>4. Inv(0)
  <2>1. IsList(O[type][e1], E) /\ IsList(O[type][e2], E)
    BY ListIsInE
  <2>2. V[type][<<e1, O[type][e1]>>] = w[e1] /\ V[type][<<e2, O[type][e2]>>] = w[e2]
    BY OwnWeight
  <2>3. w[e1] \in Nat /\ w[e2] \in Nat
    BY WeightAtLeastOne
  <2> QED BY <1>3, <2>1, <2>2, <2>3 DEF Reduced, Fits
<1>5. ASSUME NEW k \in 1..n, Inv(k - 1) PROVE Inv(k)
  <2>1. p[k] \in (1..Size(O[type][e1])) \X (1..Size(O[type][e2]))
    BY <1>2
  <2>2. Reduced(E, w, O, V, val, type, e1, e2, EliminatePairOf(Q, type, W[k - 1], p[k]))
    BY <1>5, <2>1, EliminateStep
  <2> QED BY <1>3, <2>2
<1>6. Inv(n)
  <2> DEFINE G == {k \in 0..n : Inv(k)}
  <2>0. n \in Nat
    BY <1>2
  <2>1. 0 \in G
    BY <1>4, <2>0
  <2>2. ASSUME NEW k \in 1..n, k - 1 \in G PROVE k \in G
    BY <1>5, <2>2, <2>0
  <2> HIDE DEF G
  <2>3. n \in G
    BY <2>0, <2>1, <2>2, UpTo
  <2> QED BY <2>3 DEF G
<1> DEFINE l1 == W[n][1]
           l2 == W[n][2]
           r1 == R[type][<<e1, l1>>]
           r2 == R[type][<<e2, l2>>]
<1>7. /\ Fits(l1, e1, type, O, E) /\ V[type][<<e1, l1>>] <= w[e1]
      /\ Fits(l2, e2, type, O, E) /\ V[type][<<e2, l2>>] <= w[e2]
  BY <1>6 DEF Reduced
<1>8. V[type][<<e1, l1>>] <= bound /\ V[type][<<e2, l2>>] <= bound
  <2>1. V[type][<<e1, l1>>] \in Nat /\ V[type][<<e2, l2>>] \in Nat
    BY <1>7, WeightIsNat
  <2>2. w[e1] \in Nat /\ w[e1] <= bound /\ w[e2] \in Nat /\ w[e2] <= bound /\ bound \in Nat
    BY WeightAtLeastOne
  <2> HIDE DEF l1, l2
  <2> QED BY <1>7, <2>1, <2>2
<1>9. /\ r1 \in E /\ w[r1] = V[type][<<e1, l1>>]
      /\ r2 \in E /\ w[r2] = V[type][<<e2, l2>>]
  BY <1>7, <1>8, RebuiltIsInE
<1>10. val[e1] \in Tristate /\ val[e2] \in Tristate /\ val[r1] \in Tristate /\ val[r2] \in Tristate
  BY <1>9, ValueIsTristate
<1>11. ASSUME NEW t \in Tristate
       PROVE /\ (AtLimit(type, val[r1], t) => AtLimit(type, val[r2], t))
                  => (AtLimit(type, val[e1], t) => AtLimit(type, val[e2], t))
             /\ (AtLimit(type, val[r2], t) => AtLimit(type, val[r1], t))
                  => (AtLimit(type, val[e2], t) => AtLimit(type, val[e1], t))
  <2>0. Meets(E, type, val, t)
    BY ValuesMeet
  <2>1. /\ AtLimit(type, val[r1], t) <=> AllAt(type, l1, val, t)
        /\ AtLimit(type, val[r2], t) <=> AllAt(type, l2, val, t)
    BY <1>7, <1>8, <2>0, RebuiltValue
  <2>2. /\ AtLimit(type, val[e1], t) <=> AllAt(type, O[type][e1], val, t)
        /\ AtLimit(type, val[e2], t) <=> AllAt(type, O[type][e2], val, t)
    BY <2>0, LevelValue
  <2>3. /\ (AllAt(type, l1, val, t) => AllAt(type, l2, val, t))
             => (AllAt(type, O[type][e1], val, t) => AllAt(type, O[type][e2], val, t))
        /\ (AllAt(type, l2, val, t) => AllAt(type, l1, val, t))
             => (AllAt(type, O[type][e2], val, t) => AllAt(type, O[type][e1], val, t))
    BY <1>6 DEF Reduced
  <2> HIDE DEF r1, r2, l1, l2
  <2> QED BY <2>1, <2>2, <2>3
<1>12. (val[r1] <= val[r2] => val[e1] <= val[e2]) /\ (val[r2] <= val[r1] => val[e2] <= val[e1])
  <2> HIDE DEF r1, r2
  <2> DEFINE a1 == val[e1]
             a2 == val[e2]
             b1 == val[r1]
             b2 == val[r2]
  <2>1. a1 \in Tristate /\ a2 \in Tristate /\ b1 \in Tristate /\ b2 \in Tristate
    BY <1>10
  <2>2. \A t \in Tristate :
          /\ (AtLimit(type, b1, t) => AtLimit(type, b2, t)) => (AtLimit(type, a1, t) => AtLimit(type, a2, t))
          /\ (AtLimit(type, b2, t) => AtLimit(type, b1, t)) => (AtLimit(type, a2, t) => AtLimit(type, a1, t))
    BY <1>11
  <2> HIDE DEF a1, a2, b1, b2
  <2>3. (b1 <= b2 => a1 <= a2) /\ (b2 <= b1 => a2 <= a1)
    BY <2>1, <2>2, OrderKept
  <2> QED BY <2>3 DEF a1, a2, b1, b2
<1>13. x = <<r1, r2>> /\ x[1] = r1 /\ x[2] = r2
  BY <1>3
<1> HIDE DEF r1, r2, l1, l2
<1> QED BY <1>7, <1>9, <1>12, <1>13

\* No expression in E is the NULL pointer.
LEMMA NotNull ==
  ASSUME NEW E, NEW w, NEW bound, Expressions(E, w, bound), NEW e \in E
  PROVE e # Null /\ e[1] \in Comparisons \cup {"sym", "not", "and", "or"}
<1>1. e[1] \in Comparisons \cup {"sym", "not", "and", "or"}
  BY KindsOf DEF Sym
<1>2. "null" \notin Comparisons \cup {"sym", "not", "and", "or"}
  BY SixComparisons
<1> QED BY <1>1, <1>2 DEF Null

\* expr_eliminate_eq hides nothing either, if expr_eq is right about lighter pairs.
LEMMA EliminatedOrder ==
  ASSUME NEW E, NEW w, NEW bound, Expressions(E, w, bound), NEW O, Lists(E, O),
         NEW R, Rebuilds(E, O, R), NEW V, Weighs(E, w, O, V),
         NEW v, NEW val, Valuation(v), Values(E, v, val), NEW S, SweepsYN(E, S),
         NEW L, NEW Q, Equality(E, O, R, S, L, Q), NEW e1 \in E, NEW e2 \in E,
         SameBelow(E, w, val, Q, e1, e2),
         NEW x, x = Eliminated(L, S, e1, e2)
  PROVE /\ x = <<x[1], x[2]>> /\ x[1] \in E /\ x[2] \in E
        /\ w[x[1]] <= w[e1] /\ w[x[2]] <= w[e2]
        /\ val[x[1]] <= val[x[2]] => val[e1] <= val[e2]
        /\ val[x[2]] <= val[x[1]] => val[e2] <= val[e1]
<1>1. e1 # Null /\ e2 # Null
  BY NotNull
<1> DEFINE p == IF e1[1] \in {"or", "and"} THEN L[e1[1]][<<e1, e2>>] ELSE <<e1, e2>>
           q == IF p[1][1] # p[2][1] /\ p[2][1] \in {"or", "and"} THEN L[p[2][1]][<<p[1], p[2]>>] ELSE p
<1>2. /\ p = IF e1[1] \in {"or", "and"} THEN L[e1[1]][<<e1, e2>>] ELSE <<e1, e2>>
      /\ q = IF p[1][1] # p[2][1] /\ p[2][1] \in {"or", "and"} THEN L[p[2][1]][<<p[1], p[2]>>] ELSE p
      /\ x = <<S[q[1]], S[q[2]]>>
  BY <1>1 DEF Eliminated, eliminate_eq
<1> HIDE DEF p, q
<1> DEFINE p1 == p[1]
           p2 == p[2]
<1>3. w[e1] \in Nat /\ w[e2] \in Nat /\ val[e1] \in Tristate /\ val[e2] \in Tristate
  BY WeightAtLeastOne, ValueIsTristate
<1>4. /\ p = <<p1, p2>> /\ p1 \in E /\ p2 \in E /\ w[p1] <= w[e1] /\ w[p2] <= w[e2]
      /\ val[p1] <= val[p2] => val[e1] <= val[e2]
      /\ val[p2] <= val[p1] => val[e2] <= val[e1]
  <2>1. CASE e1[1] \in {"or", "and"}
    <3>1. e1[1] \in Levels
      BY <2>1 DEF Levels
    <3>2. EliminatesEq(O, R, Q, e1[1], e1, e2, L[e1[1]][<<e1, e2>>])
      BY <3>1 DEF Equality, Eliminates, Equals
    <3>3. p = L[e1[1]][<<e1, e2>>]
      BY <1>2, <2>1
    <3>4. EliminatesEq(O, R, Q, e1[1], e1, e2, p)
      BY <3>2, <3>3
    <3> QED BY <3>1, <3>4, LevelOrder
  <2>2. CASE e1[1] \notin {"or", "and"}
    <3>1. p = <<e1, e2>>
      BY <1>2, <2>2
    <3> QED BY <1>3, <3>1
  <2> QED BY <2>1, <2>2
<1> DEFINE q1 == q[1]
           q2 == q[2]
<1> HIDE DEF p1, p2
<1>5. w[p1] \in Nat /\ w[p2] \in Nat /\ val[p1] \in Tristate /\ val[p2] \in Tristate
  BY <1>4, WeightAtLeastOne, ValueIsTristate
<1>6. /\ q = <<q1, q2>> /\ q1 \in E /\ q2 \in E /\ w[q1] <= w[p1] /\ w[q2] <= w[p2]
      /\ val[q1] <= val[q2] => val[p1] <= val[p2]
      /\ val[q2] <= val[q1] => val[p2] <= val[p1]
  <2>1. CASE p1[1] # p2[1] /\ p2[1] \in {"or", "and"}
    <3>1. p2[1] \in Levels
      BY <2>1 DEF Levels
    <3>2. EliminatesEq(O, R, Q, p2[1], p1, p2, L[p2[1]][<<p1, p2>>])
      BY <1>4, <3>1 DEF Equality, Eliminates, Equals
    <3>3. q = L[p2[1]][<<p1, p2>>]
      BY <1>2, <2>1 DEF p1, p2
    <3>4. EliminatesEq(O, R, Q, p2[1], p1, p2, q)
      BY <3>2, <3>3
    <3>5. ASSUME NEW a \in E, NEW b \in E, w[a] + w[b] < w[p1] + w[p2], Q[<<a, b>>]
          PROVE val[a] = val[b]
      <4>1. w[a] \in Nat /\ w[b] \in Nat
        BY WeightAtLeastOne
      <4>2. w[a] + w[b] < w[e1] + w[e2]
        BY <1>3, <1>4, <1>5, <3>5, <4>1
      <4> QED BY <3>5, <4>2 DEF SameBelow
    <3>6. SameBelow(E, w, val, Q, p1, p2)
      BY <3>5 DEF SameBelow
    <3> DEFINE type == p2[1]
    <3>7. type \in Levels /\ (p1[1] = type \/ p2[1] = type) /\ EliminatesEq(O, R, Q, type, p1, p2, q)
      BY <3>1, <3>4
    <3> HIDE DEF type
    <3>8. /\ q = <<q[1], q[2]>> /\ q[1] \in E /\ q[2] \in E /\ w[q[1]] <= w[p1] /\ w[q[2]] <= w[p2]
          /\ val[q[1]] <= val[q[2]] => val[p1] <= val[p2]
          /\ val[q[2]] <= val[q[1]] => val[p2] <= val[p1]
      BY <1>4, <3>6, <3>7, LevelOrder
    <3> QED BY <3>8
  <2>2. CASE ~(p1[1] # p2[1] /\ p2[1] \in {"or", "and"})
    <3>1. q = p
      BY <1>2, <2>2 DEF p1, p2
    <3> QED BY <1>4, <1>5, <3>1 DEF p1, p2
  <2> QED BY <2>1, <2>2
<1> HIDE DEF q1, q2
<1>7. /\ S[q1] \in E /\ w[S[q1]] <= w[q1] /\ val[S[q1]] = val[q1]
      /\ S[q2] \in E /\ w[S[q2]] <= w[q2] /\ val[S[q2]] = val[q2]
  BY <1>6, SweepKeepsValue
<1>8. w[q1] \in Nat /\ w[q2] \in Nat /\ w[S[q1]] \in Nat /\ w[S[q2]] \in Nat
  BY <1>6, <1>7, WeightAtLeastOne
<1>9. x = <<S[q1], S[q2]>> /\ x[1] = S[q1] /\ x[2] = S[q2]
  <2>1. x = <<S[q[1]], S[q[2]]>>
    BY <1>2
  <2> QED BY <2>1 DEF q1, q2
<1>10. w[S[q1]] <= w[e1] /\ w[S[q2]] <= w[e2]
  BY <1>3, <1>4, <1>5, <1>6, <1>7, <1>8
<1> QED BY <1>4, <1>6, <1>7, <1>9, <1>10

\* Expressions that expr_eq calls equal have the same value, although the comparison
\* removes common operands from copies that it rewrites while it walks over them.
THEOREM EqualMeansSameValue ==
  ASSUME NEW E, NEW w, NEW bound, Expressions(E, w, bound), NEW O, Lists(E, O),
         NEW R, Rebuilds(E, O, R), NEW V, Weighs(E, w, O, V),
         NEW v, NEW val, Valuation(v), Values(E, v, val), NEW S, SweepsYN(E, S),
         NEW L, NEW Q, Equality(E, O, R, S, L, Q)
  PROVE \A e1, e2 \in E : Q[<<e1, e2>>] => val[e1] = val[e2]
<1> DEFINE P == E \X E
           z == [p \in P |-> w[p[1]] + w[p[2]]]
           Good(p) == Q[p] => val[p[1]] = val[p[2]]
           Bad == {p \in P : ~Good(p)}
<1>1. SUFFICES Bad = {}
  <2>1. ASSUME NEW e1 \in E, NEW e2 \in E, Bad = {} PROVE Q[<<e1, e2>>] => val[e1] = val[e2]
    <3>1. <<e1, e2>> \in P /\ <<e1, e2>>[1] = e1 /\ <<e1, e2>>[2] = e2
      OBVIOUS
    <3> QED BY <2>1, <3>1
  <2> QED BY <2>1
<1>2. SUFFICES ASSUME Bad # {} PROVE FALSE
  OBVIOUS
<1>3. z \in [P -> Nat]
  BY WeightAtLeastOne
<1>4. PICK p \in Bad : \A y \in Bad : z[p] <= z[y]
  <2> HIDE DEF z, P
  <2> QED BY <1>2, <1>3, LeastWeight
<1> DEFINE e1 == p[1]
           e2 == p[2]
<1>5. p = <<e1, e2>> /\ e1 \in E /\ e2 \in E /\ Q[<<e1, e2>>] /\ val[e1] # val[e2]
  OBVIOUS
<1>6. z[p] = w[e1] + w[e2]
  OBVIOUS
<1>7. ASSUME NEW a \in E, NEW b \in E, w[a] + w[b] < w[e1] + w[e2], Q[<<a, b>>]
      PROVE val[a] = val[b]
  <2>1. <<a, b>> \in P /\ z[<<a, b>>] = w[a] + w[b]
    OBVIOUS
  <2>2. z[<<a, b>>] \in Nat /\ z[p] \in Nat
    BY <1>3, <2>1
  <2>3. ~(z[p] <= z[<<a, b>>])
    <3> HIDE DEF z, P
    <3> QED BY <1>6, <1>7, <2>1, <2>2
  <2>4. Good(<<a, b>>)
    BY <1>4, <2>1, <2>3
  <2> QED BY <1>7, <2>4
<1> HIDE DEF e1, e2, P, z, Bad
<1>8. EqualOf(L, S, Q, e1, e2)
  BY <1>5 DEF Equality, Eliminates, Equals
<1>9. e1 # Null /\ e2 # Null /\ e1[1] \in Comparisons \cup {"sym", "not", "and", "or"}
  BY <1>5, NotNull
<1>10. CASE e1[1] \in Comparisons \cup {"sym"}
  <2>1. e1 = e2
    BY <1>8, <1>9, <1>10, SixComparisons DEF EqualOf, equal
  <2> QED BY <1>5, <2>1
<1>11. CASE e1[1] = "not"
  <2>1. e2[1] = "not" /\ Q[<<e1[2], e2[2]>>]
    BY <1>8, <1>9, <1>11, SixComparisons DEF EqualOf, equal
  <2>2. e1 = <<"not", e1[2]>> /\ e2 = <<"not", e2[2]>>
    BY <1>5, <1>11, <2>1, KindsOf, SixComparisons DEF Sym
  <2>3. /\ e1[2] \in E /\ w[e1[2]] < w[e1] /\ w[e1[2]] \in Nat /\ w[e1] \in Nat
        /\ e2[2] \in E /\ w[e2[2]] < w[e2] /\ w[e2[2]] \in Nat /\ w[e2] \in Nat
    BY <1>5, <2>2, PartsOfNot
  <2>4. w[e1[2]] + w[e2[2]] < w[e1] + w[e2]
    BY <2>3
  <2>5. val[e1[2]] = val[e2[2]]
    BY <1>7, <2>1, <2>3, <2>4
  <2>6. val[e1] = 2 - val[e1[2]] /\ val[e2] = 2 - val[e2[2]]
    BY <1>5, <2>2, ValueOf
  <2> QED BY <1>5, <2>5, <2>6
<1>12. CASE e1[1] \in {"and", "or"}
  <2> DEFINE x == Eliminated(L, S, e1, e2)
  <2>1. x[1] = x[2]
    BY <1>8, <1>9, <1>12, SixComparisons DEF EqualOf, equal
  <2>2. SameBelow(E, w, val, Q, e1, e2)
    BY <1>7 DEF SameBelow
  <2> HIDE DEF x
  <2>3. /\ x[1] \in E
        /\ val[x[1]] <= val[x[2]] => val[e1] <= val[e2]
        /\ val[x[2]] <= val[x[1]] => val[e2] <= val[e1]
    BY <1>5, <2>2, EliminatedOrder DEF x
  <2>4. val[x[1]] \in {0, 1, 2} /\ val[e1] \in {0, 1, 2} /\ val[e2] \in {0, 1, 2}
    BY <1>5, <2>3, ValueIsTristate DEF Tristate, no, mod, yes
  <2> QED BY <1>5, <2>1, <2>3, <2>4
<1> QED BY <1>9, <1>10, <1>11, <1>12

\* expr_eliminate_eq hides nothing of how two expressions compare: where what it leaves of
\* the first is at most what it leaves of the second, the first is at most the second. So
\* an entry of whose dependency it leaves nothing that the menu above does not demand
\* (the second is y) is shown only where the menu is.
THEOREM EliminateKeepsOrder ==
  ASSUME NEW E, NEW w, NEW bound, Expressions(E, w, bound), NEW O, Lists(E, O),
         NEW R, Rebuilds(E, O, R), NEW V, Weighs(E, w, O, V),
         NEW v, NEW val, Valuation(v), Values(E, v, val), NEW S, SweepsYN(E, S),
         NEW L, NEW Q, Equality(E, O, R, S, L, Q), NEW e1 \in E, NEW e2 \in E,
         NEW x, x = Eliminated(L, S, e1, e2)
  PROVE /\ x[1] \in E /\ x[2] \in E
        /\ val[x[1]] <= val[x[2]] => val[e1] <= val[e2]
        /\ val[x[2]] <= val[x[1]] => val[e2] <= val[e1]
        /\ x[2] = Y => val[e1] <= val[e2]
<1>1. SameBelow(E, w, val, Q, e1, e2)
  BY EqualMeansSameValue DEF SameBelow
<1>2. /\ x[1] \in E /\ x[2] \in E
      /\ val[x[1]] <= val[x[2]] => val[e1] <= val[e2]
      /\ val[x[2]] <= val[x[1]] => val[e2] <= val[e1]
  BY <1>1, EliminatedOrder
<1>3. x[2] = Y => val[x[1]] <= val[x[2]]
  <2>1. val[Y] = 2
    BY ConstantsOf
  <2>2. val[x[1]] \in {0, 1, 2}
    BY <1>2, ValueIsTristate DEF Tristate, no, mod, yes
  <2> QED BY <2>1, <2>2
<1> QED BY <1>2, <1>3

-----------------------------------------------------------------------------
(* Joining the operands that are about one symbol. *)

\* A join gives one of its operands, a symbol, or an equation where there was one.
LEMMA JoinedShape ==
  ASSUME NEW Q, NEW type \in Levels, NEW e1, NEW e2, NEW r, r = Joined(Q, type, e1, e2), r # Null
  PROVE \/ r \in {e1, e2}
        \/ r[1] = "sym"
        \/ r[1] \in {"eq", "ne"} /\ (e1[1] \in {"eq", "ne"} \/ e2[1] \in {"eq", "ne"})
<1>1. CASE Q[<<e1, e2>>]
  BY <1>1 DEF Joined, JoinedOr, JoinedAnd, join_or, join_and
<1>2. CASE ~Q[<<e1, e2>>] /\ type = "or"
  <2>1. \/ TwoConstants("eq", e1, e2) /\ r[1] = "ne"
        \/ r = Y
    BY <1>2 DEF Joined, JoinedOr, join_or
  <2> QED BY <2>1 DEF TwoConstants, Y, Sym
<1>3. CASE ~Q[<<e1, e2>>] /\ type = "and"
  <2> DEFINE s == Joinable(e1, e2)
             a == s[1]
  <2> HIDE DEF s
  <2>1. r = CASE s = <<>> -> Null
              [] s # <<>> /\ {e1, e2} = {Sym(a), <<"eq", a, "y">>} -> <<"eq", a, "y">>
              [] s # <<>> /\ {e1, e2} = {Sym(a), <<"ne", a, "n">>} -> Sym(a)
              [] s # <<>> /\ {e1, e2} = {Sym(a), <<"ne", a, "m">>} -> <<"eq", a, "y">>
              [] s # <<>> /\ TypeOf(a) = "tri" /\ e1[1] = "eq" /\ e2[1] = "ne"
                   /\ IsConst(e1[3]) /\ IsConst(e2[3]) -> (IF e1[3] # e2[3] THEN e1 ELSE N)
              [] s # <<>> /\ TypeOf(a) = "tri" /\ e1[1] = "ne" /\ e2[1] = "eq"
                   /\ IsConst(e1[3]) /\ IsConst(e2[3]) -> (IF e2[3] # e1[3] THEN e2 ELSE N)
              [] s # <<>> /\ TypeOf(a) = "tri" /\ TwoConstants("ne", e1, e2) ->
                   <<"eq", a, OtherConstant(e1, e2)>>
              [] OTHER -> Null
    BY <1>3 DEF Joined, JoinedAnd, join_and, s
  <2>2. s # <<>>
    BY <2>1
  <2>3. \/ {e1, e2} = {Sym(a), <<"eq", a, "y">>} /\ r = <<"eq", a, "y">>
        \/ r = Sym(a)
        \/ {e1, e2} = {Sym(a), <<"ne", a, "m">>} /\ r = <<"eq", a, "y">>
        \/ r \in {e1, e2, N}
        \/ TwoConstants("ne", e1, e2) /\ r = <<"eq", a, OtherConstant(e1, e2)>>
    BY <2>1, <2>2
  <2> HIDE DEF a
  <2>4. CASE {e1, e2} = {Sym(a), <<"eq", a, "y">>} /\ r = <<"eq", a, "y">>
    <3>1. <<"eq", a, "y">> \in {e1, e2} /\ <<"eq", a, "y">>[1] = "eq"
      BY <2>4
    <3> QED BY <2>4, <3>1
  <2>5. CASE {e1, e2} = {Sym(a), <<"ne", a, "m">>} /\ r = <<"eq", a, "y">>
    <3>1. <<"ne", a, "m">> \in {e1, e2}
      BY <2>5
    <3>2. <<"ne", a, "m">>[1] = "ne" /\ r[1] = "eq"
      BY <2>5
    <3>3. e1 = <<"ne", a, "m">> \/ e2 = <<"ne", a, "m">>
      BY <3>1
    <3>4. e1[1] = "ne" \/ e2[1] = "ne"
      BY <3>2, <3>3
    <3> QED BY <3>2, <3>4
  <2> QED BY <2>3, <2>4, <2>5 DEF TwoConstants, N, Sym
<1> QED BY <1>1, <1>2, <1>3 DEF Levels

\* A join is lighter than its two operands.
LEMMA JoinedWeight ==
  ASSUME NEW E, NEW w, NEW bound, Expressions(E, w, bound),
         NEW Q, NEW type \in Levels, NEW e1 \in E, NEW e2 \in E,
         NEW r \in E, r = Joined(Q, type, e1, e2), r # Null
  PROVE w[r] + 1 <= w[e1] + w[e2]
<1>1. /\ w[e1] \in Nat /\ w[e1] >= 1 /\ w[e2] \in Nat /\ w[e2] >= 1 /\ w[r] \in Nat
  BY WeightAtLeastOne
<1>2. ASSUME NEW x \in E, x[1] \in {"eq", "ne"} PROVE w[x] = 2
  <2>1. x[1] \in Comparisons
    BY <1>2 DEF Comparisons
  <2>2. x = <<x[1], x[2], x[3]>> /\ x[2] \in Names /\ x[3] \in Names
    BY <1>2, <2>1, ShapeOfComparison
  <2> QED BY <2>1, <2>2, Leaves
<1>3. ASSUME NEW x \in E, x[1] = "sym" PROVE w[x] = 1
  BY <1>3, KindsOf, SixComparisons DEF Sym
<1>4. CASE r \in {e1, e2}
  BY <1>1, <1>4
<1>5. CASE r[1] = "sym"
  BY <1>1, <1>3, <1>5
<1>6. CASE r[1] \in {"eq", "ne"} /\ (e1[1] \in {"eq", "ne"} \/ e2[1] \in {"eq", "ne"})
  <2>1. w[r] = 2 /\ (w[e1] = 2 \/ w[e2] = 2)
    BY <1>2, <1>6
  <2> QED BY <1>1, <2>1
<1> QED BY <1>4, <1>5, <1>6, JoinedShape

\* A join is at a limit exactly if its two operands are.
LEMMA JoinedIs ==
  ASSUME NEW E, NEW w, NEW bound, Expressions(E, w, bound),
         NEW v, NEW val, Valuation(v), Values(E, v, val),
         NEW Q, NEW type \in Levels, NEW e1 \in E, NEW e2 \in E, Q[<<e1, e2>>] => val[e1] = val[e2],
         NEW r, r = Joined(Q, type, e1, e2), r # Null, NEW t \in Tristate
  PROVE /\ r \in E /\ w[r] + 1 <= w[e1] + w[e2]
        /\ AtLimit(type, val[r], t) <=> AtLimit(type, val[e1], t) /\ AtLimit(type, val[e2], t)
<1>1. val[e1] \in {0, 1, 2} /\ val[e2] \in {0, 1, 2} /\ t \in {0, 1, 2}
  BY ValueIsTristate DEF Tristate, no, mod, yes
<1>2. CASE type = "and"
  <2>1. r = JoinedAnd(Q, e1, e2)
    BY <1>2 DEF Joined
  <2>2. r \in E /\ val[r] = EXPR_AND(val[e1], val[e2])
    BY <2>1, JoinAndKeepsValue
  <2> QED BY <1>1, <1>2, <2>2, JoinedWeight DEF EXPR_AND, AtLimit
<1>3. CASE type = "or"
  <2>1. r = JoinedOr(Q, e1, e2)
    BY <1>3 DEF Joined
  <2>2. r \in E /\ val[r] = EXPR_OR(val[e1], val[e2])
    BY <2>1, JoinOrKeepsValue
  <2> QED BY <1>1, <1>3, <2>2, JoinedWeight DEF EXPR_OR, AtLimit
<1> QED BY <1>2, <1>3 DEF Levels

AllBut(type, l, i, val, t) == \A j \in 1..Size(l) : j # i => AtLimit(type, val[l[j]], t)

\* One element and all others.
LEMMA AllAtIs ==
  ASSUME NEW E, NEW l, IsList(l, E), NEW i \in 1..Size(l), NEW type, NEW val, NEW t
  PROVE AllAt(type, l, val, t) <=> AllBut(type, l, i, val, t) /\ AtLimit(type, val[l[i]], t)
<1> DEFINE P(y) == AtLimit(type, val[y], t)
<1> HIDE DEF P
<1>1. (\A j \in 1..Size(l) : P(l[j])) <=> (\A j \in 1..Size(l) : j # i => P(l[j])) /\ P(l[i])
  OBVIOUS
<1> QED BY <1>1 DEF P, AllAt, AllBut

\* The others do not change with one.
LEMMA AllButPut ==
  ASSUME NEW E, NEW l, IsList(l, E), NEW i \in 1..Size(l), NEW x \in E, NEW type, NEW val, NEW t
  PROVE AllBut(type, Put(l, i, x), i, val, t) <=> AllBut(type, l, i, val, t)
<1> DEFINE p == Put(l, i, x)
           P(y) == AtLimit(type, val[y], t)
<1>1. Size(p) = Size(l)
  BY PutIs
<1>2. ASSUME NEW j \in 1..Size(l), j # i PROVE p[j] = l[j]
  BY <1>2, PutKeeps
<1> HIDE DEF p, P
<1>3. (\A j \in 1..Size(p) : j # i => P(p[j])) <=> (\A j \in 1..Size(l) : j # i => P(l[j]))
  BY <1>1, <1>2
<1> QED BY <1>3 DEF P, AllBut, p

\* All elements after one was put.
LEMMA AllAtWith ==
  ASSUME NEW E, NEW l, IsList(l, E), NEW i \in 1..Size(l), NEW x \in E, NEW type, NEW val, NEW t
  PROVE AllAt(type, Put(l, i, x), val, t) <=> AllBut(type, l, i, val, t) /\ AtLimit(type, val[x], t)
<1> DEFINE p == Put(l, i, x)
<1>1. IsList(p, E) /\ Size(p) = Size(l) /\ p[i] = x
  BY PutIs
<1>2. AllBut(type, p, i, val, t) <=> AllBut(type, l, i, val, t)
  BY AllButPut
<1> HIDE DEF p
<1>3. AllAt(type, p, val, t) <=> AllBut(type, p, i, val, t) /\ AtLimit(type, val[p[i]], t)
  BY <1>1, AllAtIs
<1> QED BY <1>1, <1>2, <1>3 DEF p

\* The list s.ops of operands of e weighs no more than its own one, and has its value.
Joining(E, w, O, V, val, type, e, s) ==
  /\ Fits(s.ops, e, type, O, E) /\ V[type][<<e, s.ops>>] <= w[e]
  /\ \A t \in Tristate : AllAt(type, s.ops, val, t) <=> AllAt(type, O[type][e], val, t)

\* expr_eliminate_dups1 is right about all levels that are smaller than e.
PassBelow(E, w, val, J, e) ==
  \A a \in E : a[1] \in Levels /\ w[a] < w[e] =>
    J[a].e \in E /\ w[J[a].e] <= w[a] /\ val[J[a].e] = val[a]

SoundEq(E, val, Q) == \A a, b \in E : Q[<<a, b>>] => val[a] = val[b]

\* The operands after one pair has met.
LEMMA MeetIs ==
  ASSUME NEW J, NEW Q, NEW type, NEW s, NEW p, p[1] # p[2],
         NEW i, i = IF s.ops[p[1]][1] \in Levels THEN J[s.ops[p[1]]].e ELSE s.ops[p[1]],
         NEW r, r = Joined(Q, type, i, s.ops[p[2]])
  PROVE MeetPairOf(J, Q, type, s, p).ops =
          IF r = Null THEN Put(s.ops, p[1], i) ELSE Put(Put(s.ops, p[1], Gone(type)), p[2], r)
<1> DEFINE a == s.ops[p[1]]
           b == s.ops[p[2]]
           inner == IF a[1] \in {"or", "and"} THEN J[a] ELSE [e |-> a, n |-> 0]
<1>1. MeetPairOf(J, Q, type, s, p) = JoinPair(type, s, p, inner, Joined(Q, type, inner.e, b))
  BY DEF MeetPairOf, MeetPair
<1>2. inner.e = i
  BY DEF Levels
<1> HIDE DEF inner
<1>3. MeetPairOf(J, Q, type, s, p) = JoinPair(type, s, p, inner, r)
  BY <1>1, <1>2
<1> QED BY <1>2, <1>3 DEF JoinPair, Put

\* Meeting one pair of operands keeps the value of the level and adds no weight.
LEMMA MeetStep ==
  ASSUME NEW E, NEW w, NEW bound, Expressions(E, w, bound), NEW O, Lists(E, O),
         NEW V, Weighs(E, w, O, V), NEW v, NEW val, Valuation(v), Values(E, v, val),
         NEW type \in Levels, NEW e \in E, e[1] = type,
         NEW Q, SoundEq(E, val, Q), NEW J, PassBelow(E, w, val, J, e),
         NEW s, Joining(E, w, O, V, val, type, e, s),
         NEW p \in (1..Size(O[type][e])) \X (1..Size(O[type][e]))
  PROVE Joining(E, w, O, V, val, type, e, MeetPairOf(J, Q, type, s, p))
<1> DEFINE l == s.ops
           a == l[p[1]]
           b == l[p[2]]
           i == IF a[1] \in Levels THEN J[a].e ELSE a
           r == Joined(Q, type, i, b)
           g == Gone(type)
           x == MeetPairOf(J, Q, type, s, p)
<1>1. /\ Fits(l, e, type, O, E) /\ V[type][<<e, l>>] <= w[e]
      /\ \A t \in Tristate : AllAt(type, l, val, t) <=> AllAt(type, O[type][e], val, t)
  BY DEF Joining
<1>2. p[1] \in 1..Size(l) /\ p[2] \in 1..Size(l) /\ IsList(l, E)
  BY <1>1 DEF Fits
<1>3. CASE p[1] = p[2]
  <2>1. x = s
    BY <1>3 DEF MeetPairOf, MeetPair
  <2> QED BY <2>1
<1>4. CASE p[1] # p[2]
  <2>1. a \in E /\ b \in E
    BY <1>2 DEF IsList
  <2>2. V[type][<<e, l>>] \in Nat
    BY <1>1, WeightIsNat
  <2>3. w[a] < V[type][<<e, l>>]
    BY <1>1, <1>2, WeightOfOperand
  <2>4. w[a] \in Nat /\ w[a] >= 1 /\ w[b] \in Nat /\ w[b] >= 1 /\ w[e] \in Nat
    BY <2>1, WeightAtLeastOne
  <2>5. i \in E /\ w[i] <= w[a] /\ val[i] = val[a]
    <3>1. w[a] < w[e]
      <4> HIDE DEF a, l
      <4> QED BY <1>1, <2>2, <2>3, <2>4
    <3>2. CASE a[1] \in Levels
      <4>1. i = J[a].e
        BY <3>2
      <4> HIDE DEF a, l, i
      <4> QED BY <2>1, <3>1, <3>2, <4>1 DEF PassBelow
    <3>3. CASE a[1] \notin Levels
      <4>1. i = a
        BY <3>3
      <4> QED BY <2>1, <2>4, <4>1
    <3> QED BY <3>2, <3>3
  <2>6. w[i] \in Nat
    BY <2>5, WeightAtLeastOne
  <2>7. x.ops = IF r = Null THEN Put(l, p[1], i) ELSE Put(Put(l, p[1], g), p[2], r)
    <3>1. i = IF s.ops[p[1]][1] \in Levels THEN J[s.ops[p[1]]].e ELSE s.ops[p[1]]
      OBVIOUS
    <3>2. r = Joined(Q, type, i, s.ops[p[2]])
      OBVIOUS
    <3> HIDE DEF i, r
    <3> QED BY <1>4, <3>1, <3>2, MeetIs
  <2> HIDE DEF x, i, r, a, b
  <2>8. CASE r = Null
    <3> DEFINE k == Put(l, p[1], i)
    <3>1. x.ops = k
      BY <2>7, <2>8
    <3>2. Fits(k, e, type, O, E)
      BY <1>1, <1>2, <2>5, PutIs DEF Fits
    <3>3. V[type][<<e, k>>] = V[type][<<e, l>>] - w[a] + w[i]
      BY <1>1, <1>2, <2>5, PutWeight DEF a
    <3>4. V[type][<<e, k>>] <= w[e]
      <4> HIDE DEF k, l
      <4> QED BY <1>1, <2>2, <2>4, <2>5, <2>6, <3>3
    <3>5. ASSUME NEW t \in Tristate PROVE AllAt(type, k, val, t) <=> AllAt(type, O[type][e], val, t)
      <4>1. AllAt(type, k, val, t) <=> AllBut(type, l, p[1], val, t) /\ AtLimit(type, val[i], t)
        BY <1>2, <2>5, AllAtWith
      <4>2. AllAt(type, l, val, t) <=> AllBut(type, l, p[1], val, t) /\ AtLimit(type, val[a], t)
        BY <1>2, AllAtIs DEF a
      <4> HIDE DEF k, l
      <4> QED BY <1>1, <2>5, <4>1, <4>2
    <3> HIDE DEF k
    <3> QED BY <3>1, <3>2, <3>4, <3>5 DEF Joining, x
  <2>9. CASE r # Null
    <3> DEFINE m == Put(l, p[1], g)
               k == Put(m, p[2], r)
    <3>1. x.ops = k
      BY <2>7, <2>9
    <3>2. g \in E /\ w[g] = 1 /\ \A t \in Tristate : AtLimit(type, val[g], t)
      BY GoneIs
    <3>3. ASSUME NEW t \in Tristate
          PROVE /\ r \in E /\ w[r] + 1 <= w[i] + w[b]
                /\ AtLimit(type, val[r], t) <=> AtLimit(type, val[i], t) /\ AtLimit(type, val[b], t)
      <4>1. Q[<<i, b>>] => val[i] = val[b]
        BY <2>1, <2>5 DEF SoundEq
      <4>2. r = Joined(Q, type, i, b)
        BY DEF r
      <4> QED BY <2>1, <2>5, <2>9, <4>1, <4>2, JoinedIs
    <3>4. r \in E /\ w[r] + 1 <= w[i] + w[b] /\ w[r] \in Nat
      <4>1. no \in Tristate
        BY DEF Tristate
      <4>2. r \in E /\ w[r] + 1 <= w[i] + w[b]
        BY <3>3, <4>1
      <4> QED BY <4>2, WeightAtLeastOne
    <3>5. IsList(m, E) /\ Size(m) = Size(l) /\ Fits(m, e, type, O, E) /\ p[2] \in 1..Size(m)
      BY <1>1, <1>2, <3>2, PutIs DEF Fits
    <3>6. m[p[2]] = b
      BY <1>2, <1>4, <3>2, PutKeeps DEF b
    <3>7. Fits(k, e, type, O, E)
      BY <3>4, <3>5, PutIs DEF Fits
    <3>8. V[type][<<e, m>>] = V[type][<<e, l>>] - w[a] + 1
      BY <1>1, <1>2, <3>2, PutWeight DEF a
    <3>9. V[type][<<e, k>>] = V[type][<<e, m>>] - w[b] + w[r]
      <4> HIDE DEF m
      <4> QED BY <3>4, <3>5, <3>6, PutWeight
    <3>10. V[type][<<e, k>>] <= w[e]
      <4> HIDE DEF k, l, m
      <4> QED BY <1>1, <2>2, <2>4, <2>5, <2>6, <3>4, <3>8, <3>9
    <3>11. ASSUME NEW t \in Tristate PROVE AllAt(type, k, val, t) <=> AllAt(type, O[type][e], val, t)
      <4>1. AllAt(type, l, val, t) <=> AllAt(type, m, val, t) /\ AtLimit(type, val[a], t)
        BY <1>2, <3>2, AllAtPut DEF a
      <4> HIDE DEF m
      <4>2. AllAt(type, k, val, t) <=> AllBut(type, m, p[2], val, t) /\ AtLimit(type, val[r], t)
        BY <3>4, <3>5, AllAtWith
      <4>3. AllAt(type, m, val, t) <=> AllBut(type, m, p[2], val, t) /\ AtLimit(type, val[b], t)
        BY <3>5, <3>6, AllAtIs
      <4> HIDE DEF k, l
      <4> QED BY <1>1, <2>5, <3>3, <4>1, <4>2, <4>3
    <3> HIDE DEF k, m
    <3> QED BY <3>1, <3>7, <3>10, <3>11 DEF Joining, x
  <2> QED BY <2>8, <2>9
<1> QED BY <1>3, <1>4

\* Values with the same limits are the same.
LEMMA SameByLimits ==
  ASSUME NEW type \in Levels, NEW a \in Tristate, NEW b \in Tristate,
         \A t \in Tristate : AtLimit(type, a, t) <=> AtLimit(type, b, t)
  PROVE a = b
<1>1. a <= b
  BY OrderOfLimits
<1>2. b <= a
  BY OrderOfLimits
<1> QED BY <1>1, <1>2 DEF Tristate, no, mod, yes

\* A pass is right about a level if it is about the lighter ones.
LEMMA OnePass ==
  ASSUME NEW E, NEW w, NEW bound, Expressions(E, w, bound), NEW O, Lists(E, O),
         NEW R, Rebuilds(E, O, R), NEW V, Weighs(E, w, O, V),
         NEW v, NEW val, Valuation(v), Values(E, v, val),
         NEW Q, SoundEq(E, val, Q), NEW J, JoinsDups(E, O, R, Q, J),
         NEW e \in E, e[1] \in Levels, PassBelow(E, w, val, J, e)
  PROVE J[e].e \in E /\ w[J[e].e] <= w[e] /\ val[J[e].e] = val[e]
<1> DEFINE type == e[1]
<1>1. PICK n, p, W : JoinsInOrder(O, R, Q, J, type, e, n, p, W)
  BY DEF JoinsDups
<1>2. n \in Nat /\ p \in [1..n -> (1..Size(O[type][e])) \X (1..Size(O[type][e]))]
  BY <1>1 DEF JoinsInOrder, Size
<1>3. /\ W[0] = [ops |-> O[type][e], n |-> 0]
      /\ \A k \in 1..n : W[k] = MeetPairOf(J, Q, type, W[k - 1], p[k])
      /\ J[e] = [e |-> R[type][<<e, W[n].ops>>], n |-> W[n].n]
  BY <1>1 DEF JoinsInOrder
<1>4. type \in Levels /\ e[1] = type
  OBVIOUS
<1> HIDE DEF type
<1> DEFINE Inv(k) == Joining(E, w, O, V, val, type, e, W[k])
<1>5. Inv(0)
  <2>1. IsList(O[type][e], E)
    BY <1>4, ListIsInE
  <2>2. V[type][<<e, O[type][e]>>] = w[e]
    BY <1>4, OwnWeight
  <2>3. w[e] \in Nat
    BY WeightAtLeastOne
  <2>4. W[0].ops = O[type][e]
    BY <1>3
  <2> QED BY <2>1, <2>2, <2>3, <2>4 DEF Joining, Fits
<1>6. ASSUME NEW k \in 1..n, Inv(k - 1) PROVE Inv(k)
  <2>1. p[k] \in (1..Size(O[type][e])) \X (1..Size(O[type][e]))
    BY <1>2
  <2>2. Joining(E, w, O, V, val, type, e, MeetPairOf(J, Q, type, W[k - 1], p[k]))
    BY <1>4, <1>6, <2>1, MeetStep
  <2> QED BY <1>3, <2>2
<1>7. Inv(n)
  <2> DEFINE G == {k \in 0..n : Inv(k)}
  <2>0. n \in Nat
    BY <1>2
  <2>1. 0 \in G
    BY <1>5, <2>0
  <2>2. ASSUME NEW k \in 1..n, k - 1 \in G PROVE k \in G
    BY <1>6, <2>2, <2>0
  <2> HIDE DEF G
  <2>3. n \in G
    BY <2>0, <2>1, <2>2, UpTo
  <2> QED BY <2>3 DEF G
<1> DEFINE l == W[n].ops
           r == R[type][<<e, l>>]
<1>8. Fits(l, e, type, O, E) /\ V[type][<<e, l>>] <= w[e]
  BY <1>7 DEF Joining
<1>9. V[type][<<e, l>>] <= bound
  <2>1. V[type][<<e, l>>] \in Nat
    BY <1>4, <1>8, WeightIsNat
  <2>2. w[e] \in Nat /\ w[e] <= bound /\ bound \in Nat
    BY WeightAtLeastOne
  <2> HIDE DEF l
  <2> QED BY <1>8, <2>1, <2>2
<1>10. r \in E /\ w[r] = V[type][<<e, l>>]
  BY <1>4, <1>8, <1>9, RebuiltIsInE
<1>11. val[e] \in Tristate /\ val[r] \in Tristate
  BY <1>10, ValueIsTristate
<1>12. ASSUME NEW t \in Tristate PROVE AtLimit(type, val[r], t) <=> AtLimit(type, val[e], t)
  <2>0. Meets(E, type, val, t)
    BY <1>4, ValuesMeet
  <2>1. AtLimit(type, val[r], t) <=> AllAt(type, l, val, t)
    BY <1>4, <1>8, <1>9, <2>0, RebuiltValue
  <2>2. AtLimit(type, val[e], t) <=> AllAt(type, O[type][e], val, t)
    BY <1>4, <2>0, LevelValue
  <2>3. AllAt(type, l, val, t) <=> AllAt(type, O[type][e], val, t)
    BY <1>7 DEF Joining
  <2> HIDE DEF l, r
  <2> QED BY <2>1, <2>2, <2>3
<1>13. val[r] = val[e]
  <2> DEFINE a == val[r]
             b == val[e]
  <2>1. a \in Tristate /\ b \in Tristate /\ \A t \in Tristate : AtLimit(type, a, t) <=> AtLimit(type, b, t)
    BY <1>11, <1>12
  <2> HIDE DEF a, b
  <2>2. a = b
    BY <1>4, <2>1, SameByLimits
  <2> QED BY <2>2 DEF a, b
<1>14. J[e].e = r
  BY <1>3
<1> QED BY <1>8, <1>10, <1>13, <1>14

\* One pass of expr_eliminate_dups1 over a level keeps its value, in whatever order the
\* operands meet, and makes it no larger.
THEOREM PassKeepsValue ==
  ASSUME NEW E, NEW w, NEW bound, Expressions(E, w, bound), NEW O, Lists(E, O),
         NEW R, Rebuilds(E, O, R), NEW V, Weighs(E, w, O, V),
         NEW v, NEW val, Valuation(v), Values(E, v, val), NEW S, SweepsYN(E, S),
         NEW L, NEW Q, Equality(E, O, R, S, L, Q), NEW J, JoinsDups(E, O, R, Q, J)
  PROVE \A e \in E : e[1] \in Levels => J[e].e \in E /\ w[J[e].e] <= w[e] /\ val[J[e].e] = val[e]
<1> DEFINE Good(e) == e[1] \in Levels => J[e].e \in E /\ w[J[e].e] <= w[e] /\ val[J[e].e] = val[e]
           Bad == {e \in E : ~Good(e)}
<1>1. SUFFICES ASSUME Bad # {} PROVE FALSE
  OBVIOUS
<1>2. w \in [E -> Nat]
  BY DEF Expressions
<1>3. PICK e \in Bad : \A y \in Bad : w[e] <= w[y]
  BY <1>1, <1>2, LeastWeight
<1>4. ASSUME NEW y \in E, w[y] < w[e] PROVE Good(y)
  BY <1>2, <1>3, <1>4
<1>5. e \in E /\ e[1] \in Levels
  OBVIOUS
<1> SUFFICES Good(e)
  OBVIOUS
<1> HIDE DEF Bad
<1>6. PassBelow(E, w, val, J, e)
  BY <1>4 DEF PassBelow
<1>7. SoundEq(E, val, Q)
  BY EqualMeansSameValue DEF SoundEq
<1> QED BY <1>5, <1>6, <1>7, OnePass

\* expr_eliminate_dups, however many passes it takes, keeps the value of an expression and
\* makes it no larger.
THEOREM DupsKeepValue ==
  ASSUME NEW E, NEW w, NEW bound, Expressions(E, w, bound), NEW O, Lists(E, O),
         NEW R, Rebuilds(E, O, R), NEW V, Weighs(E, w, O, V),
         NEW v, NEW val, Valuation(v), Values(E, v, val), NEW S, SweepsYN(E, S),
         NEW L, NEW Q, Equality(E, O, R, S, L, Q), NEW J, JoinsDups(E, O, R, Q, J),
         NEW e \in E, NEW r, EliminatesDups(J, S, e, r)
  PROVE r \in E /\ w[r] <= w[e] /\ val[r] = val[e]
<1>1. PICK n \in Nat : \E P :
        /\ P[0] = e
        /\ \A k \in 1..n : P[k - 1][1] \in Levels /\ J[P[k - 1]].n # 0 /\ P[k] = S[J[P[k - 1]].e]
        /\ IF P[n][1] \in Levels THEN J[P[n]].n = 0 /\ r = J[P[n]].e ELSE r = P[n]
  BY DEF EliminatesDups
<1>2. PICK P :
        /\ P[0] = e
        /\ \A k \in 1..n : P[k - 1][1] \in Levels /\ J[P[k - 1]].n # 0 /\ P[k] = S[J[P[k - 1]].e]
        /\ IF P[n][1] \in Levels THEN J[P[n]].n = 0 /\ r = J[P[n]].e ELSE r = P[n]
  BY <1>1
<1>3. \A a \in E : a[1] \in Levels => J[a].e \in E /\ w[J[a].e] <= w[a] /\ val[J[a].e] = val[a]
  BY PassKeepsValue
<1>4. \A a \in E : S[a] \in E /\ w[S[a]] <= w[a] /\ val[S[a]] = val[a]
  BY SweepKeepsValue
<1>5. \A a \in E : w[a] \in Nat
  BY WeightAtLeastOne
<1> DEFINE Inv(k) == P[k] \in E /\ w[P[k]] <= w[e] /\ val[P[k]] = val[e]
<1>6. Inv(0)
  BY <1>2, <1>5
<1>7. ASSUME NEW k \in 1..n, Inv(k - 1) PROVE Inv(k)
  <2> DEFINE a == P[k - 1]
             b == J[a].e
  <2>1. a \in E /\ w[a] <= w[e] /\ val[a] = val[e]
    BY <1>7
  <2>2. a[1] \in Levels /\ P[k] = S[b]
    BY <1>2
  <2> HIDE DEF a
  <2>3. b \in E /\ w[b] <= w[a] /\ val[b] = val[a]
    BY <1>3, <2>1, <2>2
  <2> HIDE DEF b
  <2>4. S[b] \in E /\ w[S[b]] <= w[b] /\ val[S[b]] = val[b]
    BY <1>4, <2>3
  <2>5. w[a] \in Nat /\ w[b] \in Nat /\ w[S[b]] \in Nat /\ w[e] \in Nat
    BY <1>5, <2>1, <2>3, <2>4
  <2>6. P[k] \in E /\ w[P[k]] <= w[e] /\ val[P[k]] = val[e]
    BY <2>1, <2>2, <2>3, <2>4, <2>5
  <2> QED BY <2>6
<1>8. Inv(n)
  <2> DEFINE G == {k \in 0..n : Inv(k)}
  <2>0. n \in Nat
    BY <1>1
  <2>1. 0 \in G
    BY <1>6, <2>0
  <2>2. ASSUME NEW k \in 1..n, k - 1 \in G PROVE k \in G
    BY <1>7, <2>2, <2>0
  <2> HIDE DEF G
  <2>3. n \in G
    BY <2>0, <2>1, <2>2, UpTo
  <2> QED BY <2>3 DEF G
<1> DEFINE a == P[n]
<1>9. a \in E /\ w[a] <= w[e] /\ val[a] = val[e]
  BY <1>8
<1>10. r = IF a[1] \in Levels THEN J[a].e ELSE a
  BY <1>2
<1> HIDE DEF a
<1>11. CASE a[1] \in Levels
  <2>1. r \in E /\ w[r] <= w[a] /\ val[r] = val[a]
    BY <1>3, <1>9, <1>10, <1>11
  <2>2. w[a] \in Nat /\ w[r] \in Nat /\ w[e] \in Nat
    BY <1>5, <1>9, <2>1
  <2> QED BY <1>9, <2>1, <2>2
<1>12. CASE a[1] \notin Levels
  BY <1>9, <1>10, <1>12
<1> QED BY <1>11, <1>12

\* What menu_finalize makes of every dependency, expr_eliminate_dups(expr_transform(e)),
\* has the value of e whatever values the symbols have.
THEOREM SimplifiedHasSameValue ==
  ASSUME NEW E, NEW w, NEW bound, Expressions(E, w, bound), NEW O, Lists(E, O),
         NEW R, Rebuilds(E, O, R), NEW V, Weighs(E, w, O, V),
         NEW v, NEW val, Valuation(v), Values(E, v, val), NEW S, SweepsYN(E, S),
         NEW form, Forms(E, form), NEW T, Transforms(E, T),
         NEW L, NEW Q, Equality(E, O, R, S, L, Q), NEW J, JoinsDups(E, O, R, Q, J),
         NEW e \in E, NEW r, EliminatesDups(J, S, T[e], r)
  PROVE r \in E /\ w[r] <= w[e] /\ val[r] = val[e]
<1> DEFINE d == T[e]
<1>1. d \in E /\ w[d] <= w[e] /\ val[d] = val[e]
  BY TransformKeepsValue
<1>2. EliminatesDups(J, S, d, r)
  OBVIOUS
<1> HIDE DEF d
<1>3. r \in E /\ w[r] <= w[d] /\ val[r] = val[d]
  BY <1>1, <1>2, DupsKeepValue
<1>4. w[r] \in Nat /\ w[d] \in Nat /\ w[e] \in Nat
  BY <1>1, <1>3, WeightAtLeastOne
<1> QED BY <1>1, <1>3, <1>4

\* The test by which menu_finalize puts an entry with the dependency e1 below one with the
\* dependency e2: both are brought into the form e != n and simplified, and where
\* expr_eliminate_eq then leaves y of the second, every configuration in which nothing is
\* m and that shows the entry shows the one above it.
THEOREM SubmenuShowsParent ==
  ASSUME NEW E, NEW w, NEW bound, Expressions(E, w, bound), NEW O, Lists(E, O),
         NEW R, Rebuilds(E, O, R), NEW V, Weighs(E, w, O, V),
         NEW v, NEW val, Valuation(v), NothingIsM(v), Values(E, v, val), NEW S, SweepsYN(E, S),
         NEW form, Forms(E, form), NEW T, Transforms(E, T), NEW P, Plain(E, P), NEW C, Compares(E, "n", C),
         NEW L, NEW Q, Equality(E, O, R, S, L, Q), NEW J, JoinsDups(E, O, R, Q, J),
         NEW e1 \in E, NEW e2 \in E, P[e1], P[e2], 4 * w[e1] <= bound, 4 * w[e2] <= bound,
         NEW r1, EliminatesDups(J, S, T[C["ne"][e1]], r1),
         NEW r2, EliminatesDups(J, S, T[C["ne"][e2]], r2),
         Eliminated(L, S, r1, r2)[2] = Y
  PROVE val[e1] # no => val[e2] # no
<1> DEFINE c1 == C["ne"][e1]
           c2 == C["ne"][e2]
<1>1. /\ c1 \in E /\ (val[c1] = yes <=> val[e1] # no)
      /\ c2 \in E /\ (val[c2] = yes <=> val[e2] # no)
  BY TransCompareTruth
<1>2. EliminatesDups(J, S, T[c1], r1) /\ EliminatesDups(J, S, T[c2], r2)
  OBVIOUS
<1> HIDE DEF c1, c2
<1>3. r1 \in E /\ val[r1] = val[c1] /\ r2 \in E /\ val[r2] = val[c2]
  <2>1. r1 \in E /\ val[r1] = val[c1]
    BY <1>1, <1>2, SimplifiedHasSameValue
  <2>2. r2 \in E /\ val[r2] = val[c2]
    BY <1>1, <1>2, SimplifiedHasSameValue
  <2> QED BY <2>1, <2>2
<1>4. val[r1] <= val[r2]
  <2> DEFINE x == Eliminated(L, S, r1, r2)
  <2>1. x[2] = Y /\ x = Eliminated(L, S, r1, r2)
    OBVIOUS
  <2> HIDE DEF x
  <2> QED BY <1>3, <2>1, EliminateKeepsOrder
<1>5. val[r1] \in {0, 1, 2} /\ val[r2] \in {0, 1, 2}
  BY <1>3, ValueIsTristate DEF Tristate, no, mod, yes
<1> QED BY <1>1, <1>3, <1>4, <1>5 DEF yes, no

-----------------------------------------------------------------------------
(* Negations of symbols only, which is what expr_trans_bool relies on. *)

Goal(type) == IF type = "and" THEN 2 ELSE 0
Mark(E, type, form) == [e \in E |-> IF form[e] THEN Goal(type) ELSE 2 - Goal(type)]

\* The form as a mark that is at the limit or not.
LEMMA MarkIs ==
  ASSUME NEW E, NEW type \in Levels, NEW form, NEW e \in E
  PROVE AtLimit(type, Mark(E, type, form)[e], Goal(type)) <=> form[e]
  BY DEF AtLimit, Mark, Goal, Levels

\* A level has the form exactly if its two parts have it.
LEMMA MarkMeets ==
  ASSUME NEW E, NEW w, NEW bound, Expressions(E, w, bound), NEW form, Forms(E, form), NEW type \in Levels
  PROVE Meets(E, type, Mark(E, type, form), Goal(type))
<1>1. ASSUME NEW e \in E, e[1] = type
      PROVE AtLimit(type, Mark(E, type, form)[e], Goal(type)) <=>
              /\ AtLimit(type, Mark(E, type, form)[e[2]], Goal(type))
              /\ AtLimit(type, Mark(E, type, form)[e[3]], Goal(type))
  <2>1. e[2] \in E /\ e[3] \in E /\ e = <<type, e[2], e[3]>>
    BY <1>1, PartsOfLevel
  <2>2. form[e] <=> form[e[2]] /\ form[e[3]]
    BY <2>1, FormOf DEF Levels
  <2> QED BY <2>1, <2>2, MarkIs
<1> QED BY <1>1 DEF Meets

\* Symbols and comparisons have the form.
LEMMA FormOfLeaf ==
  ASSUME NEW E, NEW w, NEW bound, Expressions(E, w, bound), NEW form, Forms(E, form),
         NEW e \in E, e[1] \in Comparisons \cup {"sym"}
  PROVE form[e]
  BY KindsOf, FormOf, SixComparisons

\* A join of operands of that form has it.
LEMMA FormOfJoined ==
  ASSUME NEW E, NEW w, NEW bound, Expressions(E, w, bound), NEW form, Forms(E, form),
         NEW Q, NEW type \in Levels, NEW e1 \in E, NEW e2 \in E, form[e1], form[e2],
         NEW r \in E, r = Joined(Q, type, e1, e2), r # Null
  PROVE form[r]
<1>1. r \in {e1, e2} \/ r[1] \in Comparisons \cup {"sym"}
  BY JoinedShape DEF Comparisons
<1> QED BY <1>1, FormOfLeaf

PassFormBelow(E, w, form, J, e) ==
  \A a \in E : a[1] \in Levels /\ w[a] < w[e] /\ form[a] => form[J[a].e]

\* Meeting one pair of operands keeps the form.
LEMMA MeetForm ==
  ASSUME NEW E, NEW w, NEW bound, Expressions(E, w, bound), NEW O, Lists(E, O),
         NEW V, Weighs(E, w, O, V), NEW v, NEW val, Valuation(v), Values(E, v, val),
         NEW form, Forms(E, form), NEW type \in Levels, NEW e \in E, e[1] = type,
         NEW Q, SoundEq(E, val, Q), NEW J, PassBelow(E, w, val, J, e), PassFormBelow(E, w, form, J, e),
         NEW s, Joining(E, w, O, V, val, type, e, s), \A j \in 1..Size(s.ops) : form[s.ops[j]],
         NEW p \in (1..Size(O[type][e])) \X (1..Size(O[type][e])),
         NEW j \in 1..Size(MeetPairOf(J, Q, type, s, p).ops)
  PROVE form[MeetPairOf(J, Q, type, s, p).ops[j]]
<1> DEFINE l == s.ops
           a == l[p[1]]
           b == l[p[2]]
           i == IF a[1] \in Levels THEN J[a].e ELSE a
           r == Joined(Q, type, i, b)
           g == Gone(type)
           x == MeetPairOf(J, Q, type, s, p)
<1>1. Fits(l, e, type, O, E) /\ V[type][<<e, l>>] <= w[e]
  BY DEF Joining
<1>2. p[1] \in 1..Size(l) /\ p[2] \in 1..Size(l) /\ IsList(l, E)
  BY <1>1 DEF Fits
<1>3. CASE p[1] = p[2]
  <2>1. x = s
    BY <1>3 DEF MeetPairOf, MeetPair
  <2> QED BY <2>1
<1>4. CASE p[1] # p[2]
  <2>1. a \in E /\ b \in E /\ form[a] /\ form[b]
    BY <1>2 DEF IsList
  <2>2. V[type][<<e, l>>] \in Nat
    BY <1>1, WeightIsNat
  <2>3. w[a] < V[type][<<e, l>>]
    BY <1>1, <1>2, WeightOfOperand
  <2>4. w[a] \in Nat /\ w[e] \in Nat
    BY <2>1, WeightAtLeastOne
  <2>5. i \in E /\ val[i] = val[a] /\ form[i]
    <3>1. w[a] < w[e]
      <4> HIDE DEF a, l
      <4> QED BY <1>1, <2>2, <2>3, <2>4
    <3>2. CASE a[1] \in Levels
      <4>1. i = J[a].e
        BY <3>2
      <4> HIDE DEF a, l, i
      <4> QED BY <2>1, <3>1, <3>2, <4>1 DEF PassBelow, PassFormBelow
    <3>3. CASE a[1] \notin Levels
      <4>1. i = a
        BY <3>3
      <4> QED BY <2>1, <4>1
    <3> QED BY <3>2, <3>3
  <2>6. x.ops = IF r = Null THEN Put(l, p[1], i) ELSE Put(Put(l, p[1], g), p[2], r)
    <3>1. i = IF s.ops[p[1]][1] \in Levels THEN J[s.ops[p[1]]].e ELSE s.ops[p[1]]
      OBVIOUS
    <3>2. r = Joined(Q, type, i, s.ops[p[2]])
      OBVIOUS
    <3> HIDE DEF i, r
    <3> QED BY <1>4, <3>1, <3>2, MeetIs
  <2>7. \A k \in 1..Size(l) : form[l[k]]
    OBVIOUS
  <2>8. j \in 1..Size(x.ops)
    OBVIOUS
  <2> HIDE DEF x, i, r, a, b, l
  <2>9. CASE r = Null
    <3> DEFINE k == Put(l, p[1], i)
    <3>1. x.ops = k
      BY <2>6, <2>9
    <3>2. Size(k) = Size(l) /\ k[p[1]] = i
      BY <1>2, <2>5, PutIs
    <3>3. CASE j = p[1]
      BY <2>5, <3>1, <3>2, <3>3 DEF x
    <3>4. CASE j # p[1]
      <4>1. j \in 1..Size(l)
        BY <2>8, <3>1, <3>2
      <4>2. k[j] = l[j]
        BY <1>2, <2>5, <3>4, <4>1, PutKeeps
      <4>3. form[x.ops[j]]
        BY <2>7, <3>1, <4>1, <4>2
      <4> QED BY <4>3 DEF x
    <3> QED BY <3>3, <3>4
  <2>10. CASE r # Null
    <3> DEFINE m == Put(l, p[1], g)
               k == Put(m, p[2], r)
    <3>1. x.ops = k
      BY <2>6, <2>10
    <3>2. g \in E /\ form[g]
      <4>1. g \in E
        BY GoneIs
      <4>2. g[1] = "sym"
        BY DEF Gone, Y, N, Sym
      <4> QED BY <4>1, <4>2, FormOfLeaf
    <3>3. r \in E /\ form[r]
      <4>1. Q[<<i, b>>] => val[i] = val[b]
        BY <2>1, <2>5 DEF SoundEq
      <4>2. r = Joined(Q, type, i, b)
        BY DEF r
      <4>3. no \in Tristate
        BY DEF Tristate
      <4>4. r \in E
        BY <2>1, <2>5, <2>10, <4>1, <4>2, <4>3, JoinedIs
      <4> QED BY <2>1, <2>5, <2>10, <4>2, <4>4, FormOfJoined
    <3>4. IsList(m, E) /\ Size(m) = Size(l) /\ m[p[1]] = g
      BY <1>2, <3>2, PutIs
    <3>5. p[2] \in 1..Size(m)
      BY <1>2, <3>4
    <3> HIDE DEF m
    <3>6. Size(k) = Size(l) /\ k[p[2]] = r
      BY <3>3, <3>4, <3>5, PutIs
    <3>7. j \in 1..Size(l) /\ j \in 1..Size(m)
      BY <2>8, <3>1, <3>4, <3>6
    <3>8. CASE j = p[2]
      BY <3>1, <3>3, <3>6, <3>8 DEF x
    <3>9. CASE j # p[2]
      <4>1. k[j] = m[j]
        BY <3>3, <3>4, <3>5, <3>7, <3>9, PutKeeps
      <4>2. form[m[j]]
        <5>1. CASE j = p[1]
          BY <3>2, <3>4, <5>1
        <5>2. CASE j # p[1]
          <6>1. m[j] = l[j]
            BY <1>2, <3>2, <3>7, <5>2, PutKeeps DEF m
          <6> QED BY <2>7, <3>7, <6>1
        <5> QED BY <5>1, <5>2
      <4>3. form[x.ops[j]]
        BY <3>1, <4>1, <4>2
      <4> QED BY <4>3 DEF x
    <3> QED BY <3>8, <3>9
  <2> QED BY <2>9, <2>10
<1> QED BY <1>3, <1>4

\* All operands have the form.
LEMMA AllMarked ==
  ASSUME NEW E, NEW l, IsList(l, E), NEW type \in Levels, NEW form
  PROVE AllAt(type, l, Mark(E, type, form), Goal(type)) <=> \A j \in 1..Size(l) : form[l[j]]
<1>1. ASSUME NEW j \in 1..Size(l)
      PROVE AtLimit(type, Mark(E, type, form)[l[j]], Goal(type)) <=> form[l[j]]
  <2>1. l[j] \in E
    BY DEF IsList
  <2> QED BY <2>1, MarkIs
<1> QED BY <1>1 DEF AllAt

\* A pass keeps the form of a level if it keeps that of the lighter ones.
LEMMA OnePassForm ==
  ASSUME NEW E, NEW w, NEW bound, Expressions(E, w, bound), NEW O, Lists(E, O),
         NEW R, Rebuilds(E, O, R), NEW V, Weighs(E, w, O, V),
         NEW v, NEW val, Valuation(v), Values(E, v, val), NEW form, Forms(E, form),
         NEW Q, SoundEq(E, val, Q), NEW J, JoinsDups(E, O, R, Q, J),
         NEW e \in E, e[1] \in Levels, PassBelow(E, w, val, J, e), PassFormBelow(E, w, form, J, e), form[e]
  PROVE form[J[e].e]
<1> DEFINE type == e[1]
<1>1. PICK n, p, W : JoinsInOrder(O, R, Q, J, type, e, n, p, W)
  BY DEF JoinsDups
<1>2. n \in Nat /\ p \in [1..n -> (1..Size(O[type][e])) \X (1..Size(O[type][e]))]
  BY <1>1 DEF JoinsInOrder, Size
<1>3. /\ W[0] = [ops |-> O[type][e], n |-> 0]
      /\ \A k \in 1..n : W[k] = MeetPairOf(J, Q, type, W[k - 1], p[k])
      /\ J[e] = [e |-> R[type][<<e, W[n].ops>>], n |-> W[n].n]
  BY <1>1 DEF JoinsInOrder
<1>4. type \in Levels /\ e[1] = type
  OBVIOUS
<1> HIDE DEF type
<1> DEFINE M1 == Mark(E, type, form)
           t == Goal(type)
<1>5. Meets(E, type, M1, t)
  BY <1>4, MarkMeets
<1> DEFINE All(s) == \A j \in 1..Size(s.ops) : form[s.ops[j]]
           Inv(k) == Joining(E, w, O, V, val, type, e, W[k]) /\ All(W[k])
<1>6. Inv(0)
  <2>1. IsList(O[type][e], E)
    BY <1>4, ListIsInE
  <2>2. V[type][<<e, O[type][e]>>] = w[e]
    BY <1>4, OwnWeight
  <2>3. w[e] \in Nat
    BY WeightAtLeastOne
  <2>4. W[0].ops = O[type][e]
    BY <1>3
  <2>5. AtLimit(type, M1[e], t)
    BY <1>4, MarkIs
  <2> HIDE DEF M1, t
  <2>6. AllAt(type, O[type][e], M1, t)
    BY <1>4, <1>5, <2>5, LevelValue
  <2>7. \A j \in 1..Size(O[type][e]) : form[O[type][e][j]]
    BY <1>4, <2>1, <2>6, AllMarked DEF M1, t
  <2>8. All(W[0])
    BY <2>4, <2>7
  <2> HIDE DEF All
  <2> QED BY <2>1, <2>2, <2>3, <2>4, <2>8 DEF Joining, Fits
<1>7. ASSUME NEW k \in 1..n, Inv(k - 1) PROVE Inv(k)
  <2> DEFINE x == MeetPairOf(J, Q, type, W[k - 1], p[k])
  <2>1. p[k] \in (1..Size(O[type][e])) \X (1..Size(O[type][e]))
    BY <1>2
  <2>2. Joining(E, w, O, V, val, type, e, x)
    BY <1>4, <1>7, <2>1, MeetStep
  <2>3. ASSUME NEW j \in 1..Size(x.ops) PROVE form[x.ops[j]]
    BY <1>4, <1>7, <2>1, MeetForm
  <2>4. All(x)
    BY <2>3
  <2>5. W[k] = x
    BY <1>3
  <2> HIDE DEF x, All
  <2> QED BY <2>2, <2>4, <2>5
<1>8. Inv(n)
  <2> DEFINE G == {k \in 0..n : Inv(k)}
  <2>0. n \in Nat
    BY <1>2
  <2>1. 0 \in G
    BY <1>6, <2>0
  <2>2. ASSUME NEW k \in 1..n, k - 1 \in G PROVE k \in G
    BY <1>7, <2>2, <2>0
  <2> HIDE DEF G
  <2>3. n \in G
    BY <2>0, <2>1, <2>2, UpTo
  <2> QED BY <2>3 DEF G
<1> DEFINE l == W[n].ops
           r == R[type][<<e, l>>]
<1>9. Fits(l, e, type, O, E) /\ V[type][<<e, l>>] <= w[e]
  BY <1>8 DEF Joining
<1>10. V[type][<<e, l>>] <= bound
  <2>1. V[type][<<e, l>>] \in Nat
    BY <1>4, <1>9, WeightIsNat
  <2>2. w[e] \in Nat /\ w[e] <= bound /\ bound \in Nat
    BY WeightAtLeastOne
  <2> HIDE DEF l
  <2> QED BY <1>9, <2>1, <2>2
<1>11. r \in E
  BY <1>4, <1>9, <1>10, RebuiltIsInE
<1>12. AllAt(type, l, M1, t)
  <2>1. IsList(l, E)
    BY <1>9 DEF Fits
  <2>2. \A j \in 1..Size(l) : form[l[j]]
    BY <1>8
  <2> HIDE DEF l
  <2> QED BY <1>4, <2>1, <2>2, AllMarked
<1>13. AtLimit(type, M1[r], t)
  <2> HIDE DEF M1, t
  <2> QED BY <1>4, <1>5, <1>9, <1>10, <1>12, RebuiltValue
<1>14. form[r]
  BY <1>4, <1>11, <1>13, MarkIs
<1>15. J[e].e = r
  BY <1>3
<1> QED BY <1>14, <1>15

\* A pass of expr_eliminate_dups1 makes no negation of more than a symbol.
LEMMA PassKeepsForm ==
  ASSUME NEW E, NEW w, NEW bound, Expressions(E, w, bound), NEW O, Lists(E, O),
         NEW R, Rebuilds(E, O, R), NEW V, Weighs(E, w, O, V),
         NEW v, NEW val, Valuation(v), Values(E, v, val), NEW form, Forms(E, form), NEW S, SweepsYN(E, S),
         NEW L, NEW Q, Equality(E, O, R, S, L, Q), NEW J, JoinsDups(E, O, R, Q, J)
  PROVE \A e \in E : e[1] \in Levels /\ form[e] => form[J[e].e]
<1> DEFINE Good(e) == e[1] \in Levels /\ form[e] => form[J[e].e]
           Bad == {e \in E : ~Good(e)}
<1>1. SUFFICES ASSUME Bad # {} PROVE FALSE
  OBVIOUS
<1>2. w \in [E -> Nat]
  BY DEF Expressions
<1>3. PICK e \in Bad : \A y \in Bad : w[e] <= w[y]
  BY <1>1, <1>2, LeastWeight
<1>4. ASSUME NEW y \in E, w[y] < w[e] PROVE Good(y)
  BY <1>2, <1>3, <1>4
<1>5. e \in E /\ e[1] \in Levels /\ form[e]
  OBVIOUS
<1> SUFFICES Good(e)
  OBVIOUS
<1> HIDE DEF Bad
<1>6. PassFormBelow(E, w, form, J, e)
  BY <1>4 DEF PassFormBelow
<1>7. SoundEq(E, val, Q)
  BY EqualMeansSameValue DEF SoundEq
<1>8. PassBelow(E, w, val, J, e)
  BY PassKeepsValue DEF PassBelow
<1> QED BY <1>5, <1>6, <1>7, <1>8, OnePassForm

\* expr_eliminate_dups makes no negation of more than a symbol.
LEMMA DupsKeepForm ==
  ASSUME NEW E, NEW w, NEW bound, Expressions(E, w, bound), NEW O, Lists(E, O),
         NEW R, Rebuilds(E, O, R), NEW V, Weighs(E, w, O, V),
         NEW v, NEW val, Valuation(v), Values(E, v, val), NEW form, Forms(E, form), NEW S, SweepsYN(E, S),
         NEW L, NEW Q, Equality(E, O, R, S, L, Q), NEW J, JoinsDups(E, O, R, Q, J),
         NEW e \in E, form[e], NEW r, EliminatesDups(J, S, e, r)
  PROVE form[r]
<1>1. PICK n \in Nat : \E P :
        /\ P[0] = e
        /\ \A k \in 1..n : P[k - 1][1] \in Levels /\ J[P[k - 1]].n # 0 /\ P[k] = S[J[P[k - 1]].e]
        /\ IF P[n][1] \in Levels THEN J[P[n]].n = 0 /\ r = J[P[n]].e ELSE r = P[n]
  BY DEF EliminatesDups
<1>2. PICK P :
        /\ P[0] = e
        /\ \A k \in 1..n : P[k - 1][1] \in Levels /\ J[P[k - 1]].n # 0 /\ P[k] = S[J[P[k - 1]].e]
        /\ IF P[n][1] \in Levels THEN J[P[n]].n = 0 /\ r = J[P[n]].e ELSE r = P[n]
  BY <1>1
<1>3. \A a \in E : a[1] \in Levels /\ form[a] => J[a].e \in E /\ form[J[a].e]
  BY PassKeepsValue, PassKeepsForm
<1>4. \A a \in E : form[a] => S[a] \in E /\ form[S[a]]
  BY SweepKeepsValue, SweepKeepsForm
<1> DEFINE Inv(k) == P[k] \in E /\ form[P[k]]
<1>5. Inv(0)
  BY <1>2
<1>6. ASSUME NEW k \in 1..n, Inv(k - 1) PROVE Inv(k)
  BY <1>2, <1>3, <1>4, <1>6
<1>7. Inv(n)
  <2> DEFINE G == {k \in 0..n : Inv(k)}
  <2>1. 0 \in G
    BY <1>5
  <2>2. ASSUME NEW k \in 1..n, k - 1 \in G PROVE k \in G
    BY <1>6, <2>2
  <2> HIDE DEF G
  <2>3. n \in G
    BY <2>1, <2>2, UpTo
  <2> QED BY <2>3 DEF G
<1> QED BY <1>2, <1>3, <1>7

\* expr_trans_bool, which menu_finalize applies to the simplified dependency of a bool
\* symbol, rewrites FOO!=n to FOO below a negation as well, where it would be wrong. No
\* such negation is left by then, not even by the joining of operands: the dependency is
\* satisfied exactly where it was.
THEOREM BoolDependencyKeepsTruth ==
  ASSUME NEW E, NEW w, NEW bound, Expressions(E, w, bound), NEW O, Lists(E, O),
         NEW R, Rebuilds(E, O, R), NEW V, Weighs(E, w, O, V),
         NEW v, NEW val, Valuation(v), Values(E, v, val), NEW form, Forms(E, form), NEW S, SweepsYN(E, S),
         NEW T, Transforms(E, T), NEW B, TransformsBool(E, B),
         NEW L, NEW Q, Equality(E, O, R, S, L, Q), NEW J, JoinsDups(E, O, R, Q, J),
         NEW e \in E, NEW r, EliminatesDups(J, S, T[e], r)
  PROVE form[r] /\ B[r] \in E /\ (val[B[r]] = no <=> val[e] = no)
<1> DEFINE d == T[e]
<1>1. d \in E /\ form[d]
  BY TransformKeepsValue
<1>2. EliminatesDups(J, S, d, r)
  OBVIOUS
<1> HIDE DEF d
<1>3. form[r]
  BY <1>1, <1>2, DupsKeepForm
<1>4. r \in E /\ val[r] = val[e]
  BY SimplifiedHasSameValue
<1>5. B[r] \in E /\ (val[B[r]] = no <=> val[r] = no)
  BY <1>3, <1>4, TransBoolInForm
<1> QED BY <1>3, <1>4, <1>5

-----------------------------------------------------------------------------
(* Passes come to an end: a pass that joins operands leaves something to sweep. *)

\* The sweep makes x lighter; an operand of that kind, or one that was dropped; and a pass
\* over a that counts its joins, and leaves a alone if there is none.
Shrinks(w, S, x) == w[S[x]] < w[x]
Spare(w, S, type, x) == x = Gone(type) \/ Shrinks(w, S, x)
PassSaves(w, S, J, a) ==
  /\ J[a].n \in Nat
  /\ J[a].n = 0 => J[a].e = a
  /\ J[a].n # 0 => w[J[a].e] < w[a] \/ Shrinks(w, S, J[a].e)
SavesBelow(E, w, S, J, e) == \A a \in E : a[1] \in Levels /\ w[a] < w[e] => PassSaves(w, S, J, a)
Counted(w, O, V, S, type, e, s) ==
  /\ s.n \in Nat
  /\ s.n = 0 => s.ops = O[type][e]
  /\ s.n # 0 => V[type][<<e, s.ops>>] < w[e] \/ \E i \in 1..Size(s.ops) : Spare(w, S, type, s.ops[i])

\* An element put where it is.
LEMMA PutSame ==
  ASSUME NEW E, NEW l, IsList(l, E), NEW i \in 1..Size(l)
  PROVE Put(l, i, l[i]) = l
<1> DEFINE k == Put(l, i, l[i])
<1>1. l[i] \in E
  BY DEF IsList
<1>2. IsList(k, E) /\ Size(k) = Size(l) /\ k[i] = l[i]
  BY <1>1, PutIs
<1>3. ASSUME NEW j \in 1..Size(l) PROVE k[j] = l[j]
  <2>1. CASE j = i
    BY <1>2, <2>1
  <2>2. CASE j # i
    BY <1>1, <2>2, PutKeeps
  <2> QED BY <2>1, <2>2
<1> HIDE DEF k
<1>4. k = l
  BY <1>2, <1>3, SameList
<1> QED BY <1>4 DEF k

\* How many joins there are after one pair has met.
LEMMA MeetCount ==
  ASSUME NEW J, NEW Q, NEW type, NEW s, NEW p, p[1] # p[2],
         NEW i, i = IF s.ops[p[1]][1] \in Levels THEN J[s.ops[p[1]]].e ELSE s.ops[p[1]],
         NEW m, m = IF s.ops[p[1]][1] \in Levels THEN J[s.ops[p[1]]].n ELSE 0,
         NEW r, r = Joined(Q, type, i, s.ops[p[2]])
  PROVE MeetPairOf(J, Q, type, s, p).n = s.n + m + (IF r = Null THEN 0 ELSE 1)
<1> DEFINE a == s.ops[p[1]]
           b == s.ops[p[2]]
           inner == IF a[1] \in {"or", "and"} THEN J[a] ELSE [e |-> a, n |-> 0]
<1>1. MeetPairOf(J, Q, type, s, p) = JoinPair(type, s, p, inner, Joined(Q, type, inner.e, b))
  BY DEF MeetPairOf, MeetPair
<1>2. inner.e = i /\ inner.n = m
  BY DEF Levels
<1> HIDE DEF inner
<1>3. MeetPairOf(J, Q, type, s, p) = JoinPair(type, s, p, inner, r)
  BY <1>1, <1>2
<1> QED BY <1>2, <1>3 DEF JoinPair

\* Meeting one pair of operands keeps the count.
LEMMA MeetCounts ==
  ASSUME NEW E, NEW w, NEW bound, Expressions(E, w, bound), NEW O, Lists(E, O),
         NEW V, Weighs(E, w, O, V), NEW v, NEW val, Valuation(v), Values(E, v, val),
         NEW S, NEW type \in Levels, NEW e \in E, e[1] = type,
         NEW Q, SoundEq(E, val, Q), NEW J, PassBelow(E, w, val, J, e), SavesBelow(E, w, S, J, e),
         NEW s, Joining(E, w, O, V, val, type, e, s), Counted(w, O, V, S, type, e, s),
         NEW p \in (1..Size(O[type][e])) \X (1..Size(O[type][e]))
  PROVE Counted(w, O, V, S, type, e, MeetPairOf(J, Q, type, s, p))
<1> DEFINE l == s.ops
           a == l[p[1]]
           b == l[p[2]]
           i == IF a[1] \in Levels THEN J[a].e ELSE a
           m == IF a[1] \in Levels THEN J[a].n ELSE 0
           r == Joined(Q, type, i, b)
           g == Gone(type)
           x == MeetPairOf(J, Q, type, s, p)
<1>1. Fits(l, e, type, O, E) /\ V[type][<<e, l>>] <= w[e]
  BY DEF Joining
<1>2. p[1] \in 1..Size(l) /\ p[2] \in 1..Size(l) /\ IsList(l, E)
  BY <1>1 DEF Fits
<1>3. CASE p[1] = p[2]
  <2>1. x = s
    BY <1>3 DEF MeetPairOf, MeetPair
  <2> QED BY <2>1
<1>4. CASE p[1] # p[2]
  <2>1. a \in E /\ b \in E
    BY <1>2 DEF IsList
  <2>2. V[type][<<e, l>>] \in Nat
    BY <1>1, WeightIsNat
  <2>3. w[a] < V[type][<<e, l>>]
    BY <1>1, <1>2, WeightOfOperand
  <2>4. w[a] \in Nat /\ w[e] \in Nat
    BY <2>1, WeightAtLeastOne
  <2>5. /\ i \in E /\ val[i] = val[a] /\ w[i] <= w[a] /\ m \in Nat
        /\ m = 0 => i = a
        /\ m # 0 => w[i] < w[a] \/ Shrinks(w, S, i)
    <3>1. w[a] < w[e]
      <4> HIDE DEF a, l
      <4> QED BY <1>1, <2>2, <2>3, <2>4
    <3>2. CASE a[1] \in Levels
      <4>1. i = J[a].e /\ m = J[a].n
        BY <3>2
      <4> HIDE DEF a, l, i, m
      <4>2. PassSaves(w, S, J, a)
        BY <2>1, <3>1, <3>2 DEF SavesBelow
      <4> QED BY <2>1, <3>1, <3>2, <4>1, <4>2 DEF PassBelow, PassSaves
    <3>3. CASE a[1] \notin Levels
      <4>1. i = a /\ m = 0
        BY <3>3
      <4> HIDE DEF a, i, m
      <4> QED BY <2>1, <2>4, <4>1
    <3> QED BY <3>2, <3>3
  <2>6. w[i] \in Nat
    BY <2>5, WeightAtLeastOne
  <2>7. /\ x.ops = IF r = Null THEN Put(l, p[1], i) ELSE Put(Put(l, p[1], g), p[2], r)
        /\ x.n = s.n + m + (IF r = Null THEN 0 ELSE 1)
    <3>1. i = IF s.ops[p[1]][1] \in Levels THEN J[s.ops[p[1]]].e ELSE s.ops[p[1]]
      OBVIOUS
    <3>2. r = Joined(Q, type, i, s.ops[p[2]])
      OBVIOUS
    <3>3. m = IF s.ops[p[1]][1] \in Levels THEN J[s.ops[p[1]]].n ELSE 0
      OBVIOUS
    <3> HIDE DEF i, r, m
    <3> QED BY <1>4, <3>1, <3>2, <3>3, MeetIs, MeetCount
  <2>8. /\ s.n \in Nat
        /\ s.n = 0 => l = O[type][e]
        /\ s.n # 0 => V[type][<<e, l>>] < w[e] \/ \E j \in 1..Size(l) : Spare(w, S, type, l[j])
    BY DEF Counted
  <2>9. a = l[p[1]]
    OBVIOUS
  <2> HIDE DEF x, i, r, a, b, l, m
  <2>10. CASE r = Null
    <3> DEFINE k == Put(l, p[1], i)
    <3>1. x.ops = k /\ x.n = s.n + m
      BY <2>5, <2>7, <2>8, <2>10
    <3>2. CASE m = 0
      <4>1. k = l
        BY <1>2, <2>5, <2>9, <3>2, PutSame
      <4>2. x.n = s.n
        BY <2>8, <3>1, <3>2
      <4> HIDE DEF k
      <4>3. Counted(w, O, V, S, type, e, x)
        BY <2>8, <3>1, <4>1, <4>2 DEF Counted
      <4> QED BY <4>3 DEF x
    <3>3. CASE m # 0
      <4>1. x.n \in Nat /\ x.n # 0
        BY <2>5, <2>8, <3>1, <3>3
      <4>2. Size(k) = Size(l) /\ k[p[1]] = i
        BY <1>2, <2>5, PutIs
      <4>3. V[type][<<e, k>>] = V[type][<<e, l>>] - w[a] + w[i]
        BY <1>1, <1>2, <2>5, PutWeight DEF a
      <4> HIDE DEF k
      <4>4. w[i] < w[a] => V[type][<<e, k>>] < w[e]
        BY <1>1, <2>2, <2>4, <2>6, <4>3
      <4>5. Shrinks(w, S, i) => \E j \in 1..Size(k) : Spare(w, S, type, k[j])
        BY <1>2, <4>2 DEF Spare
      <4>6. Counted(w, O, V, S, type, e, x)
        BY <2>5, <3>1, <3>3, <4>1, <4>4, <4>5 DEF Counted
      <4> QED BY <4>6 DEF x
    <3> QED BY <3>2, <3>3
  <2>11. CASE r # Null
    <3> DEFINE h == Put(l, p[1], g)
               k == Put(h, p[2], r)
    <3>1. x.ops = k /\ x.n = s.n + m + 1
      BY <2>7, <2>11
    <3>2. g \in E
      BY GoneIs
    <3>3. r \in E
      <4>1. Q[<<i, b>>] => val[i] = val[b]
        BY <2>1, <2>5 DEF SoundEq
      <4>2. r = Joined(Q, type, i, b)
        BY DEF r
      <4>3. no \in Tristate
        BY DEF Tristate
      <4> QED BY <2>1, <2>5, <2>11, <4>1, <4>2, <4>3, JoinedIs
    <3>4. IsList(h, E) /\ Size(h) = Size(l) /\ h[p[1]] = g
      BY <1>2, <3>2, PutIs
    <3>5. p[1] \in 1..Size(h) /\ p[2] \in 1..Size(h)
      BY <1>2, <3>4
    <3> HIDE DEF h
    <3>6. Size(k) = Size(l)
      BY <3>3, <3>4, <3>5, PutIs
    <3>7. k[p[1]] = g
      BY <1>4, <3>3, <3>4, <3>5, PutKeeps
    <3>8. \E j \in 1..Size(k) : Spare(w, S, type, k[j])
      BY <1>2, <3>6, <3>7 DEF Spare
    <3>9. x.n \in Nat /\ x.n # 0
      BY <2>5, <2>8, <3>1
    <3> HIDE DEF k
    <3>10. Counted(w, O, V, S, type, e, x)
      BY <3>1, <3>8, <3>9 DEF Counted
    <3> QED BY <3>10 DEF x
  <2> QED BY <2>10, <2>11
<1> QED BY <1>3, <1>4

\* Rebuilt with its own operands, an expression is itself.
LEMMA RebuiltSelf ==
  ASSUME NEW E, NEW w, NEW bound, Expressions(E, w, bound), NEW O, Lists(E, O),
         NEW R, Rebuilds(E, O, R), NEW type \in Levels
  PROVE \A e \in E : R[type][<<e, O[type][e]>>] = e
<1> DEFINE Good(e) == R[type][<<e, O[type][e]>>] = e
           Bad == {e \in E : ~Good(e)}
<1>1. SUFFICES ASSUME Bad # {} PROVE FALSE
  OBVIOUS
<1>2. w \in [E -> Nat]
  BY DEF Expressions
<1>3. PICK e \in Bad : \A y \in Bad : w[e] <= w[y]
  BY <1>1, <1>2, LeastWeight
<1>4. ASSUME NEW y \in E, w[y] < w[e] PROVE Good(y)
  BY <1>2, <1>3, <1>4
<1>5. e \in E
  OBVIOUS
<1> SUFFICES Good(e)
  OBVIOUS
<1> HIDE DEF Bad
<1> DEFINE l == O[type][e]
<1>6. IsList(l, E)
  BY <1>5, ListIsInE
<1>7. CASE e[1] # type
  <2>1. l = <<e>>
    BY <1>5, <1>7, ListOfLeaf
  <2>2. R[type][<<e, l>>] = l[1]
    BY <1>5, <1>6, <1>7, RebuiltLeaf
  <2> QED BY <2>1, <2>2
<1>8. CASE e[1] = type
  <2> DEFINE a == O[type][e[2]]
             b == O[type][e[3]]
  <2>1. e[2] \in E /\ e[3] \in E /\ w[e[2]] < w[e] /\ w[e[3]] < w[e] /\ e = <<type, e[2], e[3]>>
    BY <1>5, <1>8, PartsOfLevel
  <2>2. l = Cat(a, b)
    BY <1>5, <1>8, ListOfLevel
  <2>3. IsList(a, E) /\ IsList(b, E)
    BY <2>1, ListIsInE
  <2>4. R[type][<<e, l>>] = <<type, R[type][<<e[2], Left(l, Size(a))>>], R[type][<<e[3], Right(l, Size(a))>>]>>
    BY <1>5, <1>6, <1>8, RebuiltLevel
  <2>5. Left(l, Size(a)) = a /\ Right(l, Size(a)) = b
    <3> HIDE DEF a, b, l
    <3>1. a \in Seq(E) /\ b \in Seq(E)
      BY <2>3 DEF IsList, Size
    <3> QED BY <2>2, <3>1 DEF Left, Right, Cat, Size
  <2>6. Good(e[2]) /\ Good(e[3])
    BY <1>4, <2>1
  <2> QED BY <2>1, <2>4, <2>5, <2>6
<1> QED BY <1>7, <1>8

\* The sweep of a level drops what is Gone, and one of its parts with it.
LEMMA SweepOfLevel ==
  ASSUME NEW E, NEW S, SweepsYN(E, S), NEW type \in Levels,
         NEW e \in E, NEW a, NEW b, e = <<type, a, b>>
  PROVE \/ S[e] \in {Y, N}
        \/ S[e] = S[b] /\ S[a] = Gone(type)
        \/ S[e] = S[a] /\ S[b] = Gone(type)
        \/ S[e] = <<type, S[a], S[b]>> /\ S[a] # Gone(type) /\ S[b] # Gone(type)
<1>1. S[e] = eliminate_yn(e, LAMBDA x : S[x])
  BY DEF SweepsYN
<1>2. e[1] = type /\ e[2] = a /\ e[3] = b
  OBVIOUS
<1> QED BY <1>1, <1>2 DEF eliminate_yn, Levels

\* The sweep leaves what is Gone.
LEMMA SweepOfGone ==
  ASSUME NEW E, NEW S, SweepsYN(E, S), NEW type, Gone(type) \in E
  PROVE S[Gone(type)] = Gone(type)
<1>1. S[Gone(type)] = eliminate_yn(Gone(type), LAMBDA x : S[x])
  BY DEF SweepsYN
<1>2. Gone(type)[1] = "sym"
  BY DEF Gone, Y, N, Sym
<1> QED BY <1>1, <1>2 DEF eliminate_yn

\* The sweep makes a level lighter if one of its parts is spare.
LEMMA SweepShrinks ==
  ASSUME NEW E, NEW w, NEW bound, Expressions(E, w, bound),
         NEW v, NEW val, Valuation(v), Values(E, v, val), NEW S, SweepsYN(E, S),
         NEW type \in Levels, NEW a \in E, NEW b \in E, NEW e \in E, e = <<type, a, b>>,
         Spare(w, S, type, a) \/ Spare(w, S, type, b)
  PROVE Shrinks(w, S, e)
<1>1. w[e] = w[a] + w[b] + 1
  BY PartsOfTwo DEF Levels
<1>2. /\ S[a] \in E /\ w[S[a]] <= w[a] /\ S[b] \in E /\ w[S[b]] <= w[b] /\ S[e] \in E
  BY SweepKeepsValue
<1>3. /\ w[a] \in Nat /\ w[a] >= 1 /\ w[b] \in Nat /\ w[b] >= 1
      /\ w[S[a]] \in Nat /\ w[S[b]] \in Nat
  BY <1>2, WeightAtLeastOne
<1>4. w[Y] = 1 /\ w[N] = 1
  BY ConstantsOf
<1>5. Gone(type) \in E
  BY GoneIs
<1>6. S[Gone(type)] = Gone(type)
  BY <1>5, SweepOfGone
<1>7. \/ S[e] \in {Y, N}
      \/ S[e] = S[b]
      \/ S[e] = S[a]
      \/ S[e] = <<type, S[a], S[b]>> /\ S[a] # Gone(type) /\ S[b] # Gone(type)
  BY SweepOfLevel
<1>8. CASE S[e] \in {Y, N}
  BY <1>1, <1>3, <1>4, <1>8 DEF Shrinks
<1>9. CASE S[e] = S[b]
  BY <1>1, <1>2, <1>3, <1>9 DEF Shrinks
<1>10. CASE S[e] = S[a]
  BY <1>1, <1>2, <1>3, <1>10 DEF Shrinks
<1>11. CASE S[e] = <<type, S[a], S[b]>> /\ S[a] # Gone(type) /\ S[b] # Gone(type)
  <2>1. w[S[a]] < w[a] \/ w[S[b]] < w[b]
    BY <1>6, <1>11 DEF Spare, Shrinks
  <2>2. w[S[e]] = w[S[a]] + w[S[b]] + 1
    BY <1>2, <1>11, PartsOfTwo DEF Levels
  <2> QED BY <1>1, <1>2, <1>3, <2>1, <2>2 DEF Shrinks
<1> QED BY <1>7, <1>8, <1>9, <1>10, <1>11

\* The sweep makes a rebuilt level lighter if one of its new operands is spare.
LEMMA RebuiltShrinks ==
  ASSUME NEW E, NEW w, NEW bound, Expressions(E, w, bound), NEW O, Lists(E, O),
         NEW R, Rebuilds(E, O, R), NEW V, Weighs(E, w, O, V),
         NEW v, NEW val, Valuation(v), Values(E, v, val), NEW S, SweepsYN(E, S), NEW type \in Levels
  PROVE \A e \in E : \A l : Fits(l, e, type, O, E) /\ V[type][<<e, l>>] <= bound =>
          \A i \in 1..Size(l) : Spare(w, S, type, l[i]) =>
            IF e[1] = type THEN Shrinks(w, S, R[type][<<e, l>>]) ELSE Spare(w, S, type, R[type][<<e, l>>])
<1> DEFINE Good(e) == \A l : Fits(l, e, type, O, E) /\ V[type][<<e, l>>] <= bound =>
             \A i \in 1..Size(l) : Spare(w, S, type, l[i]) =>
               IF e[1] = type THEN Shrinks(w, S, R[type][<<e, l>>]) ELSE Spare(w, S, type, R[type][<<e, l>>])
           Bad == {e \in E : ~Good(e)}
<1>1. SUFFICES ASSUME Bad # {} PROVE FALSE
  OBVIOUS
<1>2. w \in [E -> Nat] /\ bound \in Nat
  BY DEF Expressions
<1>3. PICK e \in Bad : \A y \in Bad : w[e] <= w[y]
  BY <1>1, <1>2, LeastWeight
<1>4. ASSUME NEW y \in E, w[y] < w[e] PROVE Good(y)
  BY <1>2, <1>3, <1>4
<1>5. e \in E
  OBVIOUS
<1> SUFFICES Good(e)
  OBVIOUS
<1> HIDE DEF Bad
<1>6. ASSUME NEW l, Fits(l, e, type, O, E), V[type][<<e, l>>] <= bound,
             NEW i \in 1..Size(l), Spare(w, S, type, l[i])
      PROVE IF e[1] = type THEN Shrinks(w, S, R[type][<<e, l>>]) ELSE Spare(w, S, type, R[type][<<e, l>>])
  <2>1. IsList(l, E) /\ Size(l) = Size(O[type][e])
    BY <1>6 DEF Fits
  <2>2. CASE e[1] # type
    <3>1. R[type][<<e, l>>] = l[1]
      BY <1>5, <2>1, <2>2, RebuiltLeaf
    <3>2. Size(l) = 1
      BY <1>5, <1>6, <2>2, FitsLeaf
    <3>3. i = 1
      BY <3>2
    <3> QED BY <1>6, <2>2, <3>1, <3>3
  <2>3. CASE e[1] = type
    <3> DEFINE m == Size(O[type][e[2]])
               x == V[type][<<e[2], Left(l, m)>>]
               y == V[type][<<e[3], Right(l, m)>>]
               a == R[type][<<e[2], Left(l, m)>>]
               b == R[type][<<e[3], Right(l, m)>>]
               r == R[type][<<e, l>>]
    <3>1. e[2] \in E /\ e[3] \in E /\ w[e[2]] < w[e] /\ w[e[3]] < w[e]
      BY <1>5, <2>3, PartsOfLevel
    <3>2. m \in 0..Size(l) /\ Fits(Left(l, m), e[2], type, O, E) /\ Fits(Right(l, m), e[3], type, O, E)
      BY <1>5, <1>6, <2>3, FitsParts
    <3>3. V[type][<<e, l>>] = x + y + 1
      BY <1>5, <2>1, <2>3, WeightLevel
    <3>4. r = <<type, a, b>>
      BY <1>5, <2>1, <2>3, RebuiltLevel
    <3>5. Good(e[2]) /\ Good(e[3])
      BY <1>4, <3>1
    <3>6. x \in Nat /\ y \in Nat
      BY <3>1, <3>2, WeightIsNat
    <3>7. x <= bound /\ y <= bound
      <4> HIDE DEF x, y
      <4> QED BY <1>2, <1>6, <3>3, <3>6
    <3>8. a \in E /\ b \in E /\ r \in E
      <4>1. a \in E /\ b \in E
        BY <3>1, <3>2, <3>7, RebuiltIsInE
      <4>2. r \in E
        BY <1>5, <1>6, RebuiltIsInE
      <4> QED BY <4>1, <4>2
    <3>9. Spare(w, S, type, a) \/ Spare(w, S, type, b)
      <4>1. CASE i <= m
        <5>1. i \in 1..m
          BY <3>2, <4>1
        <5>2. Left(l, m)[i] = l[i] /\ Size(Left(l, m)) = m
          BY <2>1, <3>2, <5>1, SplitIs
        <5>3. Spare(w, S, type, Left(l, m)[i]) /\ i \in 1..Size(Left(l, m))
          BY <1>6, <5>1, <5>2
        <5>4. Shrinks(w, S, a) \/ Spare(w, S, type, a)
          BY <3>2, <3>5, <3>7, <5>3
        <5> QED BY <5>4 DEF Spare
      <4>2. CASE i > m
        <5> DEFINE j == i - m
        <5>0. Size(l) \in Nat
          BY <2>1 DEF IsList
        <5>1. j \in 1..(Size(l) - m) /\ m + j = i
          BY <3>2, <4>2, <5>0
        <5> HIDE DEF j
        <5>2. Right(l, m)[j] = l[m + j] /\ Size(Right(l, m)) = Size(l) - m
          BY <2>1, <3>2, <5>1, SplitIs
        <5>3. Spare(w, S, type, Right(l, m)[j]) /\ j \in 1..Size(Right(l, m))
          BY <1>6, <5>1, <5>2
        <5>4. Shrinks(w, S, b) \/ Spare(w, S, type, b)
          BY <3>2, <3>5, <3>7, <5>3
        <5> QED BY <5>4 DEF Spare
      <4>3. i \in Int /\ m \in Int
        BY <3>2
      <4> HIDE DEF m
      <4> QED BY <4>1, <4>2, <4>3
    <3> HIDE DEF m, x, y, a, b, r
    <3>10. Shrinks(w, S, r)
      BY <3>4, <3>8, <3>9, SweepShrinks
    <3> QED BY <2>3, <3>10 DEF r
  <2> QED BY <2>2, <2>3
<1> QED BY <1>6

\* A pass that joins leaves something to sweep if the passes over lighter levels do.
LEMMA OnePassSaves ==
  ASSUME NEW E, NEW w, NEW bound, Expressions(E, w, bound), NEW O, Lists(E, O),
         NEW R, Rebuilds(E, O, R), NEW V, Weighs(E, w, O, V),
         NEW v, NEW val, Valuation(v), Values(E, v, val), NEW S, SweepsYN(E, S),
         NEW Q, SoundEq(E, val, Q), NEW J, JoinsDups(E, O, R, Q, J),
         NEW e \in E, e[1] \in Levels, PassBelow(E, w, val, J, e), SavesBelow(E, w, S, J, e)
  PROVE PassSaves(w, S, J, e)
<1> DEFINE type == e[1]
<1>1. PICK n, p, W : JoinsInOrder(O, R, Q, J, type, e, n, p, W)
  BY DEF JoinsDups
<1>2. n \in Nat /\ p \in [1..n -> (1..Size(O[type][e])) \X (1..Size(O[type][e]))]
  BY <1>1 DEF JoinsInOrder, Size
<1>3. /\ W[0] = [ops |-> O[type][e], n |-> 0]
      /\ \A k \in 1..n : W[k] = MeetPairOf(J, Q, type, W[k - 1], p[k])
      /\ J[e] = [e |-> R[type][<<e, W[n].ops>>], n |-> W[n].n]
  BY <1>1 DEF JoinsInOrder
<1>4. type \in Levels /\ e[1] = type
  OBVIOUS
<1> HIDE DEF type
<1> DEFINE Inv(k) == Joining(E, w, O, V, val, type, e, W[k]) /\ Counted(w, O, V, S, type, e, W[k])
<1>5. Inv(0)
  <2>1. IsList(O[type][e], E)
    BY <1>4, ListIsInE
  <2>2. V[type][<<e, O[type][e]>>] = w[e]
    BY <1>4, OwnWeight
  <2>3. w[e] \in Nat
    BY WeightAtLeastOne
  <2>4. W[0].ops = O[type][e] /\ W[0].n = 0
    BY <1>3
  <2>5. Joining(E, w, O, V, val, type, e, W[0])
    BY <2>1, <2>2, <2>3, <2>4 DEF Joining, Fits
  <2>6. Counted(w, O, V, S, type, e, W[0])
    BY <2>4 DEF Counted
  <2> QED BY <2>5, <2>6
<1>6. ASSUME NEW k \in 1..n, Inv(k - 1) PROVE Inv(k)
  <2> DEFINE x == MeetPairOf(J, Q, type, W[k - 1], p[k])
  <2>1. p[k] \in (1..Size(O[type][e])) \X (1..Size(O[type][e]))
    BY <1>2
  <2>2. Joining(E, w, O, V, val, type, e, x)
    BY <1>4, <1>6, <2>1, MeetStep
  <2>3. Counted(w, O, V, S, type, e, x)
    BY <1>4, <1>6, <2>1, MeetCounts
  <2>4. W[k] = x
    BY <1>3
  <2> HIDE DEF x
  <2> QED BY <2>2, <2>3, <2>4
<1>7. Inv(n)
  <2> DEFINE G == {k \in 0..n : Inv(k)}
  <2>0. n \in Nat
    BY <1>2
  <2>1. 0 \in G
    BY <1>5, <2>0
  <2>2. ASSUME NEW k \in 1..n, k - 1 \in G PROVE k \in G
    BY <1>6, <2>2, <2>0
  <2> HIDE DEF G
  <2>3. n \in G
    BY <2>0, <2>1, <2>2, UpTo
  <2> QED BY <2>3 DEF G
<1> DEFINE l == W[n].ops
           r == R[type][<<e, l>>]
<1>8. Fits(l, e, type, O, E) /\ V[type][<<e, l>>] <= w[e]
  BY <1>7 DEF Joining
<1>9. V[type][<<e, l>>] \in Nat /\ V[type][<<e, l>>] <= bound
  <2>1. V[type][<<e, l>>] \in Nat
    BY <1>4, <1>8, WeightIsNat
  <2>2. w[e] \in Nat /\ w[e] <= bound /\ bound \in Nat
    BY WeightAtLeastOne
  <2> HIDE DEF l
  <2> QED BY <1>8, <2>1, <2>2
<1>10. r \in E /\ w[r] = V[type][<<e, l>>]
  BY <1>4, <1>8, <1>9, RebuiltIsInE
<1>11. J[e].e = r /\ J[e].n = W[n].n
  BY <1>3
<1>12. /\ W[n].n \in Nat
       /\ W[n].n = 0 => l = O[type][e]
       /\ W[n].n # 0 => V[type][<<e, l>>] < w[e] \/ \E i \in 1..Size(l) : Spare(w, S, type, l[i])
  BY <1>7 DEF Counted
<1>13. ASSUME W[n].n = 0 PROVE r = e
  <2>1. l = O[type][e]
    BY <1>12, <1>13
  <2>2. R[type][<<e, O[type][e]>>] = e
    BY <1>4, RebuiltSelf
  <2> HIDE DEF l
  <2> QED BY <2>1, <2>2
<1>14. ASSUME W[n].n # 0 PROVE w[r] < w[e] \/ Shrinks(w, S, r)
  <2>1. CASE V[type][<<e, l>>] < w[e]
    BY <1>10, <2>1
  <2>2. ASSUME NEW i \in 1..Size(l), Spare(w, S, type, l[i]) PROVE Shrinks(w, S, r)
    <3> HIDE DEF l
    <3> QED BY <1>4, <1>8, <1>9, <2>2, RebuiltShrinks
  <2> HIDE DEF l, r
  <2> QED BY <1>12, <1>14, <2>1, <2>2
<1> HIDE DEF r, l
<1> QED BY <1>11, <1>12, <1>13, <1>14 DEF PassSaves

\* A pass of expr_eliminate_dups1 that counts no join leaves the expression as it was, and
\* what one that joins leaves is lighter once y and n are swept out.
THEOREM JoinsMakeLighter ==
  ASSUME NEW E, NEW w, NEW bound, Expressions(E, w, bound), NEW O, Lists(E, O),
         NEW R, Rebuilds(E, O, R), NEW V, Weighs(E, w, O, V),
         NEW v, NEW val, Valuation(v), Values(E, v, val), NEW S, SweepsYN(E, S),
         NEW L, NEW Q, Equality(E, O, R, S, L, Q), NEW J, JoinsDups(E, O, R, Q, J)
  PROVE \A e \in E : e[1] \in Levels =>
          /\ J[e].n \in Nat
          /\ J[e].n = 0 => J[e].e = e
          /\ J[e].n # 0 => S[J[e].e] \in E /\ w[S[J[e].e]] < w[e]
<1> DEFINE Good(e) == e[1] \in Levels => PassSaves(w, S, J, e)
           Bad == {e \in E : ~Good(e)}
<1>1. Bad = {}
  <2>1. SUFFICES ASSUME Bad # {} PROVE FALSE
    OBVIOUS
  <2>2. w \in [E -> Nat]
    BY DEF Expressions
  <2>3. PICK e \in Bad : \A y \in Bad : w[e] <= w[y]
    BY <2>1, <2>2, LeastWeight
  <2>4. ASSUME NEW y \in E, w[y] < w[e] PROVE Good(y)
    BY <2>2, <2>3, <2>4
  <2>5. e \in E /\ e[1] \in Levels
    OBVIOUS
  <2> SUFFICES Good(e)
    OBVIOUS
  <2> HIDE DEF Bad
  <2>6. SavesBelow(E, w, S, J, e)
    BY <2>4 DEF SavesBelow
  <2>7. SoundEq(E, val, Q)
    BY EqualMeansSameValue DEF SoundEq
  <2>8. PassBelow(E, w, val, J, e)
    BY PassKeepsValue DEF PassBelow
  <2> QED BY <2>5, <2>6, <2>7, <2>8, OnePassSaves
<1>2. TAKE e \in E
<1>3. HAVE e[1] \in Levels
<1>4. PassSaves(w, S, J, e)
  BY <1>1, <1>3
<1>5. J[e].e \in E /\ w[J[e].e] <= w[e]
  BY <1>3, PassKeepsValue
<1>6. S[J[e].e] \in E /\ w[S[J[e].e]] <= w[J[e].e]
  BY <1>5, SweepKeepsValue
<1>7. w[e] \in Nat /\ w[J[e].e] \in Nat /\ w[S[J[e].e]] \in Nat
  BY <1>5, <1>6, WeightAtLeastOne
<1> QED BY <1>4, <1>5, <1>6, <1>7 DEF PassSaves, Shrinks

\* expr_eliminate_dups comes to an end for every expression: it makes fewer passes than the
\* expression weighs.
THEOREM DupsEnd ==
  ASSUME NEW E, NEW w, NEW bound, Expressions(E, w, bound), NEW O, Lists(E, O),
         NEW R, Rebuilds(E, O, R), NEW V, Weighs(E, w, O, V),
         NEW v, NEW val, Valuation(v), Values(E, v, val), NEW S, SweepsYN(E, S),
         NEW L, NEW Q, Equality(E, O, R, S, L, Q), NEW J, JoinsDups(E, O, R, Q, J),
         NEW e \in E, NEW n \in Nat, NEW P, P[0] = e,
         \A k \in 1..n : P[k - 1][1] \in Levels /\ J[P[k - 1]].n # 0 /\ P[k] = S[J[P[k - 1]].e]
  PROVE n < w[e]
<1>1. \A a \in E : a[1] \in Levels /\ J[a].n # 0 => S[J[a].e] \in E /\ w[S[J[a].e]] < w[a]
  BY JoinsMakeLighter
<1>2. \A a \in E : w[a] \in Nat /\ w[a] >= 1
  BY WeightAtLeastOne
<1> DEFINE Inv(k) == P[k] \in E /\ w[P[k]] + k <= w[e]
           G == {k \in 0..n : Inv(k)}
<1>3. 0 \in G
  BY <1>2
<1>4. ASSUME NEW k \in 1..n, k - 1 \in G PROVE k \in G
  <2>1. P[k - 1] \in E /\ w[P[k - 1]] + (k - 1) <= w[e]
    BY <1>4
  <2>2. P[k] \in E /\ w[P[k]] < w[P[k - 1]]
    BY <1>1, <2>1
  <2> QED BY <1>2, <2>1, <2>2
<1> HIDE DEF G
<1>5. n \in G
  BY <1>3, <1>4, UpTo
<1>6. P[n] \in E /\ w[P[n]] + n <= w[e]
  BY <1>5 DEF G
<1> QED BY <1>2, <1>6

\* What expr_eliminate_dups makes of an expression, if its first pass joins nothing, or is
\* followed by passes that come to an end.
LEMMA DupsStop ==
  ASSUME NEW J, NEW S, NEW e, e[1] \in Levels => J[e].n = 0
  PROVE \E r : EliminatesDups(J, S, e, r)
<1> DEFINE P == [k \in {0} |-> e]
           r == IF e[1] \in Levels THEN J[e].e ELSE e
<1>1. P[0] = e /\ 0 \in Nat /\ \A k \in 1..0 : FALSE
  OBVIOUS
<1>2. IF P[0][1] \in Levels THEN J[P[0]].n = 0 /\ r = J[P[0]].e ELSE r = P[0]
  BY <1>1
<1> HIDE DEF P, r
<1>3. EliminatesDups(J, S, e, r)
  BY <1>1, <1>2 DEF EliminatesDups
<1> QED BY <1>3

\* One more pass before them.
LEMMA DupsGoOn ==
  ASSUME NEW J, NEW S, NEW e, e[1] \in Levels, J[e].n # 0, NEW r, EliminatesDups(J, S, S[J[e].e], r)
  PROVE EliminatesDups(J, S, e, r)
<1> DEFINE Passes(n, P, a) ==
      /\ P[0] = a
      /\ \A k \in 1..n : P[k - 1][1] \in Levels /\ J[P[k - 1]].n # 0 /\ P[k] = S[J[P[k - 1]].e]
      /\ IF P[n][1] \in Levels THEN J[P[n]].n = 0 /\ r = J[P[n]].e ELSE r = P[n]
<1>1. PICK n \in Nat : \E P : Passes(n, P, S[J[e].e])
  BY DEF EliminatesDups
<1>2. PICK P : Passes(n, P, S[J[e].e])
  BY <1>1
<1> DEFINE P1 == [k \in 0..(n + 1) |-> IF k = 0 THEN e ELSE P[k - 1]]
<1>3. P1[0] = e /\ \A k \in 1..(n + 1) : P1[k] = P[k - 1]
  OBVIOUS
<1> HIDE DEF P1
<1>4. ASSUME NEW k \in 1..(n + 1)
      PROVE P1[k - 1][1] \in Levels /\ J[P1[k - 1]].n # 0 /\ P1[k] = S[J[P1[k - 1]].e]
  <2>1. CASE k = 1
    <3>1. P1[k - 1] = e /\ P1[k] = P[0]
      BY <1>3, <2>1
    <3> QED BY <1>2, <3>1
  <2>2. CASE k # 1
    <3>1. k - 1 \in 1..n
      BY <2>2
    <3>2. P1[k - 1] = P[k - 2] /\ P1[k] = P[k - 1]
      BY <1>3, <3>1
    <3>3. P[(k - 1) - 1][1] \in Levels /\ J[P[(k - 1) - 1]].n # 0 /\ P[k - 1] = S[J[P[(k - 1) - 1]].e]
      BY <1>2, <3>1
    <3>4. (k - 1) - 1 = k - 2
      OBVIOUS
    <3> QED BY <3>2, <3>3, <3>4
  <2> QED BY <2>1, <2>2
<1>5. P1[n + 1] = P[n]
  BY <1>3
<1>6. n + 1 \in Nat /\ Passes(n + 1, P1, e)
  BY <1>2, <1>3, <1>4, <1>5
<1> DEFINE n1 == n + 1
<1>7. n1 \in Nat /\ Passes(n1, P1, e)
  BY <1>6
<1> HIDE DEF n1, Passes
<1>8. \E m \in Nat : \E Z : Passes(m, Z, e)
  BY <1>7
<1> QED BY <1>8 DEF EliminatesDups, Passes

\* So expr_eliminate_dups has a result for every expression: the passes end in one that
\* joins nothing, or with an expression that is no level.
THEOREM DupsGiveResult ==
  ASSUME NEW E, NEW w, NEW bound, Expressions(E, w, bound), NEW O, Lists(E, O),
         NEW R, Rebuilds(E, O, R), NEW V, Weighs(E, w, O, V),
         NEW v, NEW val, Valuation(v), Values(E, v, val), NEW S, SweepsYN(E, S),
         NEW L, NEW Q, Equality(E, O, R, S, L, Q), NEW J, JoinsDups(E, O, R, Q, J)
  PROVE \A e \in E : \E r : EliminatesDups(J, S, e, r)
<1> DEFINE Good(e) == \E r : EliminatesDups(J, S, e, r)
           Bad == {e \in E : ~Good(e)}
<1>1. SUFFICES ASSUME Bad # {} PROVE FALSE
  OBVIOUS
<1>2. w \in [E -> Nat]
  BY DEF Expressions
<1>3. PICK e \in Bad : \A y \in Bad : w[e] <= w[y]
  BY <1>1, <1>2, LeastWeight
<1>4. ASSUME NEW y \in E, w[y] < w[e] PROVE Good(y)
  BY <1>2, <1>3, <1>4
<1>5. e \in E
  OBVIOUS
<1> SUFFICES Good(e)
  OBVIOUS
<1> HIDE DEF Bad
<1>6. CASE e[1] \in Levels => J[e].n = 0
  BY <1>6, DupsStop
<1>7. CASE e[1] \in Levels /\ J[e].n # 0
  <2>1. S[J[e].e] \in E /\ w[S[J[e].e]] < w[e]
    BY <1>5, <1>7, JoinsMakeLighter
  <2>2. PICK r : EliminatesDups(J, S, S[J[e].e], r)
    BY <1>4, <2>1
  <2>3. EliminatesDups(J, S, e, r)
    BY <1>7, <2>2, DupsGoOn
  <2> QED BY <2>3
<1> QED BY <1>6, <1>7
=============================================================================
