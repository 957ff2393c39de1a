---------------------------- MODULE ChainSortProofs ----------------------------
(***************************************************************************)
(* Proofs about ChainSort, for every set of packages and all lists.        *)
(*                                                                         *)
(* SortInv counts: while a package has no place, acount is the number of   *)
(* its dependencies without a place, once for each list they are in, plus  *)
(* one for finally_flag, plus what a list repeats.  Virtual packages never *)
(* get a place (Open).  So a package with a count of zero has all its      *)
(* dependencies behind it, and one with another count waits for a package  *)
(* or for the flag, or is miscounted.                                      *)
(* The script ends since each step uses up a place, the flag or a state.   *)
(***************************************************************************)
EXTENDS ChainSort, FiniteSetTheorems, TLAPS

LEMMA ItemsFinite ==
  ASSUME NEW S \in SUBSET Names
  PROVE  IsFiniteSet(S) /\ Cardinality(S) \in Nat
BY ConstantsAssumption, FS_Subset, FS_CardinalityType

\* What one round of the sort takes off the number of packages waited for.
LEMMA Uncounted ==
  ASSUME NEW D \in SUBSET Names, NEW T \in SUBSET Names, NEW A \in SUBSET T
  PROVE  Cardinality(D \cap (T \ A)) = Cardinality(D \cap T) - Cardinality(D \cap A)
<1>1. D \cap T \in SUBSET Names /\ IsFiniteSet(D \cap T)
  BY ItemsFinite
<1>2. (D \cap T) \ A = D \cap (T \ A) /\ (D \cap T) \cap A = D \cap A
  OBVIOUS
<1> QED BY <1>1, <1>2, FS_Difference

LEMMA NoneCounted ==
  ASSUME NEW S \in SUBSET Names
  PROVE  Cardinality(S) = 0 <=> S = {}
BY ItemsFinite, FS_EmptySet

LEMMA ListsType ==
  ASSUME item \in Lists, NEW p \in Items
  PROVE  /\ item[p].asdeps \in SUBSET Names
         /\ item[p].awdeps \in SUBSET Names
         /\ item[p].ideps  \in SUBSET Names
         /\ item[p].twice  \in SUBSET Names
         /\ item[p].known  \in SUBSET Names
         /\ item[p].finally \in BOOLEAN
BY DEF Lists

\* A package that waits for nothing has all its dependencies behind it, and
\* one that waits though the flag is down waits for a package.
LEMMA WaitsNone ==
  ASSUME item \in Lists, temp \subseteq Items, NEW p \in Items
  PROVE  /\ Waits(p) \in Nat
         /\ Waits(p) = 0 => /\ Deps(p) \cap temp = {} /\ ~ Miscounted(p)
                            /\ ~ (flag /\ p \in FinallyList)
         /\ Waits(p) # 0 => \/ Deps(p) \cap temp # {} \/ Miscounted(p)
                            \/ flag /\ p \in FinallyList
<1> DEFINE s == item[p].asdeps \cap Open
           w == item[p].awdeps \cap Open
           i == item[p].ideps \cap Open
           t == item[p].twice
<1>1. /\ s \in SUBSET Names /\ w \in SUBSET Names /\ i \in SUBSET Names
      /\ t \in SUBSET Names
  BY ListsType
<1>2. /\ Cardinality(s) \in Nat /\ Cardinality(w) \in Nat /\ Cardinality(i) \in Nat
      /\ Cardinality(t) \in Nat
  BY <1>1, ItemsFinite
<1>3. /\ Cardinality(s) = 0 <=> s = {}
      /\ Cardinality(w) = 0 <=> w = {}
      /\ Cardinality(i) = 0 <=> i = {}
      /\ Cardinality(t) = 0 <=> t = {}
  BY <1>1, NoneCounted
<1>4. s = {} /\ w = {} /\ i = {} <=> Deps(p) \cap temp = {} /\ Deps(p) \ Items = {}
  BY ListsType DEF Deps, Open
<1>5. Waits(p) = Cardinality(s) + Cardinality(w) + Cardinality(i)
                   + (IF flag /\ p \in FinallyList THEN 1 ELSE 0) + Cardinality(t)
  BY DEF Waits
<1>6. Miscounted(p) <=> t # {} \/ Deps(p) \ Items # {}
  BY DEF Miscounted
<1> HIDE DEF s, w, i, t
<1> QED BY <1>2, <1>3, <1>4, <1>5, <1>6

LEMMA InitSortInv == Init => SortInv
<1> SUFFICES ASSUME Init PROVE SortInv OBVIOUS
<1>1. TypeOK BY ConstantsAssumption DEF Init, TypeOK
<1>2. Unchecked /\ Placed /\ InOrder /\ NoFalseCircle
  BY DEF Init, Unchecked, Placed, InOrder, NoFalseCircle, FinallyList
<1>3. Counted /\ FinallyWaits
  BY DEF Init, Counted, FinallyWaits, FinallyList
<1> QED BY <1>1, <1>2, <1>3 DEF SortInv
-----------------------------------------------------------------------------
(* One lemma for each action that changes more than pc. *)

\* check_item leaves the lists as they are but for names, and counts them.
LEMMA FoundType ==
  ASSUME item \in Lists, NEW p \in Items, ~ Missing(p)
  PROVE  /\ Found(p).asdeps = item[p].asdeps
         /\ Found(p).finally = item[p].finally
         /\ Found(p).asdeps \cup Found(p).awdeps \cup Found(p).ideps \subseteq Targets(p)
         /\ Found(p) \in [asdeps : SUBSET Names, awdeps : SUBSET Names,
              ideps : SUBSET Names, wrule : SUBSET (SUBSET Names), twice : SUBSET Names,
              known : SUBSET (Names \ Items), finally : BOOLEAN]
<1> DEFINE r == item[p]
           N == Targets(p)
           R == [asdeps : SUBSET Names, awdeps : SUBSET Names, ideps : SUBSET Names,
                 wrule : SUBSET (SUBSET Names), twice : SUBSET Names,
                 known : SUBSET (Names \ Items), finally : BOOLEAN]
<1>1. r \in R BY DEF Lists
<1>2. Found(p) = [r EXCEPT !.awdeps = r.awdeps \cap N, !.ideps = r.ideps \cap N,
                           !.twice = r.twice \cap N]
  BY DEF Found
<1>3. r.asdeps \subseteq N BY DEF Missing
<1> HIDE DEF r, N
<1>4. Found(p) = [asdeps |-> r.asdeps, awdeps |-> r.awdeps \cap N,
                  ideps |-> r.ideps \cap N, wrule |-> r.wrule,
                  twice |-> r.twice \cap N, known |-> r.known, finally |-> r.finally]
  BY <1>1, <1>2
<1>5. /\ r.asdeps \in SUBSET Names /\ r.awdeps \cap N \in SUBSET Names
      /\ r.ideps \cap N \in SUBSET Names /\ r.wrule \in SUBSET (SUBSET Names)
      /\ r.finally \in BOOLEAN /\ r.twice \cap N \in SUBSET Names
      /\ r.known \in SUBSET (Names \ Items)
  BY <1>1
<1>6. Found(p) \in R BY <1>4, <1>5
<1>7. /\ Found(p).asdeps = r.asdeps /\ Found(p).finally = r.finally
      /\ Found(p).awdeps = r.awdeps \cap N /\ Found(p).ideps = r.ideps \cap N
  BY <1>4
<1> QED BY <1>3, <1>6, <1>7 DEF r, N, R

LEMMA CheckCountsKeeps ==
  ASSUME SortInv, CheckCounts
  PROVE  SortInv'
<1> USE DEF SortInv
<1>1. /\ temp = Items /\ flag
      /\ acount = [p \in Items |-> IF p \in FinallyList THEN 1 ELSE 0]
      /\ \A p \in Items : level[p] = 0 /\ level[p] <= round
      /\ item \in Lists /\ pc' = "sort"
      /\ UNCHANGED <<temp, level, round, flag>>
      /\ Items \subseteq Names
  BY ConstantsAssumption DEF CheckCounts, Unchecked, Placed, TypeOK
<1>2. ASSUME NEW p \in Items
      PROVE  /\ item'[p] = Found(p)
             /\ item'[p].asdeps \in SUBSET Names /\ item'[p].awdeps \in SUBSET Names
             /\ item'[p].ideps \in SUBSET Names  /\ item'[p].twice \in SUBSET Names
             /\ item'[p].finally = item[p].finally
  BY <1>1, FoundType DEF CheckCounts
<1>3. item' \in Lists
  BY <1>1, FoundType DEF CheckCounts, Lists
<1>4. FinallyList' = FinallyList
  BY <1>2 DEF FinallyList
<1>5. Open' = Names
  BY <1>1 DEF Open
<1>6. ASSUME NEW p \in Items
      PROVE  acount'[p] = Waits(p)'
  <2> DEFINE n == IF p \in FinallyList THEN 1 ELSE 0
             s == Cardinality(item'[p].asdeps)
             w == Cardinality(item'[p].awdeps)
             i == Cardinality(item'[p].ideps)
             t == Cardinality(item'[p].twice)
  <2>1. acount'[p] = n + s + w + i + t
    BY <1>1, <1>2 DEF CheckCounts
  <2>2. /\ item'[p].asdeps \cap Open' = item'[p].asdeps
        /\ item'[p].awdeps \cap Open' = item'[p].awdeps
        /\ item'[p].ideps \cap Open'  = item'[p].ideps
    BY <1>2, <1>5
  <2>3. Waits(p)' = s + w + i + n + t
    BY <1>1, <1>4, <2>2 DEF Waits
  <2>4. s \in Nat /\ w \in Nat /\ i \in Nat /\ n \in Nat /\ t \in Nat
    BY <1>2, ItemsFinite
  <2> HIDE DEF s, w, i, n, t
  <2> QED BY <2>1, <2>3, <2>4
<1>7. acount' \in [Items -> Nat]
  <2>1. \A p \in Items : Waits(p)' \in Nat
    <3> SUFFICES ASSUME NEW p \in Items PROVE Waits(p)' \in Nat OBVIOUS
    <3>1. item'[p].asdeps \cap Open' \in SUBSET Names
          /\ item'[p].awdeps \cap Open' \in SUBSET Names
          /\ item'[p].ideps \cap Open' \in SUBSET Names
          /\ item'[p].twice \in SUBSET Names
      BY <1>2
    <3> QED BY <3>1, ItemsFinite DEF Waits
  <2> QED BY <2>1, <1>6 DEF CheckCounts
<1>8. TypeOK'
  BY <1>1, <1>3, <1>7 DEF TypeOK
<1>9. Unchecked' /\ Counted' /\ Placed'
  BY <1>1, <1>6 DEF Unchecked, Counted, Placed
<1>10. InOrder' /\ NoFalseCircle' /\ FinallyWaits'
  BY <1>1, <1>4, <1>8 DEF InOrder, NoFalseCircle, FinallyWaits, FinallyList, TypeOK
<1> QED BY <1>8, <1>9, <1>10

\* What a package waits for after a round of the sort.
LEMMA RoundCounts ==
  ASSUME SortInv, SortRound, NEW p \in listb
  PROVE  acount'[p] = Waits(p)' /\ Waits(p)' \in Nat
<1> USE DEF SortInv
<1>1. /\ p \in Items /\ p \in temp /\ lista \subseteq temp /\ temp \subseteq Items
      /\ item \in Lists /\ temp' = temp \ lista
      /\ UNCHANGED <<item, flag>>
      /\ acount[p] = Waits(p)
      /\ lista \subseteq Open /\ Open \subseteq Names /\ Open' = Open \ lista
  BY ConstantsAssumption DEF SortRound, lista, listb, TypeOK, Counted, Open
<1> DEFINE n == IF flag /\ p \in FinallyList THEN 1 ELSE 0
           s(T) == Cardinality(item[p].asdeps \cap T)
           w(T) == Cardinality(item[p].awdeps \cap T)
           i(T) == Cardinality(item[p].ideps \cap T)
           t == Cardinality(item[p].twice)
<1>2. acount'[p] = acount[p] - s(lista) - w(lista) - i(lista)
  BY <1>1 DEF SortRound
<1>3. acount[p] = s(Open) + w(Open) + i(Open) + n + t
  BY <1>1 DEF Waits
<1>4. Waits(p)' = s(Open \ lista) + w(Open \ lista) + i(Open \ lista) + n + t
  BY <1>1 DEF Waits, FinallyList
<1>5. /\ s(Open \ lista) = s(Open) - s(lista)
      /\ w(Open \ lista) = w(Open) - w(lista)
      /\ i(Open \ lista) = i(Open) - i(lista)
  BY <1>1, ListsType, Uncounted
<1>6. ASSUME NEW T \in SUBSET Names
      PROVE  s(T) \in Nat /\ w(T) \in Nat /\ i(T) \in Nat
  <2>1. item[p].asdeps \cap T \in SUBSET Names /\ item[p].awdeps \cap T \in SUBSET Names
        /\ item[p].ideps \cap T \in SUBSET Names
    BY <1>1, ListsType
  <2> QED BY <2>1, ItemsFinite
<1>7. /\ s(Open) \in Nat /\ w(Open) \in Nat /\ i(Open) \in Nat
      /\ s(lista) \in Nat /\ w(lista) \in Nat /\ i(lista) \in Nat
      /\ s(Open \ lista) \in Nat /\ w(Open \ lista) \in Nat /\ i(Open \ lista) \in Nat
  BY <1>1, <1>6
<1>8. n \in Nat /\ t \in Nat BY <1>1, ListsType, ItemsFinite
<1> HIDE DEF s, w, i, n, t
<1> QED BY <1>2, <1>3, <1>4, <1>5, <1>7, <1>8

\* The packages of a round have no dependency left; the others stay.
LEMMA SortRoundKeeps ==
  ASSUME SortInv, SortRound
  PROVE  SortInv'
<1> USE DEF SortInv
<1>1. /\ temp \subseteq Items /\ item \in Lists /\ round \in Nat
      /\ level \in [Items -> Nat] /\ acount \in [Items -> Nat]
      /\ temp' = temp \ lista /\ round' = round + 1
      /\ level' = [p \in Items |-> IF p \in lista THEN round + 1 ELSE level[p]]
      /\ pc = "sort" /\ UNCHANGED <<item, flag, pc>>
      /\ lista \subseteq temp
      /\ \A p \in Items : Deps(p)' = Deps(p) /\ (Miscounted(p)' <=> Miscounted(p))
      /\ FinallyList' = FinallyList
  BY DEF SortRound, listb, lista, TypeOK, Deps, Miscounted, FinallyList
<1>2. \A p \in lista : /\ Deps(p) \cap temp = {} /\ ~ Miscounted(p)
                       /\ ~ (flag /\ p \in FinallyList)
  BY <1>1, WaitsNone DEF lista, Counted
<1>4. TypeOK'
  <2>1. acount' \in [Items -> Nat]
    <3>1. \A p \in listb : acount'[p] \in Nat BY RoundCounts
    <3> QED BY <1>1, <3>1 DEF SortRound
  <2> QED BY <1>1, <2>1 DEF TypeOK
<1>5. Unchecked' BY <1>1 DEF Unchecked
<1>6. Counted'
  BY <1>1, RoundCounts DEF Counted, listb
<1>7. Placed'
  BY <1>1 DEF Placed
<1>8. InOrder'
  <2> SUFFICES ASSUME NEW p \in Items, level'[p] > 0, NEW d \in Deps(p)
               PROVE  d \in Items /\ 0 < level'[d] /\ level'[d] < level'[p]
    BY <1>1 DEF InOrder
  <2>1. CASE p \in lista
    <3>1. d \in Items /\ d \notin temp BY <1>1, <1>2, <2>1 DEF Miscounted
    <3>2. 0 < level[d] /\ level[d] <= round BY <1>1, <3>1 DEF Placed
    <3> QED BY <1>1, <2>1, <3>1, <3>2
  <2>2. CASE p \notin lista
    <3>1. level'[p] = level[p] BY <1>1, <2>2
    <3>2. d \in Items /\ 0 < level[d] /\ level[d] < level[p] BY <3>1 DEF InOrder
    <3>3. d \notin lista BY <1>1, <3>2 DEF Placed
    <3> QED BY <1>1, <3>1, <3>2, <3>3
  <2> QED BY <2>1, <2>2
<1>9. NoFalseCircle' BY <1>1 DEF NoFalseCircle
<1>10. FinallyWaits'
  <2>1. CASE flag
    <3>1. \A f \in FinallyList : level[f] = 0 /\ f \notin lista
      BY <1>2, <2>1 DEF FinallyWaits
    <3> QED BY <1>1, <2>1, <3>1 DEF FinallyWaits, FinallyList
  <2>2. CASE ~ flag
    <3> SUFFICES ASSUME NEW S \in SUBSET Items, Closed(S)'
                 PROVE  /\ Stuck(S)'
                        /\ \A f \in FinallyList, p \in Items \ S :
                             level'[f] > 0 /\ level'[p] > 0 => level'[p] < level'[f]
      BY <1>1, <2>2 DEF FinallyWaits
    <3>1. Closed(S) BY <1>1 DEF Closed
    <3>2. Stuck(S) /\ \A f \in FinallyList, p \in Items \ S :
             level[f] > 0 /\ level[p] > 0 => level[p] < level[f]
      BY <2>2, <3>1 DEF FinallyWaits
    <3>3. \A p \in temp \ S : p \notin lista
      BY <1>2, <3>2 DEF Stuck
    <3>4. Stuck(S)'
      BY <1>1, <3>2, <3>3 DEF Stuck
    <3>5. ASSUME NEW f \in FinallyList, NEW p \in Items \ S, level'[f] > 0, level'[p] > 0
          PROVE  level'[p] < level'[f]
      <4>1. p \notin lista BY <1>1, <3>3
      <4>2. level'[p] = level[p] /\ level[p] <= round /\ f \in Items
        BY <1>1, <4>1 DEF Placed, FinallyList
      <4>3. CASE f \in lista BY <1>1, <4>2, <4>3
      <4>4. CASE f \notin lista
        <5>1. level'[f] = level[f] BY <1>1, <4>2, <4>4
        <5> QED BY <3>2, <3>5, <4>2, <5>1
      <4> QED BY <4>3, <4>4
    <3> QED BY <3>4, <3>5
  <2> QED BY <1>1, <2>1, <2>2 DEF TypeOK
<1> QED BY <1>4, <1>5, <1>6, <1>7, <1>8, <1>9, <1>10

\* The flag falls when every package that is left waits, so those that do not
\* need `finally` wait for each other.
LEMMA FinallyRoundKeeps ==
  ASSUME SortInv, FinallyRound
  PROVE  SortInv'
<1> USE DEF SortInv
<1>1. /\ temp \subseteq Items /\ item \in Lists /\ acount \in [Items -> Nat]
      /\ lista = {} /\ flag /\ flag' = FALSE /\ pc = "sort"
      /\ UNCHANGED <<item, temp, level, round, pc>>
      /\ \A p \in Items : Deps(p)' = Deps(p) /\ (Miscounted(p)' <=> Miscounted(p))
      /\ FinallyList' = FinallyList /\ Open' = Open
  BY DEF FinallyRound, TypeOK, Deps, Miscounted, FinallyList, Open
<1>2. \A p \in temp : acount[p] # 0 /\ acount[p] = Waits(p)
  BY <1>1 DEF lista, Counted
<1>3. ASSUME NEW p \in temp PROVE acount'[p] = Waits(p)' /\ Waits(p)' \in Nat
  <2> DEFINE k == Cardinality(item[p].twice) + Cardinality(item[p].asdeps \cap Open)
                    + Cardinality(item[p].awdeps \cap Open)
                    + Cardinality(item[p].ideps \cap Open)
  <2>1. /\ k \in Nat
        /\ Cardinality(item[p].twice) \in Nat
        /\ Cardinality(item[p].asdeps \cap Open) \in Nat
        /\ Cardinality(item[p].awdeps \cap Open) \in Nat
        /\ Cardinality(item[p].ideps \cap Open) \in Nat
    <3>1. item[p].asdeps \cap Open \in SUBSET Names /\ item[p].awdeps \cap Open \in SUBSET Names
          /\ item[p].ideps \cap Open \in SUBSET Names /\ item[p].twice \in SUBSET Names
      BY <1>1, ListsType
    <3> QED BY <3>1, ItemsFinite
  <2>2. Waits(p) = k + (IF p \in FinallyList THEN 1 ELSE 0)
    BY <1>1, <2>1 DEF Waits
  <2>3. Waits(p)' = k + 0
    BY <1>1, <2>1 DEF Waits
  <2>4. acount'[p] = IF p \in FinallyList THEN acount[p] - 1 ELSE acount[p]
    BY <1>1 DEF FinallyRound
  <2> HIDE DEF k
  <2> QED BY <1>2, <2>1, <2>2, <2>3, <2>4
<1>4. TypeOK'
  <2>1. acount' \in [Items -> Nat] BY <1>1, <1>3 DEF FinallyRound
  <2> QED BY <1>1, <2>1 DEF TypeOK
<1>5. Unchecked' /\ Placed' BY <1>1 DEF Unchecked, Placed
<1>6. Counted' BY <1>1, <1>3 DEF Counted
<1>7. InOrder' /\ NoFalseCircle' BY <1>1 DEF InOrder, NoFalseCircle
<1>8. FinallyWaits'
  <2> SUFFICES ASSUME NEW S \in SUBSET Items, Closed(S)
               PROVE  /\ Stuck(S)
                      /\ \A f \in FinallyList : level[f] = 0
    BY <1>1 DEF FinallyWaits, Closed, Stuck, FinallyList, TypeOK
  <2>1. \A p \in temp :
          Deps(p) \cap temp # {} \/ Miscounted(p) \/ p \in FinallyList
    BY <1>1, <1>2, WaitsNone
  <2>2. Stuck(S) BY <1>1, <2>1 DEF Stuck, Closed
  <2> QED BY <1>1, <2>2 DEF FinallyWaits
<1> QED BY <1>4, <1>5, <1>6, <1>7, <1>8

LEMMA CircularKeeps ==
  ASSUME SortInv, Circular
  PROVE  SortInv'
<1> USE DEF SortInv
<1>1. /\ UNCHANGED <<item, acount, temp, level, round, flag>>
      /\ pc = "sort" /\ pc' = "circular" /\ lista = {} /\ temp # {} /\ ~ flag
  BY DEF Circular
<1>2. \A p \in temp : Deps(p) \cap temp # {} \/ Miscounted(p)
  BY <1>1, WaitsNone DEF lista, Counted, TypeOK
<1>3. NoFalseCircle' BY <1>1, <1>2 DEF NoFalseCircle, Miscounted, Deps
<1>4. TypeOK' /\ Unchecked' /\ Placed' /\ InOrder'
  BY <1>1 DEF TypeOK, Unchecked, Placed, InOrder, Deps
<1>5. Counted' /\ FinallyWaits'
  BY <1>1 DEF Counted, Waits, Open, FinallyWaits, Closed, Stuck, Miscounted, Deps, FinallyList
<1> QED BY <1>3, <1>4, <1>5

\* CheckMissing, Sorted and stuttering change nothing but pc.
LEMMA EndsKeep ==
  ASSUME SortInv, CheckMissing \/ Sorted \/ UNCHANGED vars
  PROVE  SortInv'
<1> USE DEF SortInv
<1>1. /\ UNCHANGED <<item, acount, temp, level, round, flag>>
      /\ \/ pc' = pc
         \/ pc = "check" /\ pc' = "missing"
         \/ pc = "sort" /\ pc' = "sorted" /\ temp = {}
  BY DEF CheckMissing, Sorted, vars
<1>2. TypeOK' /\ Unchecked' /\ Placed' /\ InOrder'
  BY <1>1 DEF TypeOK, Unchecked, Placed, InOrder, Deps, FinallyList
<1>3. NoFalseCircle' BY <1>1 DEF NoFalseCircle, Miscounted, Deps
<1>4. Counted' /\ FinallyWaits'
  BY <1>1 DEF Counted, Waits, Open, FinallyWaits, Closed, Stuck, Miscounted, Deps, FinallyList
<1> QED BY <1>2, <1>3, <1>4
-----------------------------------------------------------------------------
LEMMA SortInvariant == Spec => []SortInv
<1>1. SortInv /\ [Next]_vars => SortInv'
  BY CheckCountsKeeps, SortRoundKeeps, FinallyRoundKeeps, CircularKeeps, EndsKeep
  DEF Next
<1> QED BY InitSortInv, <1>1, PTL DEF Spec

\* The counts never fall below zero and the lists stay lists, for every set of
\* packages and every family of lists.
THEOREM TypeCorrect == Spec => []TypeOK
<1>1. SortInv => TypeOK BY DEF SortInv
<1> QED BY SortInvariant, <1>1, PTL

\* sort_items: every package comes after all of its dependencies, whatever the
\* lists are and however many packages there are.
THEOREM OrderRespectsDeps == Spec => []InOrder
<1>1. SortInv => InOrder BY DEF SortInv
<1> QED BY SortInvariant, <1>1, PTL

\* "circular deps" is only printed when each package that is left depends on
\* one that is left, repeats a name in a list, or names a virtual package.
THEOREM CirclesAreReal == Spec => []NoFalseCircle
<1>1. SortInv => NoFalseCircle BY DEF SortInv
<1> QED BY SortInvariant, <1>1, PTL

\* A package that does not need `finally` is outside some closed set, so it
\* comes before all that have it.
LEMMA InvFinallyLast == SortInv => FinallyLast
<1> SUFFICES ASSUME SortInv, pc = "sorted",
                    NEW f \in FinallyList, NEW p \in Items \ Late
             PROVE  level[p] < level[f]
  BY DEF FinallyLast
<1>1. PICK S \in SUBSET Items : Closed(S) /\ p \notin S BY DEF Late
<1>2. f \in Items BY DEF FinallyList
<1>3. level[p] > 0 /\ level[f] > 0 BY <1>2 DEF SortInv, Placed, TypeOK
<1>4. ~ flag BY <1>3 DEF SortInv, FinallyWaits
<1> QED BY <1>1, <1>3, <1>4 DEF SortInv, FinallyWaits

\* `finally` comes last, whatever else the lists ask for.
THEOREM FinallyComesLast == Spec => []FinallyLast
BY SortInvariant, InvFinallyLast, PTL

\* gen_make writes prerequisites without a circle, if no package without
\* `finally` depends on one with it.
THEOREM MakefileHasOrder == Spec => []MakeHasOrder
<1>1. SortInv => MakeHasOrder
  <2> SUFFICES ASSUME SortInv, pc = "sorted", Late \subseteq FinallyList,
                      NEW p \in Items, NEW d \in Prerequisites(p)
               PROVE  level[d] < level[p]
    BY DEF MakeHasOrder
  <2>1. CASE d \in Deps(p)
    <3>1. level[p] > 0 BY DEF SortInv, Placed, TypeOK
    <3> QED BY <2>1, <3>1 DEF SortInv, InOrder
  <2>2. CASE p \in FinallyList /\ d \in Items \ FinallyList
    BY <2>2, InvFinallyLast DEF FinallyLast
  <2> QED BY <2>1, <2>2 DEF Prerequisites
<1> QED BY SortInvariant, <1>1, PTL
-----------------------------------------------------------------------------
(* The script comes to an end. *)

\* What the loop of sort_items can still use up: the packages without a place, the
\* flag, and the ways of pc.
Left ==
  Cardinality(temp) + (IF flag THEN 1 ELSE 0)
    + (IF pc = "check" THEN 2 ELSE IF pc = "sort" THEN 1 ELSE 0)

LEMMA PlacesType == SortInv => IsFiniteSet(temp) /\ Cardinality(temp) \in Nat /\ round \in Nat
BY ConstantsAssumption, ItemsFinite DEF SortInv, TypeOK

\* A round gives a place to one package at least.
LEMMA RoundPlaces ==
  ASSUME SortInv, SortRound
  PROVE  Cardinality(temp') \in Nat /\ Cardinality(temp') + 1 <= Cardinality(temp)
<1>1. IsFiniteSet(temp) /\ temp' = temp \ lista /\ lista # {} /\ lista \subseteq temp
  BY PlacesType DEF SortRound, listb, lista
<1>2. PICK p \in lista : TRUE
  BY <1>1
<1>3. /\ IsFiniteSet(temp \ {p}) /\ Cardinality(temp \ {p}) = Cardinality(temp) - 1
      /\ Cardinality(temp) \in Nat
  BY <1>1, <1>2, FS_RemoveElement, FS_CardinalityType
<1>4. temp' \in SUBSET (temp \ {p})
  BY <1>1, <1>2
<1>5. Cardinality(temp') \in Nat /\ Cardinality(temp') <= Cardinality(temp \ {p})
  BY <1>3, <1>4, FS_Subset, FS_CardinalityType
<1> QED BY <1>3, <1>5

\* Whatever the lists are, circles and repeated names among them: every step of the
\* script uses something up, so that it takes |Items| + 3 steps at most, |Items| of them
\* rounds. A loop that went on without giving a place or dropping the flag would not end.
THEOREM SortingEnds ==
  Spec => /\ [][Left' < Left]_vars
          /\ [](Left \in Nat /\ Left <= Cardinality(Items) + 3)
          /\ [](round + Cardinality(temp) <= Cardinality(Items))
<1> DEFINE Rounds == round + Cardinality(temp) <= Cardinality(Items)
<1>1. SortInv => Left \in Nat /\ Left <= Cardinality(Items) + 3
  <2> SUFFICES ASSUME SortInv PROVE Left \in Nat /\ Left <= Cardinality(Items) + 3
    OBVIOUS
  <2>1. Cardinality(temp) \in Nat /\ Cardinality(Items) \in Nat /\ Cardinality(temp) <= Cardinality(Items)
    BY ConstantsAssumption, ItemsFinite, FS_Subset DEF SortInv, TypeOK
  <2> QED BY <2>1 DEF Left
<1>2. SortInv /\ Next => Left' < Left
  <2> SUFFICES ASSUME SortInv, Next PROVE Left' < Left
    OBVIOUS
  <2>1. Cardinality(temp) \in Nat
    BY PlacesType
  <2>2. CASE CheckMissing
    BY <2>1, <2>2 DEF CheckMissing, Left
  <2>3. CASE CheckCounts
    <3>1. pc = "check" /\ pc' = "sort" /\ temp' = temp /\ flag' = flag
      BY <2>3 DEF CheckCounts
    <3> QED BY <2>1, <3>1 DEF Left
  <2>4. CASE SortRound
    <3>1. pc = "sort" /\ pc' = pc /\ flag' = flag
      BY <2>4 DEF SortRound
    <3> QED BY <2>1, <2>4, <3>1, RoundPlaces DEF Left
  <2>5. CASE FinallyRound
    <3>1. pc = "sort" /\ pc' = pc /\ temp' = temp /\ flag /\ ~ flag'
      BY <2>5 DEF FinallyRound
    <3> QED BY <2>1, <3>1 DEF Left
  <2>6. CASE Circular \/ Sorted
    <3>1. pc = "sort" /\ pc' \in {"circular", "sorted"} /\ temp' = temp /\ flag' = flag
      BY <2>6 DEF Circular, Sorted
    <3> QED BY <2>1, <3>1 DEF Left
  <2> QED BY <2>2, <2>3, <2>4, <2>5, <2>6 DEF Next
<1>3. Init => Rounds
  BY ConstantsAssumption, ItemsFinite DEF Init
<1>4. SortInv /\ Rounds /\ [Next]_vars => Rounds'
  <2> SUFFICES ASSUME SortInv, Rounds, [Next]_vars PROVE Rounds'
    OBVIOUS
  <2>1. Cardinality(temp) \in Nat /\ Cardinality(Items) \in Nat /\ round \in Nat
    BY ConstantsAssumption, ItemsFinite, PlacesType
  <2>2. CASE SortRound
    BY <2>1, <2>2, RoundPlaces DEF SortRound
  <2>3. CASE UNCHANGED <<temp, round>>
    BY <2>3
  <2> QED BY <2>2, <2>3 DEF Next, vars, CheckMissing, CheckCounts, FinallyRound, Circular, Sorted
<1>5. Spec => []Rounds
  BY SortInvariant, <1>3, <1>4, PTL DEF Spec
<1>6. Spec => [](Left \in Nat /\ Left <= Cardinality(Items) + 3)
  BY SortInvariant, <1>1, PTL
<1>7. Spec => [][Left' < Left]_vars
  BY SortInvariant, <1>2, PTL DEF Spec
<1> QED BY <1>5, <1>6, <1>7
=============================================================================
