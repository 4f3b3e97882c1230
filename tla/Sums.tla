-------------------------------- MODULE Sums --------------------------------
(***************************************************************************)
(* Facts about sums of a weight over a finite set (MapThenSumSet), by      *)
(* which the models count what is pending, stored or referred to.          *)
(*                                                                         *)
(* MapThenSumSet takes the elements one by one in the order CHOOSE gives,  *)
(* by a function defined recursively on the subsets of the set.  Induction *)
(* is by a smallest counterexample: a set of finite sets has a member that *)
(* contains no other, and a set of natural numbers a smallest one.         *)
(***************************************************************************)
EXTENDS Integers, FiniteSets, FiniteSetsExt, FiniteSetTheorems,
        WellFoundedInduction, TLAPS

\* The sum of w[x] for x in S.
Total(w, S) == MapThenSumSet(LAMBDA x : w[x], S)

\* The element that is taken first, and the equation of the recursion.
Chosen(S) == CHOOSE x \in S : TRUE
Others(S) == S \ {Chosen(S)}
SumStep(w, g, S) == IF S = {} THEN 0 ELSE w[Chosen(S)] + g[Others(S)]
IsTotal(w, g, S) == g = [T \in SUBSET S |-> SumStep(w, g, T)]

-----------------------------------------------------------------------------
\* A collection of subsets of a finite set has a member that contains no other.
LEMMA LeastSet ==
  ASSUME NEW S, IsFiniteSet(S), NEW Bad, Bad \subseteq SUBSET S, Bad # {}
  PROVE  \E T \in Bad : \A U \in Bad : U \subseteq T => U = T
<1>1. IsWellFoundedOn(StrictSubsetOrdering(S), SUBSET S)
  BY FS_StrictSubsetOrderingWellFounded, FS_FiniteSubsetsOfFinite
<1>2. PICK T \in Bad : \A U \in Bad : <<U, T>> \notin StrictSubsetOrdering(S)
  BY <1>1, WFMin, Zenon
<1>3. ASSUME NEW U \in Bad, U \subseteq T, U # T PROVE FALSE
  <2>1. <<U, T>> \in (SUBSET S) \X (SUBSET S)
    BY Zenon
  <2>2. <<U, T>>[1] = U /\ <<U, T>>[2] = T
    BY SMT
  <2>3. <<U, T>> \in StrictSubsetOrdering(S)
    BY <1>3, <2>1, <2>2, Zenon DEF StrictSubsetOrdering
  <2> QED BY <2>3, <1>2
<1> QED BY <1>3

\* A set of natural numbers has a smallest one.
LEMMA LeastNat ==
  ASSUME NEW T, T \subseteq Nat, T # {}
  PROVE  \E m \in T : \A k \in T : m <= k
<1> DEFINE R == {ss \in Nat \X Nat : ss[1] < ss[2]}
<1>1. IsWellFoundedOn(R, Nat)
  BY NatLessThanWellFounded, Zenon DEF OpToRel
<1>2. PICK x \in T : \A y \in T : <<y, x>> \notin R
  <2> HIDE DEF R
  <2> QED BY <1>1, WFMin, Zenon
<1>3. ASSUME NEW k \in T PROVE x <= k
  <2>1. k \in Nat /\ x \in Nat
    OBVIOUS
  <2>2. <<k, x>> \notin R
    BY <1>2
  <2>3. ASSUME k < x PROVE FALSE
    <3>1. <<k, x>> \in Nat \X Nat
      BY <2>1, Zenon
    <3>2. <<k, x>>[1] < <<k, x>>[2]
      BY <2>3, SMT
    <3> QED BY <2>2, <3>1, <3>2, Zenon
  <2> QED BY <2>1, <2>3
<1> QED BY <1>3

\* An element is chosen from a set that has one.
LEMMA ChosenIn == ASSUME NEW S, S # {} PROVE Chosen(S) \in S
BY DEF Chosen

\* What the definitions of the community modules come to.
LEMMA TotalIs ==
  ASSUME NEW w, NEW S
  PROVE  Total(w, S) = (CHOOSE g : IsTotal(w, g, S))[S]
BY Zenon DEF Total, MapThenSumSet, MapThenFoldSet, IsTotal, SumStep, Others, Chosen

\* The recursion of MapThenSumSet has a solution, the sum follows it.
SumFollows(w, S) ==
  Total(w, S) = IF S = {} THEN 0 ELSE w[Chosen(S)] + Total(w, Others(S))

\* It does for every finite set.
LEMMA TotalUnfolds ==
  ASSUME NEW w, NEW S, IsFiniteSet(S)
  PROVE  SumFollows(w, S)
<1> DEFINE Bad == {T \in SUBSET S : ~SumFollows(w, T)}
<1>1. SUFFICES ASSUME Bad # {} PROVE FALSE
  BY Zenon
<1>2. PICK T \in Bad : \A U \in Bad : U \subseteq T => U = T
  <2>1. Bad \subseteq SUBSET S OBVIOUS
  <2> HIDE DEF Bad
  <2> QED BY <1>1, <2>1, LeastSet
<1>3. \A U \in SUBSET T : U # T => SumFollows(w, U)
  BY <1>2
<1> DEFINE g == [U \in SUBSET T |->
                   IF U = {} THEN 0 ELSE w[Chosen(U)] + Total(w, Others(U))]
<1>4. ASSUME NEW U \in SUBSET T, U # {}
      PROVE  Others(U) \in SUBSET T /\ Others(U) # T
  BY <1>4, ChosenIn DEF Others
<1>5. ASSUME NEW U \in SUBSET T, U # T PROVE g[U] = Total(w, U)
  BY <1>3, <1>5 DEF SumFollows
<1>6. IsTotal(w, g, T)
  <2>1. ASSUME NEW U \in SUBSET T PROVE g[U] = SumStep(w, g, U)
    <3>1. CASE U = {} BY <3>1 DEF SumStep
    <3>2. CASE U # {}
      <4>1. g[Others(U)] = Total(w, Others(U)) BY <3>2, <1>4, <1>5
      <4>2. g[U] = w[Chosen(U)] + Total(w, Others(U)) BY <3>2
      <4> HIDE DEF g
      <4> QED BY <3>2, <4>1, <4>2, Zenon DEF SumStep
    <3> QED BY <3>1, <3>2
  <2>2. g = [U \in SUBSET T |-> g[U]] BY Zenon
  <2> HIDE DEF g
  <2> QED BY <2>1, <2>2 DEF IsTotal
<1> DEFINE h == CHOOSE f : IsTotal(w, f, T)
<1>7. IsTotal(w, h, T)
  <2> HIDE DEF g
  <2> QED BY <1>6, Zenon
<1> HIDE DEF h
<1>8. \A U \in SUBSET T : h[U] = g[U]
  <2> DEFINE Odd == {U \in SUBSET T : h[U] # g[U]}
  <2>1. SUFFICES ASSUME Odd # {} PROVE FALSE
    BY Zenon
  <2>2. IsFiniteSet(T) BY FS_Subset
  <2>3. PICK U \in Odd : \A V \in Odd : V \subseteq U => V = U
    <3>1. Odd \subseteq SUBSET T OBVIOUS
    <3> HIDE DEF Odd
    <3> QED BY <2>1, <2>2, <3>1, LeastSet
  <2>4. h[U] = SumStep(w, h, U) /\ g[U] = SumStep(w, g, U)
    <3> HIDE DEF g
    <3> QED BY <1>6, <1>7 DEF IsTotal
  <2>5. U # {}
    <3> HIDE DEF g
    <3> QED BY <2>4 DEF SumStep
  <2>6. Others(U) \in SUBSET T /\ Others(U) \subseteq U /\ Others(U) # U
    BY <2>5, ChosenIn DEF Others
  <2>7. h[Others(U)] = g[Others(U)]
    <3> HIDE DEF g
    <3> QED BY <2>3, <2>6
  <2> HIDE DEF g
  <2> QED BY <2>4, <2>5, <2>7 DEF SumStep
<1>9. Total(w, T) = g[T]
  BY <1>8, TotalIs DEF h
<1> QED BY <1>2, <1>9 DEF SumFollows

\* Nothing adds up to nothing.
LEMMA TotalEmpty == ASSUME NEW w PROVE Total(w, {}) = 0
BY TotalUnfolds, FS_EmptySet DEF SumFollows

\* The order does not matter: any element can be taken first.
SumSplits(w, S) ==
  /\ Total(w, S) \in Int
  /\ \A x \in S : Total(w, S) = w[x] + Total(w, S \ {x})

\* It can in every finite set of integer weights.
LEMMA TotalSplits ==
  ASSUME NEW S, IsFiniteSet(S), NEW w, \A x \in S : w[x] \in Int
  PROVE  SumSplits(w, S)
<1> DEFINE Bad == {T \in SUBSET S : ~SumSplits(w, T)}
<1>1. SUFFICES ASSUME Bad # {} PROVE FALSE
  BY Zenon
<1>2. PICK T \in Bad : \A U \in Bad : U \subseteq T => U = T
  <2>1. Bad \subseteq SUBSET S OBVIOUS
  <2> HIDE DEF Bad
  <2> QED BY <1>1, <2>1, LeastSet
<1>3. \A U \in SUBSET T : U # T => SumSplits(w, U)
  BY <1>2
<1>4. \A U \in SUBSET T : SumFollows(w, U)
  BY TotalUnfolds, FS_Subset
<1>5. CASE T = {}
  BY <1>5, <1>2, TotalEmpty DEF SumSplits
<1>6. CASE T # {}
  <2> DEFINE y == Chosen(T)
  <2> HIDE DEF y
  <2>1. y \in T /\ Others(T) = T \ {y} BY <1>6, ChosenIn DEF Others, y
  <2>2. SumSplits(w, T \ {y}) BY <2>1, <1>3
  <2>3. Total(w, T) = w[y] + Total(w, T \ {y})
    BY <1>6, <1>4, <2>1 DEF SumFollows, y
  <2>4. ASSUME NEW x \in T PROVE Total(w, T) = w[x] + Total(w, T \ {x})
    <3>1. CASE x = y BY <3>1, <2>3
    <3>2. CASE x # y
      <4>1. Total(w, T \ {y}) = w[x] + Total(w, (T \ {y}) \ {x})
        BY <3>2, <2>2 DEF SumSplits
      <4>2. /\ Total(w, T \ {x}) = w[y] + Total(w, (T \ {x}) \ {y})
            /\ Total(w, (T \ {x}) \ {y}) \in Int
        BY <3>2, <2>1, <1>3 DEF SumSplits
      <4>3. (T \ {y}) \ {x} = (T \ {x}) \ {y} OBVIOUS
      <4>4. w[x] \in Int /\ w[y] \in Int BY <2>1
      <4>5. Total(w, T \ {y}) = w[x] + Total(w, (T \ {x}) \ {y})
        BY <4>1, <4>3, Zenon
      <4> QED BY <2>3, <4>2, <4>4, <4>5
    <3> QED BY <3>1, <3>2
  <2>5. Total(w, T) \in Int
    BY <2>1, <2>2, <2>3 DEF SumSplits
  <2> QED BY <1>2, <2>4, <2>5 DEF SumSplits
<1> QED BY <1>5, <1>6

\* One element more,
LEMMA TotalAdd ==
  ASSUME NEW S, IsFiniteSet(S), NEW x, x \notin S,
         NEW w, w[x] \in Int, \A y \in S : w[y] \in Int
  PROVE  Total(w, S \cup {x}) = Total(w, S) + w[x] /\ Total(w, S) \in Int
<1>1. IsFiniteSet(S \cup {x})
  BY FS_AddElement
<1>2. \A y \in S \cup {x} : w[y] \in Int
  OBVIOUS
<1>3. SumSplits(w, S \cup {x})
  BY <1>1, <1>2, TotalSplits
<1>4. (S \cup {x}) \ {x} = S
  OBVIOUS
<1>5. Total(w, S) \in Int
  BY TotalSplits DEF SumSplits
<1>6. Total(w, S \cup {x}) = w[x] + Total(w, S)
  <2>1. Total(w, S \cup {x}) = w[x] + Total(w, (S \cup {x}) \ {x})
    BY <1>3 DEF SumSplits
  <2> QED BY <2>1, <1>4, Zenon
<1> QED BY <1>5, <1>6

\* and one less.
LEMMA TotalRemove ==
  ASSUME NEW S, IsFiniteSet(S), NEW w, \A y \in S : w[y] \in Int, NEW x \in S
  PROVE  /\ Total(w, S \ {x}) = Total(w, S) - w[x]
         /\ Total(w, S) \in Int /\ Total(w, S \ {x}) \in Int
<1>1. SumSplits(w, S)
  BY TotalSplits
<1>2. IsFiniteSet(S \ {x})
  BY FS_RemoveElement
<1>3. SumSplits(w, S \ {x})
  BY <1>2, TotalSplits
<1> QED BY <1>1, <1>3 DEF SumSplits

\* Of natural numbers the sum of a part is at most the sum of the whole.
SumCovers(w, S) ==
  \A T \in SUBSET S : 0 <= Total(w, T) /\ Total(w, T) <= Total(w, S)

\* It is in every finite set.
LEMMA TotalCovers ==
  ASSUME NEW S, IsFiniteSet(S), NEW w, \A x \in S : w[x] \in Nat
  PROVE  SumCovers(w, S)
<1> DEFINE Bad == {T \in SUBSET S : ~SumCovers(w, T)}
<1>1. SUFFICES ASSUME Bad # {} PROVE FALSE
  BY Zenon
<1>2. PICK U \in Bad : \A V \in Bad : V \subseteq U => V = U
  <2>1. Bad \subseteq SUBSET S OBVIOUS
  <2> HIDE DEF Bad
  <2> QED BY <1>1, <2>1, LeastSet
<1>3. ASSUME NEW y \in U PROVE SumCovers(w, U \ {y})
  BY <1>2
<1>4. \A T \in SUBSET S : SumSplits(w, T)
  BY FS_Subset, TotalSplits
<1>5. ASSUME NEW T \in SUBSET U PROVE 0 <= Total(w, T) /\ Total(w, T) <= Total(w, U)
  <2>0. SumSplits(w, T) /\ SumSplits(w, U)
    BY <1>4
  <2>1. CASE T = U /\ U = {}
    BY <2>1, TotalEmpty
  <2>2. CASE U # {}
    <3>0. PICK y \in U : T # U => y \notin T
      BY <2>2
    <3>1. /\ 0 <= Total(w, U \ {y})
          /\ T # U => 0 <= Total(w, T) /\ Total(w, T) <= Total(w, U \ {y})
      BY <3>0, <1>3 DEF SumCovers
    <3>2. Total(w, U) = w[y] + Total(w, U \ {y}) /\ SumSplits(w, U \ {y})
      BY <1>4 DEF SumSplits
    <3>3. w[y] \in Nat OBVIOUS
    <3> QED BY <3>1, <3>2, <3>3, <2>0 DEF SumSplits
  <2> QED BY <2>1, <2>2
<1> QED BY <1>2, <1>5 DEF SumCovers

\* Nor is one of the numbers more than the sum.
LEMMA TotalMember ==
  ASSUME NEW S, IsFiniteSet(S), NEW w, \A y \in S : w[y] \in Nat, NEW x \in S
  PROVE  w[x] <= Total(w, S)
<1>1. SumSplits(w, S) /\ SumSplits(w, S \ {x})
  BY TotalSplits, FS_Subset
<1>2. 0 <= Total(w, S \ {x})
  BY TotalCovers DEF SumCovers
<1> QED BY <1>1, <1>2 DEF SumSplits

\* Only the weights of the elements count.
LEMMA TotalSame ==
  ASSUME NEW S, IsFiniteSet(S), NEW w, NEW v, \A x \in S : w[x] = v[x]
  PROVE  Total(w, S) = Total(v, S)
<1> DEFINE Bad == {T \in SUBSET S : Total(w, T) # Total(v, T)}
<1>1. SUFFICES ASSUME Bad # {} PROVE FALSE
  BY Zenon
<1>2. PICK T \in Bad : \A U \in Bad : U \subseteq T => U = T
  <2>1. Bad \subseteq SUBSET S OBVIOUS
  <2> HIDE DEF Bad
  <2> QED BY <1>1, <2>1, LeastSet
<1>3. IsFiniteSet(T)
  BY FS_Subset
<1>4. SumFollows(w, T) /\ SumFollows(v, T)
  BY <1>3, TotalUnfolds
<1>5. T # {}
  BY <1>2, <1>4 DEF SumFollows
<1>6. Chosen(T) \in T /\ Others(T) \subseteq T /\ Others(T) # T
  BY <1>5, ChosenIn DEF Others
<1>7. Total(w, Others(T)) = Total(v, Others(T))
  BY <1>2, <1>6
<1>8. w[Chosen(T)] = v[Chosen(T)]
  BY <1>2, <1>6
<1> QED BY <1>2, <1>4, <1>5, <1>7, <1>8 DEF SumFollows
=============================================================================
