-------------------------------- MODULE Sums --------------------------------
(***************************************************************************)
(* Sums over finite sets.  Every figure the ledger keeps is a sum of       *)
(* postings, lots or tax entries, and what the components are proved to    *)
(* promise of those figures rests on the facts here.                       *)
(*                                                                         *)
(* SumFunctionOnSet takes the elements of a set in an order that CHOOSE    *)
(* picks.  The lemmas first establish that its recursion has a solution,   *)
(* and only one, and then that the order does not matter.                  *)
(***************************************************************************)
EXTENDS Integers, Functions, FiniteSetTheorems, TLAPS

\* A set of numbers has a least one.
LEMMA LeastNatural ==
  ASSUME NEW S \in SUBSET Nat, S # {}
  PROVE  \E m \in S : \A n \in S : m <= n
<1>1. PICK R : R = OpToRel(<, Nat)
  OBVIOUS
<1>2. \A x, y \in Nat : <<x, y>> \in R <=> x < y
  BY <1>1 DEF OpToRel
<1>3. IsWellFoundedOn(R, Nat)
  BY <1>1, NatLessThanWellFounded
<1>4. PICK m \in S : \A n \in S : <<n, m>> \notin R
  BY <1>3, WFMin
<1>5. ASSUME NEW n \in S PROVE m <= n
  <2>1. ~(n < m)
    BY <1>2, <1>4
  <2> QED BY <2>1
<1> QED BY <1>5

\* A finite set with subsets of some kind has a smallest of them.
LEMMA SmallestSubset ==
  ASSUME NEW S, IsFiniteSet(S), NEW B \in SUBSET SUBSET S, B # {}
  PROVE  \E T \in B : \A U \in B : U \subseteq T => U = T
<1> DEFINE R == StrictSubsetOrdering(S)
<1>1. IsWellFoundedOn(R, SUBSET S)
  BY FS_StrictSubsetOrderingWellFounded, FS_FiniteSubsetsOfFinite
<1>2. PICK T \in B : \A U \in B : <<U, T>> \notin R
  <2> HIDE DEF R
  <2> QED BY <1>1, WFMin
<1>3. \A U \in B : U \subseteq T => U = T
  BY <1>2 DEF StrictSubsetOrdering
<1> QED BY <1>3

\* The element the recursion takes out of a set next, and what is left.
Pick(T) == CHOOSE x \in T : TRUE
Rest(T) == T \ {Pick(T)}

\* What the recursion asks of g, wherever it is to hold.
Solves(g, f, D) ==
  \A T \in D : g[T] = IF T = {} THEN 0 ELSE f[Pick(T)] + g[Rest(T)]

LEMMA PickIsIn == \A T : T # {} => Pick(T) \in T
BY DEF Pick

\* Up to a size at a time, the recursion is solved on all subsets.
LEMMA SolutionExists ==
  ASSUME NEW S, IsFiniteSet(S), NEW f
  PROVE  \E g : g = [T \in SUBSET S |-> g[T]] /\ Solves(g, f, SUBSET S)
<1> DEFINE Small(n) == {T \in SUBSET S : Cardinality(T) <= n}
           Solution(n) == \E g : Solves(g, f, Small(n))
           Bad == {n \in Nat : ~Solution(n)}
<1>1. \A T \in SUBSET S : /\ IsFiniteSet(T) /\ Cardinality(T) \in Nat
                          /\ Cardinality(T) <= Cardinality(S)
                          /\ Cardinality(T) = 0 <=> T = {}
  BY FS_Subset, FS_CardinalityType, FS_EmptySet
<1>2. \A T \in SUBSET S : T # {} => /\ Rest(T) \in SUBSET S
                                    /\ Cardinality(Rest(T)) = Cardinality(T) - 1
  BY <1>1, FS_RemoveElement, PickIsIn DEF Rest
<1>3. Solution(0)
  <2> DEFINE g == [T \in SUBSET S |-> 0]
  <2>1. Solves(g, f, Small(0))
    BY <1>1 DEF Solves
  <2> QED BY <2>1
<1>4. ASSUME NEW n \in Nat, Solution(n) PROVE Solution(n + 1)
  <2>1. PICK g : Solves(g, f, Small(n))
    BY <1>4
  <2> DEFINE h == [T \in SUBSET S |->
               IF T \in Small(n) THEN g[T] ELSE f[Pick(T)] + g[Rest(T)]]
  <2>2. ASSUME NEW T \in Small(n + 1) PROVE h[T] = IF T = {} THEN 0 ELSE f[Pick(T)] + h[Rest(T)]
    <3>1. CASE T = {}
      BY <1>1, <2>1, <3>1 DEF Solves
    <3>2. CASE T # {}
      <4>1. Rest(T) \in Small(n)
        BY <1>1, <1>2, <3>2
      <4>2. h[Rest(T)] = g[Rest(T)]
        BY <4>1
      <4>3. h[T] = f[Pick(T)] + g[Rest(T)]
        BY <2>1, <3>2 DEF Solves
      <4> QED BY <3>2, <4>2, <4>3
    <3> QED BY <3>1, <3>2
  <2>3. Solves(h, f, Small(n + 1))
    BY <2>2 DEF Solves
  <2> HIDE DEF h, Small
  <2> QED BY <2>3
<1>5. Bad = {}
  <2> SUFFICES ASSUME Bad # {} PROVE FALSE
    OBVIOUS
  <2> HIDE DEF Solution
  <2>1. PICK m \in Bad : \A n \in Bad : m <= n
    BY LeastNatural
  <2>2. m # 0 /\ m \in Nat
    BY <1>3, <2>1
  <2>3. m - 1 \in Nat /\ m - 1 \notin Bad
    BY <2>1, <2>2
  <2> QED BY <1>4, <2>1, <2>2, <2>3
<1>6. PICK g : Solves(g, f, Small(Cardinality(S)))
  <2>1. Cardinality(S) \in Nat
    BY <1>1
  <2> QED BY <1>5, <2>1
<1> DEFINE h == [T \in SUBSET S |-> g[T]]
<1>7. Solves(h, f, SUBSET S)
  BY <1>1, <1>2, <1>6 DEF Solves
<1>8. h = [T \in SUBSET S |-> h[T]]
  OBVIOUS
<1> HIDE DEF h
<1> QED BY <1>7, <1>8

\* Two solutions agree where both are solutions.
LEMMA SolutionsAgree ==
  ASSUME NEW S, IsFiniteSet(S), NEW f, NEW g, NEW h,
         Solves(g, f, SUBSET S), Solves(h, f, SUBSET S)
  PROVE  g[S] = h[S]
<1> DEFINE Bad == {T \in SUBSET S : g[T] # h[T]}
<1> SUFFICES ASSUME Bad # {} PROVE FALSE
  OBVIOUS
<1>1. PICK T \in Bad : \A U \in Bad : U \subseteq T => U = T
  <2>1. Bad \in SUBSET SUBSET S
    OBVIOUS
  <2> HIDE DEF Bad
  <2> QED BY <2>1, SmallestSubset
<1>2. T # {}
  BY <1>1 DEF Solves
<1>3. Rest(T) \notin Bad /\ Rest(T) \in SUBSET S
  BY <1>1, <1>2, PickIsIn DEF Rest
<1> QED BY <1>1, <1>2, <1>3 DEF Solves

\* SumFunctionOnSet is that solution.
LEMMA SumIsSolution ==
  ASSUME NEW S, IsFiniteSet(S), NEW f
  PROVE  \E g : Solves(g, f, SUBSET S) /\ SumFunctionOnSet(f, S) = g[S]
<1> DEFINE Step(g) == [T \in SUBSET S |-> IF T = {} THEN 0 ELSE f[Pick(T)] + g[Rest(T)]]
           iter == CHOOSE g : g = Step(g)
<1>1. SumFunctionOnSet(f, S) = iter[S]
  BY DEF SumFunctionOnSet, FoldFunctionOnSet, MapThenFoldSet, Pick, Rest
<1>2. \E g : g = Step(g)
  <2>1. PICK g : g = [T \in SUBSET S |-> g[T]] /\ Solves(g, f, SUBSET S)
    BY SolutionExists
  <2>2. g = Step(g)
    BY <2>1 DEF Solves
  <2> QED BY <2>2
<1>3. iter = Step(iter)
  BY <1>2
<1>4. Solves(iter, f, SUBSET S)
  BY <1>3 DEF Solves
<1> QED BY <1>1, <1>4

-----------------------------------------------------------------------------
\* The sum of nothing.
LEMMA SumOfNone == \A f : SumFunctionOnSet(f, {}) = 0
<1> TAKE f
<1>1. PICK g : Solves(g, f, SUBSET {}) /\ SumFunctionOnSet(f, {}) = g[{}]
  BY FS_EmptySet, SumIsSolution
<1> QED BY <1>1 DEF Solves

\* The sum as the recursion computes it.
LEMMA SumTakesPick ==
  ASSUME NEW S, IsFiniteSet(S), S # {}, NEW f
  PROVE  SumFunctionOnSet(f, S) = f[Pick(S)] + SumFunctionOnSet(f, Rest(S))
<1>1. PICK g : Solves(g, f, SUBSET S) /\ SumFunctionOnSet(f, S) = g[S]
  BY SumIsSolution
<1>2. Rest(S) \subseteq S /\ IsFiniteSet(Rest(S))
  BY FS_RemoveElement DEF Rest
<1>3. PICK h : Solves(h, f, SUBSET Rest(S)) /\ SumFunctionOnSet(f, Rest(S)) = h[Rest(S)]
  BY <1>2, SumIsSolution
<1>4. Solves(g, f, SUBSET Rest(S))
  BY <1>1, <1>2 DEF Solves
<1>5. g[Rest(S)] = h[Rest(S)]
  BY <1>2, <1>3, <1>4, SolutionsAgree
<1> QED BY <1>1, <1>3, <1>5 DEF Solves

\* A sum of integers is an integer.
LEMMA SumIsInt ==
  ASSUME NEW S, IsFiniteSet(S), NEW f, \A x \in S : f[x] \in Int
  PROVE  SumFunctionOnSet(f, S) \in Int
<1> DEFINE Bad == {T \in SUBSET S : SumFunctionOnSet(f, T) \notin Int}
<1> SUFFICES ASSUME Bad # {} PROVE FALSE
  OBVIOUS
<1>1. PICK T \in Bad : \A U \in Bad : U \subseteq T => U = T
  <2>1. Bad \in SUBSET SUBSET S
    OBVIOUS
  <2> HIDE DEF Bad
  <2> QED BY <2>1, SmallestSubset
<1>2. T # {} /\ IsFiniteSet(T)
  <2>1. SumFunctionOnSet(f, {}) \in Int
    BY SumOfNone
  <2> QED BY <1>1, <2>1, FS_Subset
<1>3. Pick(T) \in T /\ Rest(T) \notin Bad /\ Rest(T) \in SUBSET S
  BY <1>1, <1>2, PickIsIn DEF Rest
<1>4. SumFunctionOnSet(f, T) = f[Pick(T)] + SumFunctionOnSet(f, Rest(T))
  BY <1>2, SumTakesPick
<1> QED BY <1>1, <1>3, <1>4

\* Any element may be taken out.
LEMMA SumTakesAny ==
  ASSUME NEW S, IsFiniteSet(S), NEW f, \A x \in S : f[x] \in Int, NEW x \in S
  PROVE  SumFunctionOnSet(f, S) = f[x] + SumFunctionOnSet(f, S \ {x})
<1> DEFINE Sum(T) == SumFunctionOnSet(f, T)
           Fair(T) == \A y \in T : Sum(T) = f[y] + Sum(T \ {y})
           Bad == {T \in SUBSET S : ~Fair(T)}
<1> SUFFICES ASSUME Bad # {} PROVE FALSE
  OBVIOUS
<1>1. PICK T \in Bad : \A U \in Bad : U \subseteq T => U = T
  <2>1. Bad \in SUBSET SUBSET S
    OBVIOUS
  <2> HIDE DEF Bad
  <2> QED BY <2>1, SmallestSubset
<1>2. \A U \in SUBSET S : IsFiniteSet(U) /\ Sum(U) \in Int
  <2> TAKE U \in SUBSET S
  <2>1. IsFiniteSet(U)
    BY FS_Subset
  <2> QED BY <2>1, SumIsInt
<1>3. PICK y \in T : Sum(T) # f[y] + Sum(T \ {y})
  BY <1>1
<1> DEFINE p == Pick(T)
<1>4. p \in T /\ Sum(T) = f[p] + Sum(T \ {p})
  BY <1>2, <1>3, PickIsIn, SumTakesPick DEF Rest
<1>5. y # p
  BY <1>3, <1>4
<1>6. Fair(T \ {p}) /\ Fair(T \ {y})
  <2>1. T \ {p} \notin Bad /\ T \ {y} \notin Bad
    BY <1>1, <1>3, <1>4
  <2> QED BY <2>1
<1>7. Sum(T \ {p}) = f[y] + Sum((T \ {p}) \ {y}) /\ Sum(T \ {y}) = f[p] + Sum((T \ {y}) \ {p})
  BY <1>3, <1>4, <1>5, <1>6
<1> DEFINE k == Sum((T \ {y}) \ {p})
<1>8. Sum((T \ {p}) \ {y}) = k
  <2>1. (T \ {p}) \ {y} = (T \ {y}) \ {p}
    OBVIOUS
  <2> QED BY <2>1
<1>9. f[p] \in Int /\ f[y] \in Int /\ k \in Int
  BY <1>2, <1>3, <1>4
<1>10. \A a, b, c \in Int : b + (a + c) = a + (b + c)
  OBVIOUS
<1>11. Sum(T \ {p}) = f[y] + k /\ Sum(T \ {y}) = f[p] + k
  BY <1>7, <1>8
<1>12. f[p] + (f[y] + k) = f[y] + (f[p] + k)
  <2> HIDE DEF k, p
  <2> QED BY <1>9, <1>10
<1>13. Sum(T) = f[y] + Sum(T \ {y})
  <2> HIDE DEF k, p, Sum
  <2> QED BY <1>4, <1>11, <1>12
<1> QED BY <1>3, <1>13

\* One element more.
LEMMA SumAdds ==
  ASSUME NEW S, IsFiniteSet(S), NEW x, x \notin S,
         NEW f, \A y \in S \cup {x} : f[y] \in Int
  PROVE  SumFunctionOnSet(f, S \cup {x}) = SumFunctionOnSet(f, S) + f[x]
<1>1. (S \cup {x}) \ {x} = S /\ IsFiniteSet(S \cup {x})
  BY FS_AddElement
<1>2. SumFunctionOnSet(f, S \cup {x}) = f[x] + SumFunctionOnSet(f, S)
  BY <1>1, SumTakesAny
<1> QED BY <1>2, SumIsInt

\* A sum depends on the summands alone.
LEMMA SumsAgree ==
  ASSUME NEW S, IsFiniteSet(S), NEW f, NEW g, \A x \in S : f[x] = g[x]
  PROVE  SumFunctionOnSet(f, S) = SumFunctionOnSet(g, S)
<1> DEFINE Bad == {T \in SUBSET S : SumFunctionOnSet(f, T) # SumFunctionOnSet(g, T)}
<1> SUFFICES ASSUME Bad # {} PROVE FALSE
  OBVIOUS
<1>1. PICK T \in Bad : \A U \in Bad : U \subseteq T => U = T
  <2>1. Bad \in SUBSET SUBSET S
    OBVIOUS
  <2> HIDE DEF Bad
  <2> QED BY <2>1, SmallestSubset
<1>2. T # {} /\ IsFiniteSet(T)
  BY <1>1, SumOfNone, FS_Subset
<1>3. Pick(T) \in T /\ Rest(T) \notin Bad /\ Rest(T) \in SUBSET S
  BY <1>1, <1>2, PickIsIn DEF Rest
<1>4. /\ SumFunctionOnSet(f, T) = f[Pick(T)] + SumFunctionOnSet(f, Rest(T))
      /\ SumFunctionOnSet(g, T) = g[Pick(T)] + SumFunctionOnSet(g, Rest(T))
  BY <1>2, SumTakesPick
<1> QED BY <1>1, <1>3, <1>4

\* A sum of naturals is a natural.
LEMMA SumIsNat ==
  ASSUME NEW S, IsFiniteSet(S), NEW f, \A x \in S : f[x] \in Nat
  PROVE  SumFunctionOnSet(f, S) \in Nat
<1> DEFINE Bad == {T \in SUBSET S : SumFunctionOnSet(f, T) \notin Nat}
<1> SUFFICES ASSUME Bad # {} PROVE FALSE
  OBVIOUS
<1>1. PICK T \in Bad : \A U \in Bad : U \subseteq T => U = T
  <2>1. Bad \in SUBSET SUBSET S
    OBVIOUS
  <2> HIDE DEF Bad
  <2> QED BY <2>1, SmallestSubset
<1>2. T # {} /\ IsFiniteSet(T)
  <2>1. SumFunctionOnSet(f, {}) \in Nat
    BY SumOfNone
  <2> QED BY <1>1, <2>1, FS_Subset
<1>3. Pick(T) \in T /\ Rest(T) \notin Bad /\ Rest(T) \in SUBSET S
  BY <1>1, <1>2, PickIsIn DEF Rest
<1>4. SumFunctionOnSet(f, T) = f[Pick(T)] + SumFunctionOnSet(f, Rest(T))
  BY <1>2, SumTakesPick
<1> QED BY <1>1, <1>3, <1>4

\* What is summed in two parts is the sum of the two sums.
LEMMA SumOfPairs ==
  ASSUME NEW S, IsFiniteSet(S), NEW f, NEW g, NEW h,
         \A x \in S : g[x] \in Int /\ h[x] \in Int /\ f[x] = g[x] + h[x]
  PROVE  SumFunctionOnSet(f, S) = SumFunctionOnSet(g, S) + SumFunctionOnSet(h, S)
<1> DEFINE Both(T) == SumFunctionOnSet(g, T) + SumFunctionOnSet(h, T)
           Bad == {T \in SUBSET S : SumFunctionOnSet(f, T) # Both(T)}
<1> SUFFICES ASSUME Bad # {} PROVE FALSE
  OBVIOUS
<1>1. PICK T \in Bad : \A U \in Bad : U \subseteq T => U = T
  <2>1. Bad \in SUBSET SUBSET S
    OBVIOUS
  <2> HIDE DEF Bad
  <2> QED BY <2>1, SmallestSubset
<1>2. T # {} /\ IsFiniteSet(T)
  <2>1. SumFunctionOnSet(f, {}) = Both({})
    BY SumOfNone
  <2> QED BY <1>1, <2>1, FS_Subset
<1>3. Pick(T) \in T /\ Rest(T) \notin Bad /\ Rest(T) \in SUBSET S /\ IsFiniteSet(Rest(T))
  BY <1>1, <1>2, PickIsIn, FS_Subset DEF Rest
<1>4. /\ SumFunctionOnSet(f, T) = f[Pick(T)] + SumFunctionOnSet(f, Rest(T))
      /\ SumFunctionOnSet(g, T) = g[Pick(T)] + SumFunctionOnSet(g, Rest(T))
      /\ SumFunctionOnSet(h, T) = h[Pick(T)] + SumFunctionOnSet(h, Rest(T))
  BY <1>2, SumTakesPick
<1>5. SumFunctionOnSet(g, Rest(T)) \in Int /\ SumFunctionOnSet(h, Rest(T)) \in Int
  BY <1>3, SumIsInt
<1>6. SumFunctionOnSet(f, Rest(T)) = Both(Rest(T)) /\ SumFunctionOnSet(f, T) # Both(T)
  BY <1>1, <1>3
<1>7. /\ g[Pick(T)] \in Int /\ h[Pick(T)] \in Int
      /\ f[Pick(T)] = g[Pick(T)] + h[Pick(T)]
  BY <1>1, <1>3
<1> HIDE DEF Bad
<1> QED BY <1>4, <1>5, <1>6, <1>7

\* A sum of zeros.
LEMMA SumOfZeros ==
  ASSUME NEW S, IsFiniteSet(S), NEW f, \A x \in S : f[x] = 0
  PROVE  SumFunctionOnSet(f, S) = 0
<1>1. SumFunctionOnSet(f, S) = SumFunctionOnSet(f, S) + SumFunctionOnSet(f, S)
  BY SumOfPairs
<1>2. SumFunctionOnSet(f, S) \in Int
  BY SumIsInt
<1>3. \A n \in Int : n = n + n => n = 0
  OBVIOUS
<1> QED BY <1>1, <1>2, <1>3

\* The negative of a sum.
LEMMA SumNegates ==
  ASSUME NEW S, IsFiniteSet(S), NEW f, NEW g,
         \A x \in S : g[x] \in Int /\ f[x] = -g[x]
  PROVE  SumFunctionOnSet(f, S) = -SumFunctionOnSet(g, S)
<1> DEFINE z == [x \in S |-> 0]
<1>1. SumFunctionOnSet(z, S) = SumFunctionOnSet(f, S) + SumFunctionOnSet(g, S)
  BY SumOfPairs
<1>2. SumFunctionOnSet(z, S) = 0
  BY SumOfZeros
<1>3. SumFunctionOnSet(f, S) \in Int /\ SumFunctionOnSet(g, S) \in Int
  BY SumIsInt
<1> QED BY <1>1, <1>2, <1>3

\* Larger summands, larger sum.
LEMMA SumGrows ==
  ASSUME NEW S, IsFiniteSet(S), NEW f, NEW g,
         \A x \in S : f[x] \in Int /\ g[x] \in Int /\ f[x] <= g[x]
  PROVE  SumFunctionOnSet(f, S) <= SumFunctionOnSet(g, S)
<1> DEFINE h == [x \in S |-> g[x] - f[x]]
<1>1. SumFunctionOnSet(g, S) = SumFunctionOnSet(f, S) + SumFunctionOnSet(h, S)
  BY SumOfPairs
<1>2. SumFunctionOnSet(h, S) \in Nat
  BY SumIsNat
<1>3. SumFunctionOnSet(f, S) \in Int
  BY SumIsInt
<1> QED BY <1>1, <1>2, <1>3

\* Summands of zero make no difference.
LEMMA SumOverSupport ==
  ASSUME NEW S, IsFiniteSet(S), NEW T \in SUBSET S, NEW f,
         \A x \in S : f[x] \in Int, \A x \in S \ T : f[x] = 0
  PROVE  SumFunctionOnSet(f, S) = SumFunctionOnSet(f, T)
<1> DEFINE Bad == {U \in SUBSET S : T \subseteq U /\ SumFunctionOnSet(f, U) # SumFunctionOnSet(f, T)}
<1> SUFFICES ASSUME Bad # {} PROVE FALSE
  OBVIOUS
<1>1. PICK U \in Bad : \A V \in Bad : V \subseteq U => V = U
  <2>1. Bad \in SUBSET SUBSET S
    OBVIOUS
  <2> HIDE DEF Bad
  <2> QED BY <2>1, SmallestSubset
<1>2. PICK x \in U : x \notin T
  <2>1. T \subseteq U /\ U # T
    BY <1>1
  <2> QED BY <2>1
<1>3. U \ {x} \notin Bad /\ U \in SUBSET S
  BY <1>1, <1>2
<1>4. SumFunctionOnSet(f, U) = f[x] + SumFunctionOnSet(f, U \ {x})
  BY <1>3, FS_Subset, SumTakesAny
<1>5. IsFiniteSet(T)
  BY FS_Subset
<1>6. SumFunctionOnSet(f, T) \in Int /\ f[x] = 0
  BY <1>2, <1>3, <1>5, SumIsInt
<1> QED BY <1>1, <1>2, <1>3, <1>4, <1>6

\* A set summed in two parts.
LEMMA SumOfParts ==
  ASSUME NEW S, IsFiniteSet(S), NEW T \in SUBSET S, NEW f, \A x \in S : f[x] \in Int
  PROVE  SumFunctionOnSet(f, S) = SumFunctionOnSet(f, T) + SumFunctionOnSet(f, S \ T)
<1> DEFINE g == [x \in S |-> IF x \in T THEN f[x] ELSE 0]
           h == [x \in S |-> IF x \in T THEN 0 ELSE f[x]]
<1>1. SumFunctionOnSet(f, S) = SumFunctionOnSet(g, S) + SumFunctionOnSet(h, S)
  BY SumOfPairs
<1>2. SumFunctionOnSet(g, S) = SumFunctionOnSet(g, T)
  BY SumOverSupport
<1>3. SumFunctionOnSet(h, S) = SumFunctionOnSet(h, S \ T)
  <2>1. /\ S \ T \in SUBSET S /\ \A x \in S : h[x] \in Int
        /\ \A x \in S \ (S \ T) : h[x] = 0
    OBVIOUS
  <2> HIDE DEF h
  <2> QED BY <2>1, SumOverSupport
<1>4. IsFiniteSet(T) /\ IsFiniteSet(S \ T)
  BY FS_Subset
<1>5. SumFunctionOnSet(g, T) = SumFunctionOnSet(f, T)
  BY <1>4, SumsAgree
<1>6. SumFunctionOnSet(h, S \ T) = SumFunctionOnSet(f, S \ T)
  BY <1>4, SumsAgree
<1> QED BY <1>1, <1>2, <1>3, <1>5, <1>6

\* A set that gains an element, its other summands standing.
LEMMA SumJoins ==
  ASSUME NEW S, IsFiniteSet(S), NEW x, x \notin S, NEW f, NEW g,
         \A y \in S : g[y] \in Int /\ f[y] = g[y], f[x] \in Int
  PROVE  SumFunctionOnSet(f, S \cup {x}) = SumFunctionOnSet(g, S) + f[x]
<1>1. SumFunctionOnSet(f, S \cup {x}) = SumFunctionOnSet(f, S) + f[x]
  BY SumAdds
<1>2. SumFunctionOnSet(f, S) = SumFunctionOnSet(g, S)
  BY SumsAgree
<1> QED BY <1>1, <1>2

\* A sum over the values of a one-to-one map is the sum over what it maps.
LEMMA SumOfImage ==
  ASSUME NEW S, IsFiniteSet(S), NEW h, \A x, y \in S : h[x] = h[y] => x = y,
         NEW f, \A x \in S : f[h[x]] \in Int, NEW g, \A x \in S : g[x] = f[h[x]]
  PROVE  SumFunctionOnSet(f, {h[x] : x \in S}) = SumFunctionOnSet(g, S)
<1> DEFINE Image(T) == {h[x] : x \in T}
           Bad == {T \in SUBSET S : SumFunctionOnSet(f, Image(T)) # SumFunctionOnSet(g, T)}
<1> SUFFICES ASSUME Bad # {} PROVE FALSE
  OBVIOUS
<1>1. PICK T \in Bad : \A U \in Bad : U \subseteq T => U = T
  <2>1. Bad \in SUBSET SUBSET S
    OBVIOUS
  <2> HIDE DEF Bad
  <2> QED BY <2>1, SmallestSubset
<1>2. T # {}
  <2>1. Image({}) = {}
    OBVIOUS
  <2> HIDE DEF Image
  <2> QED BY <1>1, <2>1, SumOfNone
<1>3. PICK x \in T : TRUE
  BY <1>2
<1>4. x \in S /\ T \subseteq S
  BY <1>3
<1>5. T \ {x} \notin Bad
  BY <1>1, <1>3
<1>6. SumFunctionOnSet(f, Image(T \ {x})) = SumFunctionOnSet(g, T \ {x})
  BY <1>4, <1>5
<1>7. IsFiniteSet(T) /\ IsFiniteSet(T \ {x}) /\ IsFiniteSet(Image(T))
  <2>1. IsFiniteSet(T) /\ IsFiniteSet(T \ {x})
    BY <1>4, FS_Subset
  <2> DEFINE m == [y \in T |-> h[y]]
  <2>2. m \in Surjection(T, Image(T))
    BY DEF Surjection
  <2> HIDE DEF m, Image
  <2> QED BY <2>1, <2>2, FS_Surjection
<1>8. Image(T \ {x}) = Image(T) \ {h[x]} /\ h[x] \in Image(T)
  BY <1>3, <1>4
<1>9. \A z \in Image(T) : f[z] \in Int
  BY <1>4
<1>10. \A z \in T : g[z] \in Int
  BY <1>4
<1> HIDE DEF Image
<1>11. SumFunctionOnSet(f, Image(T)) = f[h[x]] + SumFunctionOnSet(f, Image(T) \ {h[x]})
  BY <1>7, <1>8, <1>9, SumTakesAny
<1>12. SumFunctionOnSet(g, T) = g[x] + SumFunctionOnSet(g, T \ {x})
  BY <1>3, <1>7, <1>10, SumTakesAny
<1>13. SumFunctionOnSet(f, Image(T)) = SumFunctionOnSet(g, T)
  BY <1>4, <1>6, <1>8, <1>11, <1>12
<1> QED BY <1>1, <1>13

\* Every summand a multiple.
LEMMA SumScales ==
  ASSUME NEW S, IsFiniteSet(S), NEW c \in Int, NEW f, NEW g,
         \A x \in S : f[x] \in Int /\ g[x] = c * f[x]
  PROVE  SumFunctionOnSet(g, S) = c * SumFunctionOnSet(f, S)
<1> DEFINE Bad == {T \in SUBSET S : SumFunctionOnSet(g, T) # c * SumFunctionOnSet(f, T)}
<1> SUFFICES ASSUME Bad # {} PROVE FALSE
  OBVIOUS
<1>1. PICK T \in Bad : \A U \in Bad : U \subseteq T => U = T
  <2>1. Bad \in SUBSET SUBSET S
    OBVIOUS
  <2> HIDE DEF Bad
  <2> QED BY <2>1, SmallestSubset
<1>2. IsFiniteSet(T) /\ T \subseteq S
  BY <1>1, FS_Subset
<1>3. PICK x \in T : TRUE
  <2>1. c * 0 = 0
    OBVIOUS
  <2>2. T # {}
    BY <1>1, <2>1, SumOfNone
  <2> QED BY <2>2
<1>4. T \ {x} \notin Bad /\ IsFiniteSet(T \ {x})
  BY <1>1, <1>2, <1>3, FS_RemoveElement
<1>5. SumFunctionOnSet(g, T \ {x}) = c * SumFunctionOnSet(f, T \ {x})
  BY <1>2, <1>4
<1>6. \A y \in T : f[y] \in Int /\ g[y] \in Int
  BY <1>2
<1>7. /\ SumFunctionOnSet(g, T) = g[x] + SumFunctionOnSet(g, T \ {x})
      /\ SumFunctionOnSet(f, T) = f[x] + SumFunctionOnSet(f, T \ {x})
  BY <1>2, <1>3, <1>6, SumTakesAny
<1>8. SumFunctionOnSet(f, T \ {x}) \in Int
  BY <1>4, <1>6, SumIsInt
<1>9. \A a, b \in Int : c * (a + b) = c * a + c * b
  OBVIOUS
<1>10. SumFunctionOnSet(g, T) = c * SumFunctionOnSet(f, T)
  BY <1>2, <1>3, <1>5, <1>6, <1>7, <1>8, <1>9
<1> QED BY <1>1, <1>10

\* A set counted one by one.
LEMMA SumOfOnes ==
  ASSUME NEW S, IsFiniteSet(S), NEW f, \A x \in S : f[x] = 1
  PROVE  SumFunctionOnSet(f, S) = Cardinality(S)
<1> DEFINE Bad == {T \in SUBSET S : SumFunctionOnSet(f, T) # Cardinality(T)}
<1> SUFFICES ASSUME Bad # {} PROVE FALSE
  OBVIOUS
<1>1. PICK T \in Bad : \A U \in Bad : U \subseteq T => U = T
  <2>1. Bad \in SUBSET SUBSET S
    OBVIOUS
  <2> HIDE DEF Bad
  <2> QED BY <2>1, SmallestSubset
<1>2. IsFiniteSet(T) /\ T \subseteq S
  BY <1>1, FS_Subset
<1>3. PICK x \in T : TRUE
  <2>1. T # {}
    BY <1>1, SumOfNone, FS_EmptySet
  <2> QED BY <2>1
<1>4. T \ {x} \notin Bad /\ Cardinality(T) \in Nat /\ Cardinality(T \ {x}) = Cardinality(T) - 1
  BY <1>1, <1>2, <1>3, FS_RemoveElement, FS_CardinalityType
<1>5. SumFunctionOnSet(f, T \ {x}) = Cardinality(T) - 1
  BY <1>2, <1>4
<1>6. SumFunctionOnSet(f, T) = 1 + SumFunctionOnSet(f, T \ {x})
  BY <1>2, <1>3, SumTakesAny
<1> QED BY <1>1, <1>4, <1>5, <1>6

\* A sum where some terms have shifted.
LEMMA SumShifts ==
  ASSUME NEW T, IsFiniteSet(T), NEW S \in SUBSET T, NEW f, NEW g, NEW d,
         \A x \in T : f[x] \in Int, \A x \in S : d[x] \in Int /\ g[x] = f[x] + d[x],
         \A x \in T \ S : g[x] = f[x]
  PROVE  SumFunctionOnSet(g, T) = SumFunctionOnSet(f, T) + SumFunctionOnSet(d, S)
<1> DEFINE h == [x \in T |-> IF x \in S THEN d[x] ELSE 0]
<1>1. IsFiniteSet(S)
  BY FS_Subset
<1>2. \A x \in T : f[x] \in Int /\ h[x] \in Int /\ g[x] = f[x] + h[x]
  OBVIOUS
<1>3. (\A x \in T \ S : h[x] = 0) /\ (\A x \in S : h[x] = d[x]) /\ (\A x \in T : h[x] \in Int)
  OBVIOUS
<1> HIDE DEF h
<1>4. SumFunctionOnSet(g, T) = SumFunctionOnSet(f, T) + SumFunctionOnSet(h, T)
  BY <1>2, SumOfPairs
<1>5. SumFunctionOnSet(h, T) = SumFunctionOnSet(h, S)
  BY <1>3, SumOverSupport
<1>6. SumFunctionOnSet(h, S) = SumFunctionOnSet(d, S)
  BY <1>1, <1>3, SumsAgree
<1> QED BY <1>4, <1>5, <1>6

\* Naturals that come to nothing are nothing.
LEMMA SumIsNothing ==
  ASSUME NEW S, IsFiniteSet(S), NEW f, \A x \in S : f[x] \in Nat, SumFunctionOnSet(f, S) = 0
  PROVE  \A x \in S : f[x] = 0
<1> SUFFICES ASSUME NEW x \in S PROVE f[x] = 0
  OBVIOUS
<1>1. \A y \in S : f[y] \in Int
  OBVIOUS
<1>2. IsFiniteSet(S \ {x}) /\ \A y \in S \ {x} : f[y] \in Nat
  BY FS_RemoveElement
<1>3. SumFunctionOnSet(f, S) = f[x] + SumFunctionOnSet(f, S \ {x})
  BY <1>1, SumTakesAny
<1>4. SumFunctionOnSet(f, S \ {x}) \in Nat
  BY <1>2, SumIsNat
<1> QED BY <1>3, <1>4

\* What is summed part by part is summed, whatever the parts are told apart by.
LEMMA SumOfFibres ==
  ASSUME NEW D, IsFiniteSet(D), NEW A, IsFiniteSet(A),
         NEW key, \A i \in D : key[i] \in A,
         NEW part, \A a \in A : \A i : i \in part[a] <=> i \in D /\ key[i] = a,
         NEW f, \A i \in D : f[i] \in Int,
         NEW g, \A a \in A : g[a] = SumFunctionOnSet(f, part[a])
  PROVE  SumFunctionOnSet(g, A) = SumFunctionOnSet(f, D)
<1> DEFINE Over(T) == {i \in D : key[i] \in T}
           Bad == {T \in SUBSET A : SumFunctionOnSet(g, T) # SumFunctionOnSet(f, Over(T))}
<1>1. Over(A) = D /\ Over({}) = {}
  OBVIOUS
<1>2. \A T : IsFiniteSet(Over(T))
  <2> TAKE T
  <2>1. Over(T) \in SUBSET D
    OBVIOUS
  <2> QED BY <2>1, FS_Subset
<1>3. ASSUME NEW a \in A PROVE g[a] \in Int
  <2> DEFINE F == part[a]
  <2>1. F \in SUBSET D /\ g[a] = SumFunctionOnSet(f, F)
    OBVIOUS
  <2> HIDE DEF F
  <2>2. IsFiniteSet(F) /\ \A i \in F : f[i] \in Int
    BY <2>1, FS_Subset
  <2> QED BY <2>1, <2>2, SumIsInt
<1> SUFFICES ASSUME Bad # {} PROVE FALSE
  BY <1>1
<1>4. PICK T \in Bad : \A U \in Bad : U \subseteq T => U = T
  <2>1. Bad \in SUBSET SUBSET A
    OBVIOUS
  <2> HIDE DEF Bad
  <2> QED BY <2>1, SmallestSubset
<1>5. T \in SUBSET A /\ SumFunctionOnSet(g, T) # SumFunctionOnSet(f, Over(T))
  OBVIOUS
<1>6. T # {}
  <2> SUFFICES ASSUME T = {} PROVE FALSE
    OBVIOUS
  <2>1. SumFunctionOnSet(g, {}) = 0 /\ SumFunctionOnSet(f, Over({})) = 0
    BY <1>1, SumOfNone
  <2> QED BY <1>5, <2>1
<1>7. PICK x \in T : TRUE
  BY <1>6
<1> DEFINE U == T \ {x}
           F == part[x]
<1>8. SumFunctionOnSet(g, U) = SumFunctionOnSet(f, Over(U))
  <2>1. U \in SUBSET A /\ U \subseteq T /\ U # T
    BY <1>5, <1>7
  <2> QED BY <1>4, <2>1
<1>9. SumFunctionOnSet(g, T) = g[x] + SumFunctionOnSet(g, U)
  <2>1. IsFiniteSet(T) /\ \A a \in T : g[a] \in Int
    BY <1>3, <1>5, FS_Subset
  <2> HIDE DEF Bad
  <2>2. SumFunctionOnSet(g, T) = g[x] + SumFunctionOnSet(g, T \ {x})
    BY ONLY <1>7, <2>1, SumTakesAny
  <2> QED BY <2>2
<1>10. F \in SUBSET Over(T) /\ Over(T) \ F = Over(U) /\ \A i \in Over(T) : f[i] \in Int
  <2>1. x \in A /\ \A i : i \in F <=> i \in D /\ key[i] = x
    BY <1>5, <1>7
  <2> HIDE DEF F
  <2>2. \A i \in Over(T) : f[i] \in Int
    OBVIOUS
  <2>3. F \in SUBSET Over(T) /\ Over(T) \ F = Over(U)
    BY <1>7, <2>1
  <2> QED BY <2>2, <2>3
<1>11. g[x] = SumFunctionOnSet(f, F)
  BY <1>5, <1>7
<1> HIDE DEF Over, F, U, Bad
<1>12. SumFunctionOnSet(f, Over(T)) = SumFunctionOnSet(f, F) + SumFunctionOnSet(f, Over(T) \ F)
  BY <1>2, <1>10, SumOfParts
<1> QED BY <1>5, <1>8, <1>9, <1>10, <1>11, <1>12

=============================================================================
