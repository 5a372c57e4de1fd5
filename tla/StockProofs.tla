----------------------------- MODULE StockProofs ----------------------------
(***************************************************************************)
(* What holds of stock for every set of items, lots, sessions, requests    *)
(* and costing methods.  A draw, an apportionment and an allocation are    *)
(* exact: what is handed out is what there was.  From these, from the      *)
(* locks and from the order in which rows are read again under them: lots  *)
(* pass the CHECKs of 0017, the inventory account holds what the lots are  *)
(* worth, no refund is above the cost it undoes, and every interleaving    *)
(* of requests keeps the promise of Shelf.  With invoices and credit notes *)
(* the same, and a note takes back what its invoice still has out: never   *)
(* more of it, and all of it with the last.                                *)
(***************************************************************************)
EXTENDS Sales, Sums, TLAPS

(***************************************************************************)
(* Draws.                                                                  *)
(***************************************************************************)
\* Rounding is to a whole number, and never past one that is at least n / d.
LEMMA RoundingIsBounded ==
  ASSUME NEW n \in Nat, NEW d \in Nat \ {0}
  PROVE  /\ DivideRounding(n, d) \in Nat
         /\ \A k \in Nat : n <= k * d => DivideRounding(n, d) <= k
<1> DEFINE a == 2 * n + d
           b == 2 * d
           r == a \div b
<1>1. a \in Nat /\ b \in Nat /\ b > 0
  OBVIOUS
<1>2. DivideRounding(n, d) = r
  BY DEF DivideRounding
<1> HIDE DEF a, b
<1>3. r \in Nat /\ b * r <= a
  BY <1>1
<1> HIDE DEF r
<1>4. ASSUME NEW k \in Nat, n <= k * d PROVE r <= k
  <2>1. a < b * (k + 1)
    <3>1. k * d \in Nat /\ 2 * n <= 2 * (k * d)
      BY <1>4
    <3>2. b * (k + 1) = 2 * (k * d) + 2 * d
      BY DEF b
    <3> QED BY <3>1, <3>2 DEF a
  <2>2. b * r < b * (k + 1)
    BY <1>1, <1>3, <2>1
  <2>3. r < k + 1
    BY <1>1, <1>3, <2>2
  <2> QED BY <1>3, <2>3
<1> QED BY <1>2, <1>3, <1>4

\* A share of an amount is a part of it.
LEMMA ShareIsPart ==
  ASSUME NEW amount \in Nat, NEW whole \in Nat \ {0}, NEW part \in 0..whole
  PROVE  DivideRounding(amount * part, whole) \in 0..amount
<1>1. amount * part \in Nat /\ amount * part <= amount * whole
  OBVIOUS
<1> QED BY <1>1, RoundingIsBounded

\* "What is left is a part of what arrived" (0017): whatever a lot still holds
\* and however its cost divides, a draw and what it leaves are both whole
\* amounts that make up the lot, and the last of the quantity takes the last of
\* the money (costOfDraw).
THEOREM DrawsAreSound ==
  ASSUME NEW left \in Figures, NEW quantity \in 1..left.quantity
  PROVE  /\ Draw(left, quantity) \in Figures
         /\ Less(left, Draw(left, quantity)) \in Figures
         /\ Draw(left, quantity).quantity = quantity
         /\ quantity = left.quantity => Less(left, Draw(left, quantity)) = Nothing
<1>1. left.quantity \in Nat \ {0} /\ left.cost \in Nat /\ left.base \in Nat /\ quantity \in Nat
  BY DEF Figures
<1>2. CASE quantity = left.quantity
  BY <1>1, <1>2 DEF Draw, Less, Figures, Nothing
<1>3. CASE quantity # left.quantity
  <2> DEFINE cost == DivideRounding(left.cost * quantity, left.quantity)
             base == DivideRounding(left.base * quantity, left.quantity)
  <2>1. cost \in 0..left.cost /\ base \in 0..left.base
    BY <1>1, ShareIsPart
  <2>2. Draw(left, quantity) = [quantity |-> quantity, cost |-> cost, base |-> base]
    BY <1>3 DEF Draw
  <2> HIDE DEF cost, base
  <2> QED BY <1>1, <1>3, <2>1, <2>2 DEF Less, Figures
<1> QED BY <1>2, <1>3

(***************************************************************************)
(* Apportioning.                                                           *)
(***************************************************************************)
\* What whole division leaves is less than the divisor.
LEMMA DivisionFloors ==
  ASSUME NEW n \in Nat, NEW d \in Nat \ {0}
  PROVE  /\ n \div d \in Nat
         /\ (n \div d) * d <= n /\ n < (n \div d) * d + d
OBVIOUS

LEMMA ProductOfNats == \A m, n \in Nat : m * n \in Nat
OBVIOUS

\* A part of a weight is no more than it, and all of it only with the whole.
LEMMA FloorIsPart ==
  ASSUME NEW total \in Nat, NEW all \in Nat \ {0}, NEW w \in Nat
  PROVE  LET f == (total * w) \div all
             r == total * w - f * all
         IN  /\ f \in Nat /\ r \in 0..(all - 1)
             /\ total <= all => f <= w
             /\ total < all /\ w > 0 => f < w
             /\ total = all => f = w
<1> DEFINE f == (total * w) \div all
<1>1. total * w \in Nat /\ f \in Nat /\ f * all <= total * w /\ total * w < f * all + all /\ f * all \in Nat
  BY ProductOfNats, DivisionFloors
<1> HIDE DEF f
<1>2. total * w - f * all \in 0..(all - 1)
  BY <1>1
<1>3. ASSUME total <= all PROVE f <= w
  <2>1. ASSUME f >= w + 1 PROVE FALSE
    <3>1. f * all >= (w + 1) * all
      BY <1>1, <2>1
    <3>2. (w + 1) * all = w * all + all
      OBVIOUS
    <3>3. total * w <= all * w
      BY <1>3
    <3> QED BY <1>1, <3>1, <3>2, <3>3
  <2> QED BY <1>1, <2>1
<1>4. ASSUME total < all, w > 0 PROVE f < w
  <2>1. total * w < all * w
    BY <1>4
  <2>2. ASSUME f >= w PROVE FALSE
    <3>1. f * all >= w * all
      BY <1>1, <2>2
    <3> QED BY <1>1, <2>1, <3>1
  <2> QED BY <1>1, <2>2
<1>5. ASSUME total = all PROVE f = w
  <2>1. f <= w
    BY <1>3, <1>5
  <2>2. ASSUME f + 1 <= w PROVE FALSE
    <3>1. (f + 1) * all <= w * all
      BY <1>1, <2>2
    <3>2. (f + 1) * all = f * all + all
      BY <1>1
    <3> QED BY <1>1, <1>5, <3>1, <3>2
  <2> QED BY <1>1, <2>1, <2>2
<1> QED BY <1>1, <1>2, <1>3, <1>4, <1>5 DEF f

\* What apportion computes on the way.
All(w) == SumFunctionOnSet(w, DOMAIN w)
Floors(total, w) == [i \in DOMAIN w |-> (total * w[i]) \div All(w)]
Rests(total, w) == [i \in DOMAIN w |-> total * w[i] - Floors(total, w)[i] * All(w)]
Short(total, w) == total - SumFunctionOnSet(Floors(total, w), DOMAIN w)
InFront(total, w, rank, i) ==
  {j \in DOMAIN w : \/ Rests(total, w)[j] > Rests(total, w)[i]
                    \/ Rests(total, w)[j] = Rests(total, w)[i] /\ rank[j] < rank[i]}
Rounded(total, w, rank) ==
  {i \in DOMAIN w : w[i] > 0 /\ Cardinality(InFront(total, w, rank, i)) < Short(total, w)}

LEMMA ApportionIs ==
  ASSUME NEW total, NEW w, NEW rank
  PROVE  Apportion(total, w, rank) =
           IF All(w) = 0
           THEN [i \in DOMAIN w |-> IF \A j \in DOMAIN w : rank[i] <= rank[j] THEN total ELSE 0]
           ELSE [i \in DOMAIN w |-> IF i \in Rounded(total, w, rank)
                                    THEN Floors(total, w)[i] + 1 ELSE Floors(total, w)[i]]
BY DEF Apportion, All, Floors, Rests, Short, InFront, Rounded, SumFunction, FoldFunction, SumFunctionOnSet

IsWeights(w) == IsFiniteSet(DOMAIN w) /\ \A i \in DOMAIN w : w[i] \in Nat

LEMMA FloorsAreParts ==
  ASSUME NEW total \in Nat, NEW w, IsWeights(w), All(w) # 0
  PROVE  /\ All(w) \in Nat
         /\ \A i \in DOMAIN w :
              /\ Floors(total, w)[i] \in Nat /\ Rests(total, w)[i] \in 0..(All(w) - 1)
              /\ total <= All(w) => Floors(total, w)[i] <= w[i]
              /\ total < All(w) /\ w[i] > 0 => Floors(total, w)[i] < w[i]
              /\ total = All(w) => Floors(total, w)[i] = w[i]
              /\ w[i] = 0 => Floors(total, w)[i] = 0
<1>1. All(w) \in Nat \ {0}
  BY SumIsNat DEF All, IsWeights
<1> SUFFICES ASSUME NEW i \in DOMAIN w
             PROVE  /\ Floors(total, w)[i] \in Nat /\ Rests(total, w)[i] \in 0..(All(w) - 1)
                    /\ total <= All(w) => Floors(total, w)[i] <= w[i]
                    /\ total < All(w) /\ w[i] > 0 => Floors(total, w)[i] < w[i]
                    /\ total = All(w) => Floors(total, w)[i] = w[i]
                    /\ w[i] = 0 => Floors(total, w)[i] = 0
  BY <1>1
<1>2. w[i] \in Nat
  BY DEF IsWeights
<1>3. /\ Floors(total, w)[i] = (total * w[i]) \div All(w)
      /\ Rests(total, w)[i] = total * w[i] - Floors(total, w)[i] * All(w)
  BY DEF Floors, Rests
<1>4. w[i] = 0 => Floors(total, w)[i] = 0
  <2>1. \A d \in Nat \ {0} : 0 \div d = 0
    OBVIOUS
  <2>2. total * 0 = 0
    OBVIOUS
  <2> QED BY <1>1, <1>3, <2>1, <2>2
<1> DEFINE all == All(w)
           weight == w[i]
<1>5. LET f == (total * weight) \div all
          r == total * weight - f * all
      IN  /\ f \in Nat /\ r \in 0..(all - 1)
          /\ total <= all => f <= weight
          /\ total < all /\ weight > 0 => f < weight
          /\ total = all => f = weight
  <2>1. all \in Nat \ {0} /\ weight \in Nat
    BY <1>1, <1>2
  <2> HIDE DEF all, weight
  <2> QED BY <2>1, FloorIsPart
<1> QED BY <1>3, <1>4, <1>5

\* "Shares of zero weight receive nothing" (apportion.ts), and no share of what is
\* there in all is more than what is there of it.
LEMMA SharesAreParts ==
  ASSUME NEW total \in Nat, NEW w, IsWeights(w), NEW rank
  PROVE  LET A == Apportion(total, w, rank)
         IN  /\ A = [i \in DOMAIN w |-> A[i]]
             /\ \A i \in DOMAIN w : A[i] \in Nat
             /\ total <= All(w) => \A i \in DOMAIN w : A[i] <= w[i]
             /\ All(w) # 0 => \A i \in DOMAIN w : w[i] = 0 => A[i] = 0
<1> DEFINE A == Apportion(total, w, rank)
<1>1. CASE All(w) = 0
  <2>1. A = [i \in DOMAIN w |-> IF \A j \in DOMAIN w : rank[i] <= rank[j] THEN total ELSE 0]
    BY <1>1, ApportionIs
  <2>2. \A i \in DOMAIN w : A[i] = total \/ A[i] = 0
    BY <2>1
  <2> QED BY <1>1, <2>1, <2>2 DEF IsWeights
<1>2. CASE All(w) # 0
  <2>1. A = [i \in DOMAIN w |-> IF i \in Rounded(total, w, rank)
                                THEN Floors(total, w)[i] + 1 ELSE Floors(total, w)[i]]
    BY <1>2, ApportionIs
  <2>2. All(w) \in Nat /\ \A i \in DOMAIN w : Floors(total, w)[i] \in Nat
    BY <1>2, FloorsAreParts
  <2>3. ASSUME total <= All(w), NEW i \in DOMAIN w PROVE A[i] <= w[i]
    <3>1. CASE i \notin Rounded(total, w, rank)
      <4>1. A[i] = Floors(total, w)[i]
        BY <2>1, <3>1
      <4> QED BY <1>2, <2>3, <4>1, FloorsAreParts
    <3>2. CASE i \in Rounded(total, w, rank) /\ total < All(w)
      <4>1. A[i] = Floors(total, w)[i] + 1 /\ w[i] > 0
        BY <2>1, <3>2 DEF Rounded
      <4>2. Floors(total, w)[i] < w[i] /\ Floors(total, w)[i] \in Nat
        BY <1>2, <3>2, <4>1, FloorsAreParts
      <4> QED BY <4>1, <4>2 DEF IsWeights
    <3>3. CASE i \in Rounded(total, w, rank) /\ total = All(w)
      <4>1. \A j \in DOMAIN w : Floors(total, w)[j] = w[j]
        BY <1>2, <3>3, FloorsAreParts
      <4>2. SumFunctionOnSet(Floors(total, w), DOMAIN w) = All(w)
        BY <4>1, SumsAgree DEF All, IsWeights
      <4>3. Short(total, w) = 0
        BY <2>2, <3>3, <4>2 DEF Short
      <4>4. Cardinality(InFront(total, w, rank, i)) \in Nat
        BY FS_Subset, FS_CardinalityType DEF IsWeights, InFront
      <4>5. Cardinality(InFront(total, w, rank, i)) < 0
        BY <3>3, <4>3 DEF Rounded
      <4> QED BY <4>4, <4>5
    <3> QED BY <2>2, <2>3, <3>1, <3>2, <3>3
  <2>4. ASSUME NEW i \in DOMAIN w, w[i] = 0 PROVE A[i] = 0
    <3>1. i \notin Rounded(total, w, rank)
      BY <2>4 DEF Rounded
    <3>2. Floors(total, w)[i] = 0
      BY <1>2, <2>4, FloorsAreParts
    <3> QED BY <2>1, <3>1, <3>2
  <2> QED BY <2>1, <2>2, <2>3, <2>4
<1> QED BY <1>1, <1>2

\* In a line of things one in front of the other, the first k are k.
LEMMA FirstPlaces ==
  ASSUME NEW S, IsFiniteSet(S), NEW front, NEW k \in 0..Cardinality(S),
         \A i \in S : front[i] \subseteq S \ {i},
         \A i, j \in S : i # j => i \in front[j] \/ j \in front[i],
         \A i, j \in S : i \in front[j] => front[i] \subseteq front[j]
  PROVE  Cardinality({i \in S : Cardinality(front[i]) < k}) = k
<1> DEFINE N == Cardinality(S)
           place == [i \in S |-> Cardinality(front[i])]
           T == {i \in S : place[i] < k}
           U == {i \in S : place[i] >= k}
<1>1. N \in Nat /\ k \in Nat /\ k <= N
  BY FS_CardinalityType
<1>2. ASSUME NEW i \in S
      PROVE  IsFiniteSet(front[i]) /\ place[i] \in Nat /\ place[i] <= N - 1
  <2>1. IsFiniteSet(S \ {i}) /\ Cardinality(S \ {i}) = N - 1
    BY FS_RemoveElement
  <2>2. front[i] \in SUBSET (S \ {i})
    OBVIOUS
  <2>3. IsFiniteSet(front[i]) /\ Cardinality(front[i]) <= N - 1
    BY <2>1, <2>2, FS_Subset
  <2> QED BY <2>3, FS_CardinalityType
<1>3. ASSUME NEW i \in S, NEW j \in S, i \in front[j] PROVE place[i] # place[j]
  <2>1. front[i] \in SUBSET front[j] /\ i \notin front[i]
    BY <1>3
  <2>2. Cardinality(front[i]) # Cardinality(front[j])
    BY <1>2, <1>3, <2>1, FS_Subset
  <2> QED BY <2>2
<1>4. \A i, j \in S : place[i] = place[j] => i = j
  BY <1>3
<1> HIDE DEF place, N
<1>5. IsFiniteSet(T) /\ IsFiniteSet(U) /\ Cardinality(T) \in Nat /\ Cardinality(U) \in Nat
  BY FS_Subset, FS_CardinalityType
<1>6. Cardinality(T) <= k
  <2>1. IsFiniteSet(0..(k - 1)) /\ Cardinality(0..(k - 1)) = k
    BY <1>1, FS_Interval
  <2>2. [i \in T |-> place[i]] \in Injection(T, 0..(k - 1))
    BY <1>1, <1>2, <1>4 DEF Injection, IsInjective
  <2> HIDE DEF T
  <2> QED BY <2>1, <2>2, FS_Injection
<1>7. Cardinality(U) <= N - k
  <2>1. IsFiniteSet(k..(N - 1)) /\ Cardinality(k..(N - 1)) = N - k
    <3>1. N - 1 \in Int /\ k \in Int /\ (k > N - 1 => N - k = 0) /\ (N - 1) - k + 1 = N - k
      BY <1>1
    <3>2. IsFiniteSet(k..(N - 1)) /\ Cardinality(k..(N - 1)) = IF k > N - 1 THEN 0 ELSE (N - 1) - k + 1
      BY <3>1, FS_Interval
    <3> QED BY <3>1, <3>2
  <2>2. [i \in U |-> place[i]] \in Injection(U, k..(N - 1))
    BY <1>1, <1>2, <1>4 DEF Injection, IsInjective
  <2> HIDE DEF U
  <2> QED BY <2>1, <2>2, FS_Injection
<1>8. N = Cardinality(T) + Cardinality(U)
  <2>1. S = T \cup U /\ T \cap U = {}
    BY <1>1, <1>2
  <2>2. Cardinality(T \cup U) = Cardinality(T) + Cardinality(U) - Cardinality(T \cap U)
    <3> HIDE DEF T, U
    <3> QED BY <1>5, FS_Union
  <2>3. N = Cardinality(T \cup U)
    BY <2>1 DEF N
  <2>4. Cardinality(T \cap U) = 0
    BY <2>1, FS_EmptySet
  <2> HIDE DEF T, U
  <2> QED BY <1>5, <2>2, <2>3, <2>4
<1>9. Cardinality(T) = k
  BY <1>1, <1>5, <1>6, <1>7, <1>8
<1>10. T = {i \in S : Cardinality(front[i]) < k}
  BY DEF place
<1> QED BY <1>9, <1>10

\* What rounding down leaves over is made up of remainders, each less than a unit:
\* there are more shares with one than units to give.
LEMMA ShortIsCovered ==
  ASSUME NEW total \in Nat, NEW w, IsWeights(w), All(w) # 0
  PROVE  LET P == {i \in DOMAIN w : Rests(total, w)[i] > 0}
         IN  /\ Short(total, w) \in Nat
             /\ Short(total, w) > 0 => Short(total, w) < Cardinality(P)
<1> DEFINE D == DOMAIN w
           all == All(w)
           floor == Floors(total, w)
           rest == Rests(total, w)
           short == Short(total, w)
           P == {i \in D : rest[i] > 0}
           claim == [i \in D |-> total * w[i]]
           used == [i \in D |-> all * floor[i]]
           most == [i \in D |-> IF i \in P THEN all - 1 ELSE 0]
           one == [i \in D |-> 1]
<1>1. /\ all \in Nat \ {0} /\ IsFiniteSet(D) /\ P \in SUBSET D
      /\ \A i \in D : floor[i] \in Nat /\ rest[i] \in 0..(all - 1) /\ w[i] \in Nat
  BY FloorsAreParts DEF IsWeights
<1>2. \A i \in D : /\ claim[i] \in Int /\ used[i] \in Int /\ claim[i] = rest[i] + used[i]
                   /\ claim[i] = total * w[i] /\ used[i] = all * floor[i]
  <2>1. \A i \in D : rest[i] = total * w[i] - floor[i] * all
    BY DEF Rests
  <2>2. \A i \in D : total * w[i] \in Nat /\ all * floor[i] \in Nat /\ floor[i] * all = all * floor[i]
    <3>1. \A m, n \in Nat : m * n \in Nat /\ m * n = n * m
      OBVIOUS
    <3> HIDE DEF floor, rest, all, P
    <3> QED BY <1>1, <3>1
  <2> HIDE DEF floor, rest, all, P
  <2> QED BY <1>1, <2>1, <2>2
<1>3. SumFunctionOnSet(floor, D) \in Nat
  <2> HIDE DEF floor, rest, all, P, D
  <2> QED BY <1>1, SumIsNat
<1>4. SumFunctionOnSet(claim, D) = total * all
  <2>1. all = SumFunctionOnSet(w, D)
    BY DEF All
  <2>2. \A i \in D : w[i] \in Int /\ claim[i] = total * w[i]
    BY <1>1
  <2> HIDE DEF claim, all, D
  <2> QED BY <1>1, <2>1, <2>2, SumScales
<1>5. SumFunctionOnSet(used, D) = all * SumFunctionOnSet(floor, D)
  <2>1. \A i \in D : floor[i] \in Int /\ used[i] = all * floor[i]
    BY <1>1, <1>2
  <2>2. all \in Int
    BY <1>1
  <2> HIDE DEF used, all, D, floor, rest, P
  <2> QED BY <1>1, <2>1, <2>2, SumScales
<1>6. SumFunctionOnSet(claim, D) = SumFunctionOnSet(rest, D) + SumFunctionOnSet(used, D)
  <2>1. \A i \in D : rest[i] \in Int /\ used[i] \in Int /\ claim[i] = rest[i] + used[i]
    BY <1>1, <1>2
  <2> HIDE DEF used, all, D, floor, rest, P, claim
  <2> QED BY <1>1, <2>1, SumOfPairs
<1>7. SumFunctionOnSet(rest, D) \in Nat
  <2> HIDE DEF floor, rest, all, P, D
  <2> QED BY <1>1, SumIsNat
<1>8. SumFunctionOnSet(rest, D) = short * all /\ short \in Int
  <2>1. short = total - SumFunctionOnSet(floor, D)
    BY DEF Short
  <2> DEFINE F == SumFunctionOnSet(floor, D)
             R == SumFunctionOnSet(rest, D)
  <2>2. total * all = R + all * F /\ F \in Nat /\ R \in Nat /\ short = total - F
    BY <1>3, <1>4, <1>5, <1>6, <1>7, <2>1
  <2> HIDE DEF F, R, short, all
  <2>3. (total - F) * all = total * all - all * F
    BY <1>1, <2>2
  <2> QED BY <1>1, <2>2, <2>3 DEF F, R
<1>9. SumFunctionOnSet(most, D) = (all - 1) * Cardinality(P)
  <2>1. SumFunctionOnSet(most, D) = SumFunctionOnSet(most, P)
    <3>1. \A i \in D : most[i] \in Int
      BY <1>1
    <3>2. \A i \in D \ P : most[i] = 0
      OBVIOUS
    <3> HIDE DEF most, P, D
    <3> QED BY <1>1, <3>1, <3>2, SumOverSupport
  <2>2. \A i \in P : one[i] \in Int /\ one[i] = 1 /\ most[i] = (all - 1) * one[i]
    BY <1>1
  <2>3. IsFiniteSet(P) /\ all - 1 \in Int
    BY <1>1, FS_Subset
  <2> HIDE DEF most, P, D, one, all
  <2>4. SumFunctionOnSet(most, P) = (all - 1) * SumFunctionOnSet(one, P)
    BY <2>2, <2>3, SumScales
  <2>5. SumFunctionOnSet(one, P) = Cardinality(P)
    BY <2>2, <2>3, SumOfOnes
  <2> QED BY <2>1, <2>4, <2>5
<1>10. SumFunctionOnSet(rest, D) <= SumFunctionOnSet(most, D)
  <2>1. \A i \in D : rest[i] \in Int /\ most[i] \in Int /\ rest[i] <= most[i]
    <3>1. \A i \in D : most[i] = IF i \in P THEN all - 1 ELSE 0
      OBVIOUS
    <3>2. \A i \in D : i \notin P => rest[i] <= 0
      BY <1>1
    <3> HIDE DEF most, P, D, rest, all
    <3> QED BY <1>1, <3>1, <3>2
  <2> HIDE DEF most, P, D, rest, all
  <2> QED BY <1>1, <2>1, SumGrows
<1>11. Cardinality(P) \in Nat
  BY <1>1, FS_Subset, FS_CardinalityType
<1>12. short * all <= (all - 1) * Cardinality(P) /\ short * all \in Nat
  BY <1>7, <1>8, <1>9, <1>10
<1> DEFINE c == Cardinality(P)
<1> HIDE DEF short, all, c
<1>13. c \in Nat /\ short * all <= (all - 1) * c /\ short * all >= 0
  BY <1>11, <1>12 DEF c
<1>14. short \in Nat
  <2>1. ASSUME short < 0 PROVE FALSE
    <3>1. short * all < 0
      BY <1>1, <1>8, <2>1
    <3>2. short * all \in Int
      BY <1>12
    <3> QED BY <1>12, <3>1, <3>2
  <2> QED BY <1>8, <2>1
<1>15. ASSUME short > 0, short >= c PROVE FALSE
  <2>1. (all - 1) * c <= (all - 1) * short
    BY <1>1, <1>13, <1>14, <1>15
  <2>2. (all - 1) * short = short * all - short
    BY <1>1, <1>14
  <2> QED BY <1>1, <1>13, <1>14, <1>15, <2>1, <2>2
<1>16. short \in Nat /\ (short > 0 => short < c)
  BY <1>13, <1>14, <1>15
<1> QED BY <1>16 DEF short, c

\* "The results always sum to exactly `total`, including when the weights do not
\* divide it" (apportion.ts).
THEOREM ApportionmentIsExact ==
  ASSUME NEW total \in Nat, NEW w, IsWeights(w), DOMAIN w # {},
         NEW rank \in [DOMAIN w -> Nat], \A i, j \in DOMAIN w : rank[i] = rank[j] => i = j
  PROVE  SumFunction(Apportion(total, w, rank)) = total
<1> DEFINE D == DOMAIN w
           A == Apportion(total, w, rank)
<1>1. IsFiniteSet(D) /\ D # {} /\ DOMAIN A = D /\ SumFunction(A) = SumFunctionOnSet(A, D)
  <2>1. A = [i \in D |-> A[i]]
    BY SharesAreParts
  <2>2. DOMAIN A = D
    BY <2>1
  <2> HIDE DEF A, D
  <2>3. SumFunction(A) = SumFunctionOnSet(A, DOMAIN A)
    BY DEF SumFunction, FoldFunction, SumFunctionOnSet
  <2> QED BY <2>2, <2>3 DEF IsWeights, D
<1>2. CASE All(w) = 0
  <2>1. PICK i \in D : \A j \in D : rank[i] <= rank[j]
    <3> DEFINE ranks == {rank[j] : j \in D}
    <3>1. ranks \in SUBSET Nat /\ ranks # {}
      BY <1>1
    <3>2. \E m \in ranks : \A n \in ranks : m <= n
      <4> HIDE DEF ranks
      <4> QED BY <3>1, LeastNatural
    <3> QED BY <3>2
  <2>2. A = [k \in D |-> IF \A j \in D : rank[k] <= rank[j] THEN total ELSE 0]
    BY <1>2, ApportionIs
  <2>3. A[i] = total /\ \A k \in D \ {i} : A[k] = 0
    <3>1. \A k \in D \ {i} : ~(rank[k] <= rank[i])
      BY <2>1
    <3> QED BY <2>1, <2>2, <3>1
  <2>4. \A k \in D : A[k] \in Int
    BY <2>3
  <2>5. {i} \in SUBSET D /\ \A k \in D \ {i} : A[k] = 0
    BY <2>3
  <2> HIDE DEF A, D
  <2>6. SumFunctionOnSet(A, D) = SumFunctionOnSet(A, {i})
    BY <1>1, <2>4, <2>5, SumOverSupport
  <2>7. SumFunctionOnSet(A, {i}) = A[i] + SumFunctionOnSet(A, {i} \ {i})
    <3>1. IsFiniteSet({i}) /\ i \in {i} /\ \A k \in {i} : A[k] \in Int
      BY <2>4, FS_Singleton
    <3> QED BY <3>1, SumTakesAny
  <2>8. SumFunctionOnSet(A, {i} \ {i}) = 0
    <3>1. {i} \ {i} = {}
      OBVIOUS
    <3> QED BY <3>1, SumOfNone
  <2>9. SumFunction(A) = total
    BY <1>1, <2>3, <2>6, <2>7, <2>8
  <2> QED BY <2>9 DEF A
<1>3. CASE All(w) # 0
  <2> DEFINE floor == Floors(total, w)
             rest == Rests(total, w)
             short == Short(total, w)
             front == [i \in D |-> InFront(total, w, rank, i)]
             P == {i \in D : rest[i] > 0}
             first == {i \in D : Cardinality(front[i]) < short}
             G == Rounded(total, w, rank)
             extra == [i \in D |-> IF i \in G THEN 1 ELSE 0]
  <2>1. /\ \A i \in D : floor[i] \in Nat /\ rest[i] \in Nat /\ rank[i] \in Nat
        /\ \A i \in D : w[i] \in Nat /\ (w[i] = 0 => rest[i] = 0)
    <3>1. \A i \in D : floor[i] \in Nat /\ rest[i] \in Nat /\ w[i] \in Nat
      <4>1. \A i \in D : floor[i] \in Nat /\ rest[i] \in 0..(All(w) - 1)
        BY <1>3, FloorsAreParts
      <4>2. \A n : \A i \in 0..n : i \in Nat
        OBVIOUS
      <4>3. \A i \in D : w[i] \in Nat
        BY DEF IsWeights
      <4> HIDE DEF floor, rest, D
      <4> QED BY <4>1, <4>2, <4>3
    <3>2. ASSUME NEW i \in D, w[i] = 0 PROVE rest[i] = 0
      <4>1. floor[i] = 0 /\ All(w) \in Nat
        BY <1>3, <3>2, FloorsAreParts
      <4>2. rest[i] = total * w[i] - floor[i] * All(w)
        BY DEF Rests
      <4>3. total * 0 = 0 /\ \A a \in Nat : 0 * a = 0
        OBVIOUS
      <4> QED BY <3>2, <4>1, <4>2, <4>3
    <3> QED BY <3>1, <3>2
  <2>2. short \in Nat /\ (short > 0 => short < Cardinality(P))
    BY <1>3, ShortIsCovered
  <2>3. IsFiniteSet(P) /\ Cardinality(P) \in Nat /\ Cardinality(P) <= Cardinality(D) /\ Cardinality(D) \in Nat
    BY <1>1, FS_Subset, FS_CardinalityType
  <2>4. \A i \in D : front[i] = {j \in D : rest[j] > rest[i] \/ (rest[j] = rest[i] /\ rank[j] < rank[i])}
    BY DEF InFront
  <2>5. Cardinality(first) = short
    <3> HIDE DEF floor, rest, short, front, D
    <3>1. \A i \in D : front[i] \subseteq D \ {i}
      BY <2>1, <2>4
    <3>2. \A i, j \in D : i # j => i \in front[j] \/ j \in front[i]
      BY <2>1, <2>4 DEF D
    <3>3. \A i, j \in D : i \in front[j] => front[i] \subseteq front[j]
      BY <2>1, <2>4
    <3>4. short \in 0..Cardinality(D)
      BY <2>2, <2>3
    <3> HIDE DEF first
    <3>5. Cardinality({i \in D : Cardinality(front[i]) < short}) = short
      BY <1>1, <3>1, <3>2, <3>3, <3>4, FirstPlaces
    <3> QED BY <3>5 DEF first
  <2>6. G = first
    <3>1. G = {i \in first : w[i] > 0}
      BY DEF Rounded
    <3>2. ASSUME NEW i \in first PROVE w[i] > 0
      <4>1. ASSUME rest[i] = 0 PROVE FALSE
        <5>1. P \in SUBSET front[i] /\ IsFiniteSet(front[i])
          <6>1. \A j \in P : rest[j] > rest[i]
            BY <2>1, <4>1
          <6>2. front[i] \in SUBSET D
            BY <2>4
          <6> HIDE DEF rest, front
          <6> QED BY <1>1, <2>4, <6>1, <6>2, FS_Subset
        <5>2. Cardinality(P) <= Cardinality(front[i])
          <6> HIDE DEF P, front
          <6> QED BY <5>1, FS_Subset
        <5>3. Cardinality(front[i]) \in Nat
          BY <5>1, FS_CardinalityType
        <5>4. Cardinality(front[i]) < short
          OBVIOUS
        <5> HIDE DEF short, front, P
        <5> QED BY <2>2, <2>3, <5>2, <5>3, <5>4
      <4> QED BY <2>1, <4>1
    <3> QED BY <3>1, <3>2
  <2>7. \A i \in D : /\ A[i] = floor[i] + extra[i] /\ floor[i] \in Int /\ extra[i] \in Int
    <3>1. A = [i \in D |-> IF i \in G THEN floor[i] + 1 ELSE floor[i]]
      BY <1>3, ApportionIs
    <3> HIDE DEF A, floor, G
    <3> QED BY <2>1, <3>1 DEF floor
  <2>8. SumFunctionOnSet(extra, D) = short
    <3>1. SumFunctionOnSet(extra, D) = SumFunctionOnSet(extra, G)
      <4>1. G \in SUBSET D /\ (\A i \in D : extra[i] \in Int) /\ \A i \in D \ G : extra[i] = 0
        BY DEF Rounded
      <4> HIDE DEF extra, G, D
      <4> QED BY <1>1, <4>1, SumOverSupport
    <3>2. IsFiniteSet(G) /\ \A i \in G : extra[i] = 1
      BY <1>1, <2>6, FS_Subset
    <3>3. SumFunctionOnSet(extra, G) = Cardinality(G)
      <4> HIDE DEF extra, G
      <4> QED BY <3>2, SumOfOnes
    <3> QED BY <2>5, <2>6, <3>1, <3>3
  <2>9. SumFunctionOnSet(A, D) = SumFunctionOnSet(floor, D) + SumFunctionOnSet(extra, D)
    <3> HIDE DEF A, D, floor, extra
    <3> QED BY <1>1, <2>7, SumOfPairs
  <2>10. SumFunctionOnSet(floor, D) \in Int
    <3> HIDE DEF D, floor
    <3> QED BY <1>1, <2>7, SumIsInt
  <2>11. short = total - SumFunctionOnSet(floor, D)
    BY DEF Short
  <2> QED BY <1>1, <2>8, <2>9, <2>10, <2>11
<1> QED BY <1>2, <1>3

(***************************************************************************)
(* What the lots give, by method.                                          *)
(***************************************************************************)
IsOpen(open) ==
  /\ IsFiniteSet(DOMAIN open) /\ DOMAIN open \subseteq Nat
  /\ \A l \in DOMAIN open : open[l].day \in Nat /\ open[l].left \in Figures

InLine == {"fifo", "lifo"}
AheadOf(open, method, l) ==
  {k \in DOMAIN open : IF method = "fifo" THEN Before(open, k, l) ELSE Before(open, l, k)}
Given(still, there) == IF still <= 0 THEN 0 ELSE IF still < there THEN still ELSE there

LEMMA TakesInLine ==
  ASSUME NEW open, NEW quantity, NEW method \in InLine, NEW chosen
  PROVE  Takes(open, quantity, method, chosen) =
           [l \in DOMAIN open |->
              Given(quantity - Available(open, AheadOf(open, method, l)), open[l].left.quantity)]
<1>1. CASE method = "fifo"
  <2>1. \A l : AheadOf(open, method, l) = {k \in DOMAIN open : Before(open, k, l)}
    BY <1>1 DEF AheadOf
  <2>2. Takes(open, quantity, method, chosen) =
          [l \in DOMAIN open |->
             Given(quantity - Available(open, {k \in DOMAIN open : Before(open, k, l)}), open[l].left.quantity)]
    BY <1>1 DEF Takes, Sequential, Given
  <2> QED BY <2>1, <2>2
<1>2. CASE method = "lifo"
  <2>1. \A l : AheadOf(open, method, l) = {k \in DOMAIN open : Before(open, l, k)}
    BY <1>2 DEF AheadOf
  <2>2. Takes(open, quantity, method, chosen) =
          [l \in DOMAIN open |->
             Given(quantity - Available(open, {k \in DOMAIN open : Before(open, l, k)}), open[l].left.quantity)]
    BY <1>2 DEF Takes, Sequential, Given
  <2> QED BY <2>1, <2>2
<1> QED BY <1>1, <1>2 DEF InLine

LEMMA TakesOne ==
  ASSUME NEW open, NEW quantity, NEW chosen
  PROVE  Takes(open, quantity, "specific", chosen) =
           [l \in DOMAIN open |-> IF l = chosen THEN quantity ELSE 0]
BY DEF Takes

LEMMA TakesByWeight ==
  ASSUME NEW open, NEW quantity, NEW method, method \notin InLine, method # "specific", NEW chosen
  PROVE  Takes(open, quantity, method, chosen) = Apportion(quantity, Remaining(open), Rank(open))
BY DEF Takes, InLine

LEMMA RemainingIsWeights ==
  ASSUME NEW open, IsOpen(open)
  PROVE  /\ IsWeights(Remaining(open)) /\ DOMAIN Remaining(open) = DOMAIN open
         /\ \A l \in DOMAIN open : Remaining(open)[l] = open[l].left.quantity
         /\ Available(open, DOMAIN open) = All(Remaining(open))
BY DEF IsOpen, IsWeights, Remaining, Figures, Available, All

\* No lot is asked for more than it has.
LEMMA TakesWithin ==
  ASSUME NEW open, IsOpen(open), NEW quantity \in Nat, NEW method, NEW chosen,
         CanAllocate(open, quantity, method, chosen)
  PROVE  LET takes == Takes(open, quantity, method, chosen)
         IN  /\ takes = [l \in DOMAIN open |-> takes[l]]
             /\ \A l \in DOMAIN open : takes[l] \in 0..open[l].left.quantity
<1> DEFINE takes == Takes(open, quantity, method, chosen)
<1>1. \A l \in DOMAIN open : open[l].left.quantity \in Nat
  BY DEF IsOpen, Figures
<1>2. CASE method \in InLine
  <2>1. takes = [l \in DOMAIN open |->
          Given(quantity - Available(open, AheadOf(open, method, l)), open[l].left.quantity)]
    BY <1>2, TakesInLine
  <2>2. \A l \in DOMAIN open : Available(open, AheadOf(open, method, l)) \in Int
    <3> SUFFICES ASSUME NEW l \in DOMAIN open PROVE Available(open, AheadOf(open, method, l)) \in Int
      OBVIOUS
    <3> DEFINE S == AheadOf(open, method, l)
               f == Remaining(open)
    <3>1. IsFiniteSet(S) /\ \A k \in S : f[k] \in Int
      BY <1>1, FS_Subset DEF AheadOf, IsOpen, Remaining
    <3>2. SumFunctionOnSet(f, S) \in Int
      <4> HIDE DEF S, f
      <4> QED BY <3>1, SumIsInt
    <3> QED BY <3>2 DEF Available
  <2>3. \A m \in Int, n \in Nat : Given(quantity - m, n) \in 0..n
    BY DEF Given
  <2>4. takes = [l \in DOMAIN open |-> takes[l]] /\ \A l \in DOMAIN open : takes[l] \in 0..open[l].left.quantity
    <3> HIDE DEF takes
    <3> QED BY <1>1, <2>1, <2>2, <2>3
  <2> QED BY <2>4
<1>3. CASE method = "specific"
  <2>1. quantity <= open[chosen].left.quantity
    BY <1>3 DEF CanAllocate
  <2> QED BY <1>1, <1>3, <2>1, TakesOne
<1>4. CASE method \notin InLine /\ method # "specific"
  <2>1. takes = Apportion(quantity, Remaining(open), Rank(open)) /\ quantity <= All(Remaining(open))
    BY <1>4, TakesByWeight, RemainingIsWeights DEF CanAllocate
  <2>2. /\ takes = [l \in DOMAIN open |-> takes[l]]
        /\ \A l \in DOMAIN open : takes[l] \in Nat /\ takes[l] <= open[l].left.quantity
    BY <2>1, RemainingIsWeights, SharesAreParts
  <2>3. \A l \in DOMAIN open : takes[l] \in 0..open[l].left.quantity
    <3> HIDE DEF takes
    <3> QED BY <1>1, <2>2
  <2> QED BY <2>2, <2>3
<1> QED BY <1>2, <1>3, <1>4

\* The order lots stand in has no ties and no rounds.
LEMMA LineIsOrdered ==
  ASSUME NEW open, IsOpen(open), NEW method \in InLine
  PROVE  LET ahead(l) == AheadOf(open, method, l)
         IN  /\ \A l \in DOMAIN open : ahead(l) \subseteq DOMAIN open \ {l}
             /\ \A k, l \in DOMAIN open : k # l => k \in ahead(l) \/ l \in ahead(k)
             /\ \A k, l \in DOMAIN open : k \in ahead(l) => ahead(k) \subseteq ahead(l)
<1>1. \A l \in DOMAIN open : l \in Nat /\ open[l].day \in Nat
  BY DEF IsOpen
<1>2. \A k, l \in DOMAIN open : k \in AheadOf(open, method, l) <=>
        IF method = "fifo" THEN Before(open, k, l) ELSE Before(open, l, k)
  BY DEF AheadOf
<1>3. \A l : AheadOf(open, method, l) \subseteq DOMAIN open
  BY DEF AheadOf
<1>4. \A k, l, m \in DOMAIN open : /\ ~Before(open, l, l)
                                   /\ k # l => Before(open, k, l) \/ Before(open, l, k)
                                   /\ Before(open, k, l) /\ Before(open, l, m) => Before(open, k, m)
  BY <1>1 DEF Before
<1> QED BY <1>2, <1>3, <1>4

\* Up to a lot, the line has given what was asked, or all it has.
LEMMA LineGives ==
  ASSUME NEW open, IsOpen(open), NEW quantity \in Nat, NEW method \in InLine, NEW chosen
  PROVE  LET D == DOMAIN open
             given == SumFunctionOnSet(Takes(open, quantity, method, chosen), D)
             there == Available(open, D)
         IN  given = IF quantity <= there THEN quantity ELSE there
<1> DEFINE D == DOMAIN open
           f == Takes(open, quantity, method, chosen)
           w == Remaining(open)
           ahead(l) == AheadOf(open, method, l)
           Sum(T) == SumFunctionOnSet(f, T)
           There(T) == SumFunctionOnSet(w, T)
           Least(n) == IF quantity <= n THEN quantity ELSE n
           \* The initial segments that do not.
           Bad == {T \in SUBSET D : (\A l \in T : ahead(l) \subseteq T) /\ Sum(T) # Least(There(T))}
<1>1. IsFiniteSet(D) /\ \A l \in D : w[l] \in Nat /\ w[l] = open[l].left.quantity
  BY RemainingIsWeights DEF IsWeights
<1>2. \A l \in D : f[l] = Given(quantity - There(ahead(l)), w[l])
  <2>1. f = [l \in D |-> Given(quantity - Available(open, ahead(l)), open[l].left.quantity)]
    BY TakesInLine
  <2> QED BY <1>1, <2>1 DEF Available
<1>3. /\ \A l \in D : ahead(l) \subseteq D \ {l}
      /\ \A k, l \in D : k # l => k \in ahead(l) \/ l \in ahead(k)
      /\ \A k, l \in D : k \in ahead(l) => ahead(k) \subseteq ahead(l)
  BY LineIsOrdered
<1> HIDE DEF w, f, ahead, D
<1>4. \A T \in SUBSET D : There(T) \in Nat
  <2> SUFFICES ASSUME NEW T \in SUBSET D PROVE There(T) \in Nat
    OBVIOUS
  <2>1. IsFiniteSet(T) /\ \A l \in T : w[l] \in Nat
    BY <1>1, FS_Subset
  <2> QED BY <2>1, SumIsNat
<1>5. \A l \in D : f[l] \in Nat
  <2>1. \A l \in D : There(ahead(l)) \in Nat
    BY <1>3, <1>4
  <2> HIDE DEF There
  <2> QED BY <1>1, <1>2, <2>1 DEF Given
<1>6. Bad = {}
  <2> SUFFICES ASSUME Bad # {} PROVE FALSE
    OBVIOUS
  <2>1. PICK T \in Bad : \A U \in Bad : U \subseteq T => U = T
    <3>1. Bad \in SUBSET SUBSET D
      OBVIOUS
    <3> HIDE DEF Bad
    <3> QED BY <1>1, <3>1, SmallestSubset
  <2>2. IsFiniteSet(T) /\ T \subseteq D /\ \A l \in T : ahead(l) \subseteq T
    BY <1>1, <2>1, FS_Subset
  <2>3. PICK z \in T : \A l \in T : l # z => l \in ahead(z)
    \* The last of them: the one with the most ahead.
    <3>1. T # {}
      <4>1. Sum({}) = 0 /\ There({}) = 0
        BY SumOfNone
      <4>2. Least(0) = 0
        OBVIOUS
      <4> QED BY <2>1, <4>1, <4>2
    <3> DEFINE front == [l \in T |-> {k \in T : l \in ahead(k)}]
               behind == {front[l] : l \in T}
    <3>2. behind # {} /\ behind \in SUBSET SUBSET T
      BY <3>1
    <3>3. PICK B \in behind : \A C \in behind : C \subseteq B => C = B
      <4> HIDE DEF behind
      <4> QED BY <2>2, <3>2, SmallestSubset
    <3>4. PICK z \in T : B = front[z]
      OBVIOUS
    <3>5. ASSUME NEW l \in T, z \in ahead(l) PROVE FALSE
      <4>1. front[l] \subseteq front[z] /\ l \in front[z]
        BY <1>3, <2>2, <3>5
      <4>2. l \notin front[l]
        BY <1>3, <2>2
      <4> QED BY <3>3, <3>4, <4>1, <4>2
    <3> QED BY <1>3, <2>2, <3>5
  <2>4. ahead(z) = T \ {z}
    BY <1>3, <2>2, <2>3
  <2>5. T \ {z} \notin Bad
    BY <2>1
  <2>6. \A l \in T \ {z} : ahead(l) \subseteq T \ {z}
    BY <1>3, <2>2, <2>4
  <2>7. Sum(T \ {z}) = Least(There(T \ {z}))
    BY <2>2, <2>5, <2>6
  <2>8. Sum(T) = f[z] + Sum(T \ {z})
    <3>1. \A l \in T : f[l] \in Int
      BY <1>5, <2>2
    <3> QED BY <2>2, <3>1, SumTakesAny
  <2>9. There(T) = w[z] + There(T \ {z})
    <3>1. \A l \in T : w[l] \in Int
      BY <1>1, <2>2
    <3> QED BY <2>2, <3>1, SumTakesAny
  <2>10. f[z] = Given(quantity - There(T \ {z}), w[z]) /\ w[z] \in Nat /\ There(T \ {z}) \in Nat
    <3>1. z \in D /\ T \ {z} \in SUBSET D
      BY <2>2
    <3> HIDE DEF There
    <3> QED BY <1>1, <1>2, <1>4, <2>4, <3>1
  <2>11. Sum(T) # Least(There(T))
    BY <2>1
  <2> HIDE DEF Sum, There
  <2> QED BY <2>7, <2>8, <2>9, <2>10, <2>11 DEF Given
<1>7. \A l \in D : ahead(l) \subseteq D
  BY <1>3
<1>8. Sum(D) = Least(There(D))
  BY <1>6, <1>7
<1> QED BY <1>8 DEF Available, D, f, w

LEMMA RanksDiffer ==
  ASSUME NEW open, IsOpen(open)
  PROVE  /\ Rank(open) \in [DOMAIN open -> Nat]
         /\ \A k, l \in DOMAIN open : Rank(open)[k] = Rank(open)[l] => k = l
<1> DEFINE D == DOMAIN open
           ahead(l) == AheadOf(open, "fifo", l)
<1>1. IsFiniteSet(D)
  BY DEF IsOpen
<1>2. \A l \in D : Rank(open)[l] = Cardinality(ahead(l))
  BY DEF Rank, AheadOf
<1>3. /\ \A l \in D : ahead(l) \subseteq D \ {l}
      /\ \A k, l \in D : k # l => k \in ahead(l) \/ l \in ahead(k)
      /\ \A k, l \in D : k \in ahead(l) => ahead(k) \subseteq ahead(l)
  BY LineIsOrdered DEF InLine
<1>4. DOMAIN Rank(open) = D /\ Rank(open) = [l \in D |-> Rank(open)[l]]
  BY DEF Rank
<1> HIDE DEF ahead, D
<1>5. \A l \in D : IsFiniteSet(ahead(l)) /\ Cardinality(ahead(l)) \in Nat
  BY <1>1, <1>3, FS_Subset, FS_CardinalityType
<1>6. ASSUME NEW k \in D, NEW l \in D, k \in ahead(l) PROVE Rank(open)[k] # Rank(open)[l]
  <2>1. ahead(k) \in SUBSET ahead(l) /\ k \notin ahead(k)
    BY <1>3, <1>6
  <2>2. Cardinality(ahead(k)) # Cardinality(ahead(l))
    BY <1>5, <1>6, <2>1, FS_Subset
  <2> QED BY <1>2, <2>2
<1>7. \A k, l \in D : Rank(open)[k] = Rank(open)[l] => k = l
  BY <1>3, <1>6
<1>8. \A l \in D : Rank(open)[l] \in Nat
  BY <1>2, <1>5
<1> QED BY <1>4, <1>7, <1>8 DEF D

\* What a draw is, and what it leaves.
IsDraw(draw, left) ==
  /\ draw \in Figures /\ draw.quantity > 0
  /\ Less(left, draw) \in Figures
  /\ draw.quantity = left.quantity => Less(left, draw) = Nothing

\* The draws of what each lot is to give.
IsAllocation(draws, takes, open) ==
  /\ draws = [l \in DOMAIN draws |-> draws[l]]
  /\ DOMAIN draws = {l \in DOMAIN open : takes[l] > 0} /\ IsFiniteSet(DOMAIN draws)
  /\ \A l \in DOMAIN draws : IsDraw(draws[l], open[l].left) /\ draws[l].quantity = takes[l]

LEMMA AllocatedDraws ==
  ASSUME NEW open, IsOpen(open), NEW quantity \in Nat, NEW method, NEW chosen,
         CanAllocate(open, quantity, method, chosen)
  PROVE  IsAllocation(Allocate(open, quantity, method, chosen),
                      Takes(open, quantity, method, chosen), open)
<1> DEFINE draws == Allocate(open, quantity, method, chosen)
           takes == Takes(open, quantity, method, chosen)
           D == {l \in DOMAIN open : takes[l] > 0}
<1>1. draws = [l \in D |-> Draw(open[l].left, takes[l])]
  BY DEF Allocate
<1>2. \A l \in DOMAIN open : takes[l] \in 0..open[l].left.quantity /\ open[l].left \in Figures
  BY TakesWithin DEF IsOpen
<1>3. D \in SUBSET DOMAIN open /\ IsFiniteSet(D)
  BY FS_Subset DEF IsOpen
<1> HIDE DEF takes, draws
<1>4. ASSUME NEW l \in D PROVE IsDraw(draws[l], open[l].left) /\ draws[l].quantity = takes[l]
  <2> DEFINE left == open[l].left
             quant == takes[l]
  <2>1. left \in Figures /\ quant \in 1..left.quantity /\ quant > 0
    <3>1. quant \in 0..left.quantity /\ quant > 0 /\ left \in Figures
      BY <1>2
    <3>2. left.quantity \in Nat
      BY <3>1 DEF Figures
    <3> HIDE DEF left, quant
    <3> QED BY <3>1, <3>2
  <2>2. draws[l] = Draw(left, quant)
    BY <1>1
  <2> HIDE DEF left, quant
  <2>3. /\ Draw(left, quant) \in Figures
        /\ Less(left, Draw(left, quant)) \in Figures
        /\ Draw(left, quant).quantity = quant
        /\ quant = left.quantity => Less(left, Draw(left, quant)) = Nothing
    BY <2>1, DrawsAreSound
  <2> QED BY <2>1, <2>2, <2>3 DEF IsDraw, left, quant
<1> HIDE DEF D
<1>5. DOMAIN draws = D /\ draws = [l \in DOMAIN draws |-> draws[l]]
  BY <1>1
<1>6. IsAllocation(draws, takes, open)
  BY <1>3, <1>4, <1>5 DEF IsAllocation, D
<1> QED BY <1>6 DEF draws, takes

\* What a movement asks for is what leaves, from the lots that have it, whatever
\* the method and however a share divides (allocate, of costing.ts).
THEOREM AllocationIsExact ==
  ASSUME NEW open, IsOpen(open), NEW quantity \in Nat \ {0}, NEW method, NEW chosen,
         CanAllocate(open, quantity, method, chosen)
  PROVE  LET draws == Allocate(open, quantity, method, chosen)
         IN  /\ \A l \in DOMAIN draws : l \in DOMAIN open /\ IsDraw(draws[l], open[l].left)
             /\ SumFunction([l \in DOMAIN draws |-> draws[l].quantity]) = quantity
<1> DEFINE draws == Allocate(open, quantity, method, chosen)
           takes == Takes(open, quantity, method, chosen)
           D == DOMAIN open
           G == {l \in D : takes[l] > 0}
           leaving == [l \in DOMAIN draws |-> draws[l].quantity]
<1>1. /\ DOMAIN draws = G /\ IsFiniteSet(G) /\ IsFiniteSet(D) /\ G \in SUBSET D
      /\ \A l \in G : IsDraw(draws[l], open[l].left) /\ draws[l].quantity = takes[l]
  <2>1. quantity \in Nat /\ IsFiniteSet(D)
    BY DEF IsOpen
  <2>2. IsAllocation(draws, takes, open)
    BY <2>1, AllocatedDraws
  <2> HIDE DEF draws, takes
  <2> QED BY <2>1, <2>2 DEF IsAllocation
<1>2. takes = [l \in D |-> takes[l]] /\ \A l \in D : takes[l] \in Nat /\ takes[l] \in Int
  <2>1. \A l \in D : takes[l] \in 0..open[l].left.quantity
    BY TakesWithin
  <2>2. \A n : \A i \in 0..n : i \in Nat
    OBVIOUS
  <2>3. takes = [l \in D |-> takes[l]]
    BY TakesWithin
  <2> HIDE DEF takes, D
  <2> QED BY <2>1, <2>2, <2>3
<1>3. SumFunctionOnSet(takes, D) = quantity
  <2>1. CASE method \in InLine
    <3>1. quantity <= Available(open, D)
      BY <2>1 DEF CanAllocate, InLine
    <3> QED BY <2>1, <3>1, LineGives
  <2>2. CASE method = "specific"
    <3>1. chosen \in D /\ takes = [l \in D |-> IF l = chosen THEN quantity ELSE 0]
      BY <2>2, TakesOne DEF CanAllocate
    <3>2. {chosen} \in SUBSET D /\ (\A l \in D \ {chosen} : takes[l] = 0) /\ takes[chosen] = quantity
      BY <3>1
    <3> HIDE DEF takes, D
    <3>3. SumFunctionOnSet(takes, D) = SumFunctionOnSet(takes, {chosen})
      BY <1>1, <1>2, <3>2, SumOverSupport
    <3>4. SumFunctionOnSet(takes, {chosen}) = takes[chosen] + SumFunctionOnSet(takes, {chosen} \ {chosen})
      <4>1. IsFiniteSet({chosen}) /\ chosen \in {chosen} /\ \A l \in {chosen} : takes[l] \in Int
        BY <1>2, <3>2, FS_Singleton
      <4> QED BY <4>1, SumTakesAny
    <3>5. SumFunctionOnSet(takes, {chosen} \ {chosen}) = 0
      <4>1. {chosen} \ {chosen} = {}
        OBVIOUS
      <4> QED BY <4>1, SumOfNone
    <3> QED BY <3>2, <3>3, <3>4, <3>5
  <2>3. CASE method \notin InLine /\ method # "specific"
    <3> DEFINE w == Remaining(open)
               rank == Rank(open)
    <3>1. takes = Apportion(quantity, w, rank) /\ quantity <= All(w)
      BY <2>3, TakesByWeight, RemainingIsWeights DEF CanAllocate
    <3>2. IsWeights(w) /\ DOMAIN w = D
      BY RemainingIsWeights
    <3>3. DOMAIN w # {}
      <4>1. All(w) # 0
        BY <3>1
      <4> HIDE DEF w
      <4> QED BY <4>1, SumOfNone DEF All
    <3>4. rank \in [DOMAIN w -> Nat] /\ \A k, l \in DOMAIN w : rank[k] = rank[l] => k = l
      BY <3>2, RanksDiffer
    <3> HIDE DEF w, rank, takes, D
    <3>5. SumFunction(takes) = quantity
      BY <3>1, <3>2, <3>3, <3>4, ApportionmentIsExact
    <3>6. DOMAIN takes = D
      BY <1>2
    <3> QED BY <3>5, <3>6 DEF SumFunction, FoldFunction, SumFunctionOnSet
  <2> QED BY <2>1, <2>2, <2>3
<1>4. SumFunctionOnSet(takes, D) = SumFunctionOnSet(takes, G)
  <2>1. \A l \in D \ G : takes[l] = 0
    BY <1>2
  <2> HIDE DEF takes, D, G
  <2> QED BY <1>1, <1>2, <2>1, SumOverSupport
<1>5. SumFunctionOnSet(leaving, G) = SumFunctionOnSet(takes, G)
  <2>1. \A l \in G : leaving[l] = takes[l]
    BY <1>1
  <2> HIDE DEF takes, leaving, G
  <2> QED BY <1>1, <2>1, SumsAgree
<1>6. SumFunction(leaving) = SumFunctionOnSet(leaving, G)
  BY <1>1 DEF SumFunction, FoldFunction, SumFunctionOnSet
<1>7. SumFunction(leaving) = quantity /\ \A l \in DOMAIN draws : l \in DOMAIN open /\ IsDraw(draws[l], open[l].left)
  BY <1>1, <1>3, <1>4, <1>5, <1>6
<1> QED BY <1>7

(***************************************************************************)
(* The sessions.  A row is read under its lock and stands as it was read   *)
(* until the lock is let go, so what a session computes from its view is   *)
(* computed from the lots.                                                 *)
(***************************************************************************)
\* A sequence of whatever its elements are.
IsSequence(q) == q \in Seq({q[n] : n \in DOMAIN q})

IsEntry(e) == /\ {"owner", "amounts", "reversed"} \subseteq DOMAIN e
              /\ e.amounts \in [Account -> Int]

Rows == /\ lots \in Seq(LotRow)
        /\ IsSequence(journal) /\ \A n \in DOMAIN journal : IsEntry(journal[n])

SessionTypes ==
  /\ pc = [s \in Session |-> pc[s]] /\ req = [s \in Session |-> req[s]]
  /\ todo = [s \in Session |-> todo[s]] /\ want = [s \in Session |-> want[s]]
  /\ held = [s \in Session |-> held[s]] /\ view = [s \in Session |-> view[s]]
  /\ plan = [s \in Session |-> plan[s]]

LocksExclude == \A s, t \in Session : s # t => held[s] \cap held[t] = {}

\* The requests of Stock, with one statement each; those of Sales have many.
Locking == {"issue", "writeoff", "return", "charge"}
Selling == {"sell", "credit"}

\* Statements whose rows are lots, by whatever they pick them.
AreStatements(q) ==
  /\ q \in Seq({q[n] : n \in DOMAIN q})
  /\ \A n \in DOMAIN q : q[n].by = "lots" => q[n].lots \subseteq Lots

\* What a preview allotted to lots, all of them on the shipment it is for.
IsPreview(p, h) ==
  /\ p = [l \in DOMAIN p |-> p[l]] /\ DOMAIN p \subseteq OnShipment(h)
  /\ \A l \in DOMAIN p :
       p[l].amount \in Nat /\ p[l].toInventory \in Nat /\ p[l].toInventory <= p[l].amount

\* What a request has locked, of what it will write.
ReturnReady(s) ==
  /\ req[s].lot \in Lots
  /\ pc[s] = "lock" => req[s].lot \in want[s] \cup DOMAIN view[s]
  /\ pc[s] = "write" => req[s].lot \in DOMAIN view[s]
ChargeReady(s) ==
  /\ IsPreview(plan[s], req[s].shipment)
  /\ pc[s] = "lock" => DOMAIN plan[s] \subseteq want[s] \cup held[s]
  /\ pc[s] = "write" => DOMAIN plan[s] \subseteq held[s]

OneStatement(s) ==
  /\ req[s] \in Request /\ pc[s] # "sale"
  /\ pc[s] \in {"select", "lock"} => todo[s] = Statements(req[s])
ManyStatements(s) == AreStatements(todo[s]) /\ (pc[s] = "lock" => todo[s] # <<>>)

AtWork(s) ==
  /\ req[s].op \in Locking \cup Selling
  /\ req[s].op \in Locking => OneStatement(s)
  /\ req[s].op \in Selling => ManyStatements(s)
  /\ req[s].op = "return" => ReturnReady(s)
  /\ req[s].op = "charge" => ChargeReady(s)

ViewStands(s) ==
  /\ view[s] = [l \in DOMAIN view[s] |-> view[s][l]] /\ DOMAIN view[s] \subseteq held[s]
  /\ \A l \in DOMAIN view[s] : view[s][l] = lots[l]

Own(s) ==
  /\ pc[s] \in {"idle", "sale", "select", "lock", "write"}
  /\ want[s] \subseteq Lots /\ held[s] \subseteq Lots
  /\ ViewStands(s)
  /\ pc[s] # "idle" => AtWork(s)

StockInv ==
  /\ Rows /\ SessionTypes /\ LocksExclude /\ (\A s \in Session : Own(s))
  /\ LotsAreSound /\ RefundsWithinCost

\* What a session has is as it was.
Same(t) == /\ pc'[t] = pc[t] /\ req'[t] = req[t] /\ todo'[t] = todo[t] /\ want'[t] = want[t]
           /\ held'[t] = held[t] /\ view'[t] = view[t] /\ plan'[t] = plan[t]

\* Lots are added, and of those there are only the figures change.
LotsGrow == Lots \subseteq Lots' /\ \A l \in Lots : lots'[l].shipment = lots[l].shipment

LEMMA OthersStand ==
  ASSUME NEW t \in Session, Own(t), Same(t), LotsGrow, \A l \in held[t] : lots'[l] = lots[l]
  PROVE  Own(t)'
<1>1. \A h : OnShipment(h) \subseteq OnShipment(h)'
  BY DEF LotsGrow, OnShipment
<1>2. ViewStands(t)'
  BY DEF Own, ViewStands, Same
<1>3. pc[t] # "idle" => AtWork(t)'
  <2> SUFFICES ASSUME pc[t] # "idle" PROVE AtWork(t)'
    OBVIOUS
  <2>1. req[t].op = "return" => ReturnReady(t)'
    BY DEF Own, AtWork, ReturnReady, Same, LotsGrow
  <2>2. req[t].op = "charge" => ChargeReady(t)'
    <3>1. \A p, h : IsPreview(p, h) => IsPreview(p, h)'
      BY <1>1 DEF IsPreview
    <3> QED BY <3>1 DEF Own, AtWork, ChargeReady, Same
  <2>3. req[t].op \in Locking => OneStatement(t)'
    BY DEF Own, AtWork, OneStatement, Same, Statements
  <2>4. req[t].op \in Selling => ManyStatements(t)'
    BY DEF Own, AtWork, ManyStatements, AreStatements, Same, LotsGrow
  <2> QED BY <2>1, <2>2, <2>3, <2>4 DEF Own, AtWork, Same
<1> QED BY <1>2, <1>3 DEF Own, Same, LotsGrow

\* A session that ends keeps nothing.
LEMMA FinishFrees ==
  ASSUME NEW s \in Session, SessionTypes, Finish(s)
  PROVE  /\ SessionTypes' /\ Own(s)' /\ held'[s] = {}
         /\ \A t \in Session \ {s} : Same(t)
<1>1. SessionTypes' /\ \A t \in Session \ {s} : Same(t)
  BY DEF Finish, SessionTypes, Same
<1>2. pc'[s] = "idle" /\ want'[s] = {} /\ held'[s] = {} /\ view'[s] = <<>>
  BY DEF Finish, SessionTypes
<1>3. DOMAIN <<>> = {} /\ <<>> = [l \in DOMAIN <<>> |-> <<>>[l]]
  OBVIOUS
<1> QED BY <1>1, <1>2, <1>3 DEF Own, ViewStands

\* A session ends, having changed no lot but those it had locked.
LEMMA FinishKeeps ==
  ASSUME NEW s \in Session, StockInv, Finish(s), LotsGrow,
         \A l \in Lots \ held[s] : lots'[l] = lots[l]
  PROVE  SessionTypes' /\ LocksExclude' /\ \A t \in Session : Own(t)'
<1>1. /\ SessionTypes' /\ Own(s)' /\ held'[s] = {}
      /\ \A t \in Session \ {s} : Same(t)
  BY FinishFrees DEF StockInv
<1>2. LocksExclude'
  BY <1>1 DEF StockInv, LocksExclude, Same
<1>3. ASSUME NEW t \in Session \ {s} PROVE Own(t)'
  <2>1. Own(t) /\ held[t] \subseteq Lots /\ held[t] \cap held[s] = {}
    BY DEF StockInv, Own, LocksExclude
  <2>2. \A l \in held[t] : lots'[l] = lots[l]
    BY <2>1
  <2> QED BY <1>1, <2>1, <2>2, OthersStand
<1> QED BY <1>1, <1>2, <1>3

LEMMA RollbackKeeps ==
  ASSUME NEW s \in Session, StockInv, Rollback(s)
  PROVE  StockInv'
<1>1. Finish(s) /\ UNCHANGED <<lots, journal>>
  BY DEF Rollback
<1>2. LotsGrow
  BY <1>1 DEF LotsGrow, Lots
<1>3. SessionTypes' /\ LocksExclude' /\ \A t \in Session : Own(t)'
  BY <1>1, <1>2, FinishKeeps
<1> QED BY <1>1, <1>3 DEF StockInv, Rows, LotsAreSound, RefundsWithinCost, Lots

\* A step of one session that leaves the lots alone.
LEMMA SessionKeeps ==
  ASSUME NEW s \in Session, StockInv, UNCHANGED <<lots, journal>>, SessionTypes',
         \A t \in Session \ {s} : Same(t), Own(s)',
         \A l \in held'[s] \ held[s] : Free(l)
  PROVE  StockInv'
<1>1. LotsGrow /\ \A l : lots'[l] = lots[l]
  BY DEF LotsGrow, Lots
<1>2. \A t \in Session : Own(t)'
  BY <1>1, OthersStand DEF StockInv
<1>3. LocksExclude'
  BY DEF StockInv, LocksExclude, Same, Free
<1> QED BY <1>2, <1>3 DEF StockInv, Rows, LotsAreSound, RefundsWithinCost, Lots

LEMMA LotsAre ==
  ASSUME Rows
  PROVE  /\ Lots = 1..Len(lots) /\ Len(lots) \in Nat /\ IsFiniteSet(Lots) /\ Lots \subseteq Nat
         /\ \A l \in Lots : lots[l] \in LotRow
<1>1. Lots = 1..Len(lots) /\ Len(lots) \in Nat /\ \A l \in Lots : lots[l] \in LotRow
  BY DEF Rows, Lots
<1> QED BY <1>1, FS_Interval

LEMMA LotFigures ==
  ASSUME Rows, LotsAreSound, NEW l \in Lots
  PROVE  /\ lots[l].item \in Item /\ lots[l].day \in Nat /\ lots[l].rate \in Nat /\ lots[l].refunded \in Nat
         /\ lots[l].paid \in Figures /\ lots[l].left \in Figures
         /\ lots[l].paid.quantity \in Nat /\ lots[l].paid.cost \in Nat /\ lots[l].paid.base \in Nat
         /\ lots[l].left.quantity \in Nat /\ lots[l].left.cost \in Nat /\ lots[l].left.base \in Nat
         /\ lots[l].left.quantity <= lots[l].paid.quantity
         /\ lots[l].left.cost <= lots[l].paid.cost /\ lots[l].left.base <= lots[l].paid.base
         /\ lots[l].left.quantity = 0 => lots[l].left.base = 0
<1>1. lots[l] \in LotRow /\ Sound(lots[l])
  BY LotsAre DEF LotsAreSound
<1>2. /\ lots[l].item \in Item /\ lots[l].day \in Nat /\ lots[l].rate \in Nat /\ lots[l].refunded \in Nat
      /\ lots[l].paid \in Figures /\ lots[l].left \in Figures
  BY <1>1 DEF LotRow
<1>3. /\ lots[l].paid.quantity \in Nat /\ lots[l].paid.cost \in Nat /\ lots[l].paid.base \in Nat
      /\ lots[l].left.quantity \in Nat /\ lots[l].left.cost \in Nat /\ lots[l].left.base \in Nat
  BY <1>2 DEF Figures
<1> QED BY <1>1, <1>2, <1>3 DEF Sound

LEMMA SumOfTwo ==
  ASSUME NEW f, DOMAIN f = 1..2, f[1] \in Int, f[2] \in Int
  PROVE  SumFunction(f) = f[1] + f[2]
<1> DEFINE One == {1}
<1>1. SumFunction(f) = SumFunctionOnSet(f, DOMAIN f) /\ DOMAIN f = One \cup {2} /\ 2 \notin One
  <2>1. SumFunction(f) = SumFunctionOnSet(f, DOMAIN f)
    BY DEF SumFunction, FoldFunction, SumFunctionOnSet
  <2>2. 1..2 = One \cup {2} /\ 2 \notin One
    OBVIOUS
  <2> QED BY <2>1, <2>2
<1>2. IsFiniteSet(One) /\ \A y \in One \cup {2} : f[y] \in Int
  BY FS_Singleton
<1>3. SumFunctionOnSet(f, One) = f[1]
  <2>1. IsFiniteSet({}) /\ 1 \notin {} /\ \A y \in {} \cup {1} : f[y] \in Int
    BY FS_EmptySet
  <2>2. SumFunctionOnSet(f, {} \cup {1}) = SumFunctionOnSet(f, {}) + f[1]
    BY ONLY <2>1, SumAdds
  <2>3. SumFunctionOnSet(f, {}) = 0 /\ One = {} \cup {1}
    BY SumOfNone
  <2> QED BY <2>2, <2>3
<1> HIDE DEF One
<1>4. SumFunctionOnSet(f, One \cup {2}) = SumFunctionOnSet(f, One) + f[2]
  BY <1>1, <1>2, SumAdds
<1> QED BY <1>1, <1>3, <1>4

\* A preview gives the lots of its shipment whole shares, none below zero, and
\* to what is held of a lot no more than its share.
LEMMA PreviewIs ==
  ASSUME Rows, LotsAreSound, NEW h, NEW amount \in Nat, NEW basis
  PROVE  IsPreview(AllocateCharge([l \in OnShipment(h) |-> lots[l]], amount, basis), h)
<1> DEFINE open == [l \in OnShipment(h) |-> lots[l]]
           w == WeightBy(open, basis)
           share == Apportion(amount, w, Rank(open))
           pair(l) == <<open[l].left.quantity, open[l].paid.quantity - open[l].left.quantity>>
           part(l) == Apportion(share[l], pair(l), <<1, 2>>)
           P == AllocateCharge(open, amount, basis)
<1>1. OnShipment(h) \subseteq Lots /\ IsFiniteSet(OnShipment(h))
  BY LotsAre, FS_Subset DEF OnShipment
<1>2. IsWeights(w) /\ DOMAIN w = OnShipment(h)
  <2>1. \A l \in OnShipment(h) : lots[l].paid.quantity \in Nat /\ lots[l].paid.base \in Nat
    BY <1>1, LotFigures
  <2>2. w = [l \in OnShipment(h) |-> IF basis = "quantity" THEN lots[l].paid.quantity ELSE lots[l].paid.base]
    BY DEF WeightBy
  <2> HIDE DEF w
  <2> QED BY <1>1, <2>1, <2>2 DEF IsWeights
<1>3. \A l \in OnShipment(h) : share[l] \in Nat
  <2> HIDE DEF w
  <2> QED BY <1>2, SharesAreParts
<1>4. ASSUME NEW l \in OnShipment(h) PROVE part(l)[1] \in Nat /\ part(l)[1] <= share[l]
  <2>1. pair(l)[1] \in Nat /\ pair(l)[2] \in Nat /\ DOMAIN pair(l) = 1..2
    <3>1. open[l] = lots[l] /\ l \in Lots
      BY <1>1
    <3> QED BY <3>1, LotFigures
  <2>2. IsWeights(pair(l)) /\ DOMAIN pair(l) = 1..2
    <3>1. IsFiniteSet(1..2)
      <4>1. 1 \in Int /\ 2 \in Int
        OBVIOUS
      <4> QED BY ONLY <4>1, FS_Interval
    <3> HIDE DEF pair
    <3> QED BY <2>1, <3>1 DEF IsWeights
  <2>3. share[l] \in Nat
    BY <1>3
  <2> DEFINE total == share[l]
             two == pair(l)
             A == Apportion(total, two, <<1, 2>>)
  <2>4. total \in Nat /\ IsWeights(two) /\ DOMAIN two = 1..2
    BY <2>2, <2>3
  <2> HIDE DEF total, two
  <2>5. A = [i \in 1..2 |-> A[i]] /\ \A i \in 1..2 : A[i] \in Nat
    BY <2>4, SharesAreParts
  <2>6. SumFunction(A) = total
    <3>1. <<1, 2>> \in [1..2 -> Nat] /\ \A i, j \in 1..2 : <<1, 2>>[i] = <<1, 2>>[j] => i = j
      OBVIOUS
    <3> QED BY <2>4, <3>1, ApportionmentIsExact
  <2> HIDE DEF A
  <2>7. SumFunction(A) = A[1] + A[2]
    <3>1. DOMAIN A = 1..2 /\ A[1] \in Int /\ A[2] \in Int
      BY <2>5
    <3> QED BY <3>1, SumOfTwo
  <2>8. A[1] \in Nat /\ A[1] <= total
    BY <2>4, <2>5, <2>6, <2>7
  <2> QED BY <2>8 DEF A, total, two
<1>5. P = [l \in OnShipment(h) |-> [amount |-> share[l], toInventory |-> part(l)[1]]]
  BY DEF AllocateCharge
<1> HIDE DEF share, part, P
<1>6. IsPreview(P, h)
  BY <1>3, <1>4, <1>5 DEF IsPreview
<1> QED BY <1>6 DEF P

\* A request has one statement, and this is it.
LEMMA StatementIs ==
  ASSUME NEW r, r.op \in Locking
  PROVE  /\ Statements(r) # <<>> /\ Tail(Statements(r)) = <<>>
         /\ r.op = "return" =>
              Head(Statements(r)).by = "lots" /\ Head(Statements(r)).lots = {r.lot}
         /\ r.op = "charge" =>
              Head(Statements(r)).by = "shipment" /\ Head(Statements(r)).shipment = r.shipment
<1>1. CASE r.op \in {"issue", "writeoff"}
  <2>1. Statements(r) = <<[by |-> "item", item |-> r.item]>>
    BY <1>1 DEF Statements
  <2> QED BY <1>1, <2>1
<1>2. CASE r.op = "return"
  <2>1. Statements(r) = <<[by |-> "lots", lots |-> {r.lot}]>>
    BY <1>2 DEF Statements
  <2> QED BY <1>2, <2>1
<1>3. CASE r.op = "charge"
  <2>1. Statements(r) = <<[by |-> "shipment", shipment |-> r.shipment]>>
    BY <1>3 DEF Statements
  <2> QED BY <1>3, <2>1
<1> QED BY <1>1, <1>2, <1>3 DEF Locking

LEMMA BeginKeeps ==
  ASSUME NEW s \in Session, StockInv, Begin(s)
  PROVE  StockInv'
<1>1. PICK r \in Request :
        /\ r.op \in Locking
        /\ r.op = "return" => r.lot \in Lots
        /\ req' = [req EXCEPT ![s] = r]
        /\ todo' = [todo EXCEPT ![s] = Statements(r)]
        /\ plan' = [plan EXCEPT ![s] =
             IF r.op = "charge"
             THEN AllocateCharge([l \in OnShipment(r.shipment) |-> lots[l]], r.amount, r.basis)
             ELSE <<>>]
  BY DEF Begin, Locking
<1>2. /\ pc[s] = "idle" /\ pc' = [pc EXCEPT ![s] = "select"]
      /\ UNCHANGED <<lots, journal, want, held, view>>
  BY DEF Begin
<1>3. SessionTypes /\ Own(s) /\ Rows /\ LotsAreSound
  BY DEF StockInv
<1>4. SessionTypes' /\ \A t \in Session \ {s} : Same(t)
  BY <1>1, <1>2, <1>3 DEF SessionTypes, Same
<1>5. /\ pc'[s] = "select" /\ req'[s] = r /\ todo'[s] = Statements(r)
      /\ want'[s] = want[s] /\ held'[s] = held[s] /\ view'[s] = view[s]
  BY <1>1, <1>2, <1>3 DEF SessionTypes
<1>6. ASSUME r.op = "charge" PROVE IsPreview(plan'[s], r.shipment)
  <2>1. plan'[s] = AllocateCharge([l \in OnShipment(r.shipment) |-> lots[l]], r.amount, r.basis)
    BY <1>1, <1>3, <1>6 DEF SessionTypes
  <2>2. r.amount \in Nat
    BY <1>6, RequestAssumption DEF Charges
  <2> QED BY <1>3, <2>1, <2>2, PreviewIs
<1>7. AtWork(s)'
  <2>1. (Lots' = Lots) /\ \A p, h : IsPreview(p, h) => IsPreview(p, h)'
    BY <1>2 DEF IsPreview, OnShipment, Lots
  <2>2. /\ req'[s] = r /\ pc'[s] = "select" /\ todo'[s] = Statements(r) /\ r \in Request /\ r.op \in Locking
        /\ r.op = "return" => r.lot \in Lots'
        /\ r.op = "charge" => IsPreview(plan[s], r.shipment)'
    <3>1. r.op = "charge" => IsPreview(plan[s], r.shipment)'
      BY <1>6, <2>1 DEF IsPreview
    <3> QED BY <1>1, <1>5, <2>1, <3>1
  <2>3. OneStatement(s)'
    BY <2>2 DEF OneStatement, Statements
  <2> QED BY <2>2, <2>3 DEF AtWork, ReturnReady, ChargeReady, Locking, Selling
<1>8. Own(s)'
  BY <1>2, <1>3, <1>5, <1>7 DEF Own, ViewStands, Lots
<1> QED BY <1>2, <1>4, <1>5, <1>8, SessionKeeps

LEMMA SelectKeeps ==
  ASSUME NEW s \in Session, StockInv, Select(s)
  PROVE  StockInv'
<1>1. /\ pc[s] = "select" /\ pc' = [pc EXCEPT ![s] = "lock"]
      /\ want' = [want EXCEPT ![s] = Candidates(Head(todo[s]))]
      /\ UNCHANGED <<lots, journal, req, todo, held, view, plan>>
  BY DEF Select
<1>2. SessionTypes /\ Own(s) /\ Rows /\ AtWork(s)
  BY <1>1 DEF StockInv, Own
<1>3. SessionTypes' /\ \A t \in Session \ {s} : Same(t)
  BY <1>1, <1>2 DEF SessionTypes, Same
<1>4. /\ pc'[s] = "lock" /\ want'[s] = Candidates(Head(todo[s])) /\ todo[s] # <<>>
      /\ req[s].op \in Locking \cup Selling
      /\ req[s].op \in Locking => todo[s] = Statements(req[s])
  BY <1>1, <1>2 DEF SessionTypes, AtWork, OneStatement, Select, Locking, Selling
<1>5. /\ req[s].op = "return" => Candidates(Head(todo[s])) = {req[s].lot}
      /\ req[s].op = "charge" => Candidates(Head(todo[s])) = OnShipment(req[s].shipment)
  <2>1. /\ req[s].op = "return" => Head(todo[s]) = [by |-> "lots", lots |-> {req[s].lot}]
        /\ req[s].op = "charge" => Head(todo[s]) = [by |-> "shipment", shipment |-> req[s].shipment]
    <3>1. CASE req[s].op = "return"
      <4>1. todo[s] = <<[by |-> "lots", lots |-> {req[s].lot}]>>
        BY <1>4, <3>1 DEF Locking, Statements
      <4> QED BY <3>1, <4>1
    <3>2. CASE req[s].op = "charge"
      <4>1. todo[s] = <<[by |-> "shipment", shipment |-> req[s].shipment]>>
        BY <1>4, <3>2 DEF Locking, Statements
      <4> QED BY <3>2, <4>1
    <3> QED BY <3>1, <3>2
  <2> QED BY <2>1 DEF Candidates
<1>6. Candidates(Head(todo[s])) \subseteq Lots
  <2>1. CASE req[s].op \in {"issue", "writeoff"}
    <3>1. Head(todo[s]) = [by |-> "item", item |-> req[s].item]
      <4>1. Statements(req[s]) = <<[by |-> "item", item |-> req[s].item]>>
        BY <2>1 DEF Statements
      <4> QED BY <1>4, <2>1, <4>1 DEF Locking
    <3> QED BY <3>1 DEF Candidates, OpenLots
  <2>2. CASE req[s].op = "return"
    BY <1>2, <1>5, <2>2 DEF AtWork, ReturnReady
  <2>3. CASE req[s].op = "charge"
    BY <1>5, <2>3 DEF OnShipment
  <2>4. CASE req[s].op \in Selling
    <3>1. Head(todo[s]).by = "lots" => Head(todo[s]).lots \subseteq Lots
      <4>1. AreStatements(todo[s])
        BY <1>2, <2>4 DEF AtWork, ManyStatements
      <4>2. 1 \in DOMAIN todo[s] /\ Head(todo[s]) = todo[s][1]
        BY <1>4, <4>1 DEF AreStatements
      <4> QED BY <4>1, <4>2 DEF AreStatements
    <3> QED BY <3>1 DEF Candidates, OpenLots, OnShipment
  <2> QED BY <1>4, <2>1, <2>2, <2>3, <2>4 DEF Locking
<1>7. AtWork(s)'
  <2>1. (req[s].op = "return" => ReturnReady(s)')
    BY <1>1, <1>2, <1>4, <1>5 DEF AtWork, ReturnReady, Lots
  <2>2. (req[s].op = "charge" => ChargeReady(s)')
    BY <1>1, <1>2, <1>4, <1>5 DEF AtWork, ChargeReady, IsPreview, OnShipment, Lots
  <2>3. req[s].op \in Locking => OneStatement(s)'
    BY <1>1, <1>2, <1>4 DEF AtWork, OneStatement, Statements
  <2>4. req[s].op \in Selling => ManyStatements(s)'
    BY <1>1, <1>2, <1>4 DEF AtWork, ManyStatements, AreStatements, Lots
  <2> QED BY <1>1, <1>2, <2>1, <2>2, <2>3, <2>4 DEF AtWork
<1>8. Own(s)'
  BY <1>1, <1>2, <1>4, <1>6, <1>7 DEF Own, ViewStands, Lots
<1> QED BY <1>1, <1>3, <1>8, SessionKeeps

LEMMA LockRowKeeps ==
  ASSUME NEW s \in Session, StockInv, LockRow(s)
  PROVE  StockInv'
<1>1. PICK l \in NextRow(s) :
        /\ Free(l) \/ l \in held[s]
        /\ held' = [held EXCEPT ![s] = @ \cup {l}]
        /\ view' = [view EXCEPT ![s] =
             IF Qualifies(s, l) THEN [k \in DOMAIN @ \cup {l} |-> IF k = l THEN lots[l] ELSE @[k]]
             ELSE @]
        /\ want' = [want EXCEPT ![s] = @ \ {l}]
  BY DEF LockRow
<1>2. pc[s] = "lock" /\ UNCHANGED <<lots, journal, pc, req, todo, plan>>
  BY DEF LockRow
<1>3. SessionTypes /\ Own(s) /\ AtWork(s) /\ ViewStands(s)
  BY <1>2 DEF StockInv, Own
<1>4. SessionTypes' /\ \A t \in Session \ {s} : Same(t)
  BY <1>1, <1>2, <1>3 DEF SessionTypes, Same
<1>5. l \in want[s] /\ l \in Lots
  BY <1>3 DEF NextRow, Own
<1>6. /\ pc'[s] = pc[s] /\ req'[s] = req[s] /\ todo'[s] = todo[s] /\ plan'[s] = plan[s]
      /\ held'[s] = held[s] \cup {l} /\ want'[s] = want[s] \ {l}
      /\ view'[s] = IF Qualifies(s, l)
                    THEN [k \in DOMAIN view[s] \cup {l} |-> IF k = l THEN lots[l] ELSE view[s][k]]
                    ELSE view[s]
  BY <1>1, <1>2, <1>3 DEF SessionTypes
<1>7. ViewStands(s)'
  <2>1. view[s] = [k \in DOMAIN view[s] |-> view[s][k]] /\ DOMAIN view[s] \subseteq held[s]
        /\ \A k \in DOMAIN view[s] : view[s][k] = lots[k]
    BY <1>3 DEF ViewStands
  <2> QED BY <1>2, <1>6, <2>1 DEF ViewStands
<1>8. req[s].op = "return" => view'[s] = [k \in DOMAIN view[s] \cup {l} |-> IF k = l THEN lots[l] ELSE view[s][k]]
  <2> SUFFICES ASSUME req[s].op = "return" PROVE Qualifies(s, l)
    BY <1>6
  <2>1. Head(todo[s]).by = "lots"
    BY <1>2, <1>3, StatementIs DEF AtWork, OneStatement, Locking
  <2> QED BY <2>1 DEF Qualifies
<1>9. AtWork(s)'
  <2>1. (req[s].op = "return" => ReturnReady(s)')
    BY <1>2, <1>3, <1>6, <1>8 DEF AtWork, ReturnReady, Lots
  <2>2. (req[s].op = "charge" => ChargeReady(s)')
    BY <1>2, <1>3, <1>6 DEF AtWork, ChargeReady, IsPreview, OnShipment, Lots
  <2>3. req[s].op \in Locking => OneStatement(s)'
    BY <1>2, <1>3, <1>6 DEF AtWork, OneStatement, Statements
  <2>4. req[s].op \in Selling => ManyStatements(s)'
    BY <1>2, <1>3, <1>6 DEF AtWork, ManyStatements, AreStatements, Lots
  <2> QED BY <1>2, <1>3, <1>6, <2>1, <2>2, <2>3, <2>4 DEF AtWork
<1>10. Own(s)'
  BY <1>2, <1>3, <1>5, <1>6, <1>7, <1>9 DEF Own, Lots
<1>11. \A k \in held'[s] \ held[s] : Free(k)
  BY <1>1, <1>6
<1> QED BY <1>2, <1>4, <1>10, <1>11, SessionKeeps

LEMMA TailIsSequence ==
  ASSUME NEW q, IsSequence(q), q # <<>>
  PROVE  /\ IsSequence(Tail(q))
         /\ \A n \in DOMAIN Tail(q) : n + 1 \in DOMAIN q /\ Tail(q)[n] = q[n + 1]
<1> DEFINE S == {q[n] : n \in DOMAIN q}
           r == Tail(q)
<1>1. q \in Seq(S)
  BY DEF IsSequence
<1> HIDE DEF S
<1>2. /\ r \in Seq(S) /\ DOMAIN r = 1..Len(r) /\ Len(r) \in Nat
      /\ \A n \in DOMAIN r : n + 1 \in DOMAIN q /\ r[n] = q[n + 1]
  BY <1>1
<1> HIDE DEF r
<1>3. r \in Seq({r[n] : n \in DOMAIN r})
  BY <1>2
<1> QED BY <1>2, <1>3 DEF IsSequence, r

LEMMA LockedKeeps ==
  ASSUME NEW s \in Session, StockInv, Locked(s)
  PROVE  StockInv'
<1>1. /\ pc[s] = "lock" /\ want[s] = {}
      /\ todo' = [todo EXCEPT ![s] = Tail(@)]
      /\ pc' = [pc EXCEPT ![s] = IF Tail(todo[s]) = <<>> THEN "write" ELSE "select"]
      /\ UNCHANGED <<lots, journal, req, want, held, view, plan>>
  BY DEF Locked
<1>2. SessionTypes /\ Own(s) /\ AtWork(s)
  BY <1>1 DEF StockInv, Own
<1>3. SessionTypes' /\ \A t \in Session \ {s} : Same(t)
  BY <1>1, <1>2 DEF SessionTypes, Same
<1>4. req[s].op \in Locking => Tail(todo[s]) = <<>>
  BY <1>1, <1>2, StatementIs DEF AtWork, OneStatement
<1>5. /\ pc'[s] \in {"select", "write"} /\ todo'[s] = Tail(todo[s])
      /\ req[s].op \in Locking => pc'[s] = "write"
  BY <1>1, <1>2, <1>4 DEF SessionTypes
<1>6. AtWork(s)'
  <2>1. (req[s].op = "return" => ReturnReady(s)')
    BY <1>1, <1>2, <1>5 DEF AtWork, ReturnReady, Lots, Locking
  <2>2. (req[s].op = "charge" => ChargeReady(s)')
    BY <1>1, <1>2, <1>5 DEF AtWork, ChargeReady, IsPreview, OnShipment, Lots, Locking
  <2>3. req[s].op \in Locking => OneStatement(s)'
    BY <1>1, <1>2, <1>5 DEF AtWork, OneStatement
  <2>4. req[s].op \in Selling => ManyStatements(s)'
    <3> SUFFICES ASSUME req[s].op \in Selling PROVE ManyStatements(s)'
      OBVIOUS
    <3> DEFINE q == todo[s]
    <3>1. q \in Seq({q[n] : n \in DOMAIN q}) /\ q # <<>> /\ AreStatements(q)
      BY <1>1, <1>2 DEF AtWork, ManyStatements, AreStatements
    <3> HIDE DEF q
    <3>2. \A n \in DOMAIN Tail(q) : n + 1 \in DOMAIN q /\ Tail(q)[n] = q[n + 1]
      BY <3>1, TailIsSequence DEF IsSequence
    <3>3. IsSequence(Tail(q))
      BY <3>1, TailIsSequence DEF IsSequence
    <3> DEFINE r == Tail(q)
    <3>4. r = todo'[s] /\ IsSequence(r) /\ Lots' = Lots
      BY <1>1, <1>5, <3>3 DEF q, Lots
    <3>5. \A n \in DOMAIN r : \E m \in DOMAIN q : r[n] = q[m]
      BY <3>2
    <3> HIDE DEF r
    <3>6. AreStatements(todo[s])'
      BY <3>1, <3>4, <3>5 DEF AreStatements, IsSequence
    <3> QED BY <1>5, <3>6 DEF ManyStatements
  <2> QED BY <1>1, <1>2, <2>1, <2>2, <2>3, <2>4 DEF AtWork
<1>7. Own(s)'
  BY <1>1, <1>2, <1>5, <1>6 DEF Own, ViewStands, Lots
<1> QED BY <1>1, <1>3, <1>7, SessionKeeps

(***************************************************************************)
(* The lots.                                                               *)
(***************************************************************************)
LEMMA ConvertIsNat == \A amount, rate \in Nat : Convert(amount, rate) \in Nat
<1> SUFFICES ASSUME NEW amount \in Nat, NEW rate \in Nat PROVE Convert(amount, rate) \in Nat
  OBVIOUS
<1>1. amount * rate \in Nat /\ RateScale \in Nat \ {0}
  BY ProductOfNats, ScaleAssumption
<1> QED BY <1>1, RoundingIsBounded DEF Convert

LEMMA OpenedIs ==
  ASSUME NEW r \in Receipts
  PROVE  /\ Opened(r) \in LotRow /\ Sound(Opened(r)) /\ Opened(r).refunded <= Opened(r).paid.cost
         /\ Opened(r).item = r.item /\ Opened(r).left.base = Convert(r.cost, r.rate)
         /\ Opened(r).left.quantity = r.quantity /\ r.quantity \in Nat \ {0}
         /\ Convert(r.cost, r.rate) \in Nat /\ r.item \in Item
<1> DEFINE all == [quantity |-> r.quantity, cost |-> r.cost, base |-> Convert(r.cost, r.rate)]
<1>1. /\ r.item \in Item /\ r.shipment \in Shipment \cup {NoShipment} /\ r.day \in Nat
      /\ r.quantity \in Nat \ {0} /\ r.cost \in Nat /\ r.rate \in Nat
  BY DEF Receipts
<1>2. Convert(r.cost, r.rate) \in Nat
  BY <1>1, ConvertIsNat
<1>3. all \in Figures /\ all.quantity = r.quantity /\ all.cost = r.cost /\ all.base = Convert(r.cost, r.rate)
  BY <1>1, <1>2 DEF Figures
<1> HIDE DEF all
<1>4. Opened(r) = [item |-> r.item, shipment |-> r.shipment, day |-> r.day, rate |-> r.rate,
                   paid |-> all, left |-> all, refunded |-> 0]
  BY DEF Opened, all
<1>5. Opened(r) \in LotRow
  BY <1>1, <1>3, <1>4 DEF LotRow
<1>6. Sound(Opened(r))
  BY <1>1, <1>2, <1>3, <1>4 DEF Sound
<1> QED BY <1>1, <1>2, <1>3, <1>4, <1>5, <1>6

LEMMA AppendIsSequence ==
  ASSUME NEW q, IsSequence(q), NEW x
  PROVE  /\ IsSequence(Append(q, x))
         /\ DOMAIN Append(q, x) = 1..(Len(q) + 1) /\ DOMAIN q = 1..Len(q) /\ Len(q) \in Nat
         /\ Append(q, x)[Len(q) + 1] = x
         /\ \A n \in DOMAIN q : Append(q, x)[n] = q[n]
<1> DEFINE S == {q[n] : n \in DOMAIN q} \cup {x}
           r == Append(q, x)
<1>1. q \in Seq(S)
  BY DEF IsSequence
<1> HIDE DEF S
<1>2. x \in S
  BY DEF S
<1>3. /\ r \in Seq(S) /\ DOMAIN r = 1..(Len(q) + 1) /\ DOMAIN q = 1..Len(q) /\ Len(q) \in Nat
      /\ r[Len(q) + 1] = x /\ \A n \in DOMAIN q : r[n] = q[n]
  BY <1>1, <1>2
<1>4. r \in Seq({r[n] : n \in DOMAIN r})
  BY <1>3
<1> QED BY <1>3, <1>4 DEF IsSequence

\* The journal gains an entry; of the others, what they are worth stands.
Posted(owner, amounts) ==
  LET k == Len(journal) + 1
  IN  /\ IsSequence(journal') /\ DOMAIN journal' = DOMAIN journal \cup {k} /\ k \notin DOMAIN journal
      /\ journal'[k].owner = owner /\ journal'[k].amounts = amounts /\ IsEntry(journal'[k])
      /\ \A n \in DOMAIN journal :
           /\ journal'[n].owner = journal[n].owner /\ journal'[n].amounts = journal[n].amounts
           /\ IsEntry(journal'[n])

LEMMA PostingIsPosted ==
  ASSUME Rows, NEW owner, NEW amounts \in [Account -> Int],
         journal' = Append(journal, Entry(owner, amounts))
  PROVE  Posted(owner, amounts)
<1>1. IsEntry(Entry(owner, amounts)) /\ Entry(owner, amounts).owner = owner /\ Entry(owner, amounts).amounts = amounts
  BY DEF Entry, IsEntry
<1>2. IsSequence(journal) /\ \A n \in DOMAIN journal : IsEntry(journal[n])
  BY DEF Rows
<1>3. /\ IsSequence(journal') /\ DOMAIN journal' = 1..(Len(journal) + 1)
      /\ DOMAIN journal = 1..Len(journal) /\ Len(journal) \in Nat
      /\ journal'[Len(journal) + 1] = Entry(owner, amounts)
      /\ \A n \in DOMAIN journal : journal'[n] = journal[n]
  BY <1>2, AppendIsSequence
<1> QED BY <1>1, <1>2, <1>3 DEF Posted

LEMMA PostedKeeps ==
  ASSUME Rows, NEW owner, NEW amounts, Posted(owner, amounts), lots' \in Seq(LotRow)
  PROVE  Rows'
BY DEF Rows, Posted

LEMMA AmountsAre ==
  ASSUME NEW i \in Item, NEW amount \in Int
  PROVE  /\ To(i, amount) \in [Account -> Int]
         /\ \A a \in Account : To(i, amount)[a] = IF a = AccountOf[i] THEN amount ELSE 0
<1>1. AccountOf[i] \in Account
  BY StockAssumption
<1> QED BY <1>1 DEF To, NoAmounts

LEMMA StockInitIs == StockInit => StockInv
<1> SUFFICES ASSUME StockInit PROVE StockInv
  OBVIOUS
<1>1. DOMAIN Opening = 1..Len(Opening) /\ Len(Opening) \in Nat /\ \A n \in DOMAIN Opening : Opening[n] \in Receipts
  BY RequestAssumption
<1>2. lots = [n \in 1..Len(Opening) |-> Opened(Opening[n])]
  BY <1>1 DEF StockInit
<1>3. lots \in Seq(LotRow) /\ Lots = DOMAIN Opening
  <2>1. \A n \in 1..Len(Opening) : Opened(Opening[n]) \in LotRow
    BY <1>1, OpenedIs
  <2> QED BY <1>1, <1>2, <2>1 DEF Lots
<1>4. LotsAreSound /\ RefundsWithinCost
  BY <1>1, <1>2, <1>3, OpenedIs DEF LotsAreSound, RefundsWithinCost
<1>5. IsSequence(journal) /\ \A n \in DOMAIN journal : IsEntry(journal[n])
  <2> DEFINE amounts(n) == To(Opening[n].item, Convert(Opening[n].cost, Opening[n].rate))
  <2>1. journal = [n \in 1..Len(Opening) |-> Entry("stock", amounts(n))]
    BY <1>1 DEF StockInit
  <2>2. \A n \in 1..Len(Opening) : amounts(n) \in [Account -> Int]
    <3>1. \A n \in 1..Len(Opening) : Opening[n].item \in Item /\ Convert(Opening[n].cost, Opening[n].rate) \in Int
      BY <1>1, OpenedIs
    <3> QED BY <3>1, AmountsAre
  <2> HIDE DEF amounts
  <2>3. IsSequence(journal) /\ DOMAIN journal = 1..Len(Opening)
    BY <1>1, <2>1 DEF IsSequence
  <2> QED BY <2>1, <2>2, <2>3 DEF IsEntry, Entry
<1>6. SessionTypes /\ LocksExclude
  BY DEF StockInit, SessionTypes, LocksExclude
<1>7. \A s \in Session : Own(s)
  <2>1. DOMAIN <<>> = {} /\ <<>> = [l \in DOMAIN <<>> |-> <<>>[l]]
    OBVIOUS
  <2>2. \A s \in Session : pc[s] = "idle" /\ want[s] = {} /\ held[s] = {} /\ view[s] = <<>>
    BY DEF StockInit
  <2> QED BY <2>1, <2>2 DEF Own, ViewStands
<1> QED BY <1>3, <1>4, <1>5, <1>6, <1>7 DEF StockInv, Rows

\* The sessions look on while the lots or the journal grow.
LEMMA IdleKeeps ==
  ASSUME StockInv, Idle, LotsGrow, \A l \in Lots : lots'[l] = lots[l]
  PROVE  SessionTypes' /\ LocksExclude' /\ \A t \in Session : Own(t)'
<1>1. \A t \in Session : Same(t)
  BY DEF Idle, Same
<1>2. ASSUME NEW t \in Session PROVE Own(t)'
  <2>1. Own(t) /\ held[t] \subseteq Lots
    BY DEF StockInv, Own
  <2> QED BY <1>1, <2>1, OthersStand
<1>3. SessionTypes'
  BY DEF Idle, StockInv, SessionTypes
<1>4. LocksExclude'
  BY DEF Idle, StockInv, LocksExclude
<1> QED BY <1>2, <1>3, <1>4

LEMMA ReceiveKeeps ==
  ASSUME StockInv, Receive
  PROVE  /\ StockInv'
         /\ \E r \in Receipts :
              /\ Posted("stock", To(r.item, Convert(r.cost, r.rate)))
              /\ Lots' = Lots \cup {Len(lots) + 1} /\ Len(lots) + 1 \notin Lots
              /\ lots'[Len(lots) + 1] = Opened(r) /\ \A l \in Lots : lots'[l] = lots[l]
<1> DEFINE k == Len(lots) + 1
<1>1. PICK r \in Request :
        /\ r.op = "receive"
        /\ lots' = Append(lots, Opened(r))
        /\ journal' = Append(journal, Entry("stock", To(r.item, Convert(r.cost, r.rate))))
  BY DEF Receive
<1>2. r \in Receipts
  BY <1>1, RequestAssumption
<1>3. Rows /\ LotsAreSound /\ RefundsWithinCost
  BY DEF StockInv
<1>4. To(r.item, Convert(r.cost, r.rate)) \in [Account -> Int]
  <2>1. r.item \in Item /\ Convert(r.cost, r.rate) \in Int
    BY <1>2, OpenedIs
  <2> QED BY <2>1, AmountsAre
<1>5. Posted("stock", To(r.item, Convert(r.cost, r.rate)))
  BY <1>1, <1>3, <1>4, PostingIsPosted
<1>6. /\ lots' \in Seq(LotRow) /\ Lots' = Lots \cup {k} /\ k \notin Lots
      /\ lots'[k] = Opened(r) /\ \A l \in Lots : lots'[l] = lots[l]
  BY <1>1, <1>2, <1>3, OpenedIs DEF Rows, Lots
<1>7. Rows'
  BY <1>3, <1>5, <1>6, PostedKeeps
<1>8. LotsAreSound' /\ RefundsWithinCost'
  BY <1>2, <1>3, <1>6, OpenedIs DEF LotsAreSound, RefundsWithinCost
<1>9. LotsGrow
  BY <1>6 DEF LotsGrow
<1>10. SessionTypes' /\ LocksExclude' /\ \A t \in Session : Own(t)'
  BY <1>6, <1>9, IdleKeeps DEF Receive
<1> QED BY <1>2, <1>5, <1>6, <1>7, <1>8, <1>10 DEF StockInv

LEMMA PostingKeeps ==
  ASSUME StockInv, UNCHANGED lots, Idle, NEW owner, NEW amounts, Posted(owner, amounts)
  PROVE  StockInv'
<1>1. Rows /\ LotsAreSound /\ RefundsWithinCost
  BY DEF StockInv
<1>2. LotsGrow
  BY DEF LotsGrow, Lots
<1>3. SessionTypes' /\ LocksExclude' /\ \A t \in Session : Own(t)'
  BY <1>2, IdleKeeps
<1>4. Rows'
  BY <1>1, PostedKeeps DEF Rows
<1> QED BY <1>1, <1>3, <1>4 DEF StockInv, LotsAreSound, RefundsWithinCost, Lots

LEMMA PostByHandKeeps ==
  ASSUME StockInv, PostByHand
  PROVE  StockInv' /\ \E amounts \in [Account -> Int] : Posted("hand", amounts)
<1>1. PICK r \in Request : r.op = "line" /\ journal' = Append(journal, Entry("hand", To(r.item, r.amount)))
  BY DEF PostByHand
<1>2. To(r.item, r.amount) \in [Account -> Int]
  BY <1>1, RequestAssumption, AmountsAre DEF Lines
<1>3. Posted("hand", To(r.item, r.amount))
  BY <1>1, <1>2, PostingIsPosted DEF StockInv
<1> QED BY <1>2, <1>3, PostingKeeps DEF PostByHand

\* What is reversed was posted by hand, and so is what reverses it.
LEMMA ReverseKeeps ==
  ASSUME StockInv, ReverseEntry
  PROVE  StockInv' /\ \E amounts \in [Account -> Int] : Posted("hand", amounts)
<1> DEFINE back(n) == [a \in Account |-> -journal[n].amounts[a]]
<1>1. PICK n \in DOMAIN journal :
        /\ journal[n].owner = "hand"
        /\ journal' = Append([journal EXCEPT ![n].reversed = TRUE], Entry(journal[n].owner, back(n)))
  BY DEF ReverseEntry, Reversible
<1> DEFINE marked == [journal EXCEPT ![n].reversed = TRUE]
           amounts == back(n)
<1>2. IsSequence(journal) /\ \A m \in DOMAIN journal : IsEntry(journal[m])
  BY DEF StockInv, Rows
<1>3. amounts \in [Account -> Int]
  BY <1>2 DEF IsEntry
<1>4. /\ DOMAIN marked = DOMAIN journal
      /\ \A m \in DOMAIN journal : /\ marked[m].owner = journal[m].owner
                                   /\ marked[m].amounts = journal[m].amounts /\ IsEntry(marked[m])
  <2>1. \A m \in DOMAIN journal : marked[m] = IF m = n THEN [journal[n] EXCEPT !.reversed = TRUE] ELSE journal[m]
    OBVIOUS
  <2>2. \A e : {"owner", "amounts", "reversed"} \subseteq DOMAIN e =>
          /\ [e EXCEPT !.reversed = TRUE].owner = e.owner /\ [e EXCEPT !.reversed = TRUE].amounts = e.amounts
          /\ DOMAIN [e EXCEPT !.reversed = TRUE] = DOMAIN e
    OBVIOUS
  <2> HIDE DEF marked
  <2>3. /\ marked[n].owner = journal[n].owner /\ marked[n].amounts = journal[n].amounts
        /\ DOMAIN marked[n] = DOMAIN journal[n]
    BY <1>2, <2>1, <2>2 DEF IsEntry
  <2>4. \A m \in DOMAIN journal : m # n => marked[m] = journal[m]
    BY <2>1
  <2> QED BY <1>2, <2>3, <2>4 DEF marked, IsEntry
<1>5. IsSequence(marked) /\ Len(marked) = Len(journal)
  <2>1. journal \in Seq({journal[m] : m \in DOMAIN journal}) /\ DOMAIN journal = 1..Len(journal) /\ Len(journal) \in Nat
    BY <1>2 DEF IsSequence
  <2>2. marked = [m \in 1..Len(journal) |-> marked[m]]
    BY <2>1
  <2> HIDE DEF marked
  <2> QED BY <2>1, <2>2 DEF IsSequence
<1> HIDE DEF marked, amounts
<1>6. Entry("hand", amounts).owner = "hand" /\ Entry("hand", amounts).amounts = amounts /\ IsEntry(Entry("hand", amounts))
  BY <1>3 DEF Entry, IsEntry
<1>7. /\ IsSequence(journal') /\ DOMAIN journal' = 1..(Len(marked) + 1)
      /\ DOMAIN marked = 1..Len(marked) /\ Len(marked) \in Nat
      /\ journal'[Len(marked) + 1] = Entry("hand", amounts)
      /\ \A m \in DOMAIN marked : journal'[m] = marked[m]
  <2>1. journal' = Append(marked, Entry("hand", amounts))
    BY <1>1 DEF marked, amounts
  <2> QED BY <1>5, <2>1, AppendIsSequence
<1>8. Posted("hand", amounts)
  BY <1>4, <1>5, <1>6, <1>7 DEF Posted
<1> QED BY <1>3, <1>8, PostingKeeps DEF ReverseEntry

\* A lot with another amount left, another amount refunded, or charged.
LEMMA LotChanges ==
  ASSUME NEW r \in LotRow, NEW x \in Figures, NEW n \in Nat, NEW m \in Nat
  PROVE  /\ [r EXCEPT !.left = x] \in LotRow
         /\ [r EXCEPT !.left = x] = [item |-> r.item, shipment |-> r.shipment, day |-> r.day, rate |-> r.rate,
                                     paid |-> r.paid, left |-> x, refunded |-> r.refunded]
         /\ [r EXCEPT !.refunded = n] \in LotRow
         /\ [r EXCEPT !.refunded = n] = [item |-> r.item, shipment |-> r.shipment, day |-> r.day, rate |-> r.rate,
                                         paid |-> r.paid, left |-> r.left, refunded |-> n]
         /\ [r EXCEPT !.paid.base = n, !.left.base = m] \in LotRow
         /\ [r EXCEPT !.paid.base = n, !.left.base = m]
              = [item |-> r.item, shipment |-> r.shipment, day |-> r.day, rate |-> r.rate,
                 paid |-> [quantity |-> r.paid.quantity, cost |-> r.paid.cost, base |-> n],
                 left |-> [quantity |-> r.left.quantity, cost |-> r.left.cost, base |-> m],
                 refunded |-> r.refunded]
<1>1. [r EXCEPT !.left = x] = [item |-> r.item, shipment |-> r.shipment, day |-> r.day, rate |-> r.rate,
                               paid |-> r.paid, left |-> x, refunded |-> r.refunded]
  BY DEF LotRow
<1>2. [r EXCEPT !.refunded = n] = [item |-> r.item, shipment |-> r.shipment, day |-> r.day, rate |-> r.rate,
                                   paid |-> r.paid, left |-> r.left, refunded |-> n]
  BY DEF LotRow
<1>3. [r EXCEPT !.paid.base = n, !.left.base = m]
              = [item |-> r.item, shipment |-> r.shipment, day |-> r.day, rate |-> r.rate,
                 paid |-> [quantity |-> r.paid.quantity, cost |-> r.paid.cost, base |-> n],
                 left |-> [quantity |-> r.left.quantity, cost |-> r.left.cost, base |-> m],
                 refunded |-> r.refunded]
  <2> DEFINE r1 == [r EXCEPT !.paid.base = n]
             paid == [quantity |-> r.paid.quantity, cost |-> r.paid.cost, base |-> n]
             left == [quantity |-> r.left.quantity, cost |-> r.left.cost, base |-> m]
  <2>1. [r.paid EXCEPT !.base = n] = paid /\ [r.left EXCEPT !.base = m] = left
    BY DEF LotRow, Figures
  <2>2. r1 = [r EXCEPT !.paid = [r.paid EXCEPT !.base = n]]
    OBVIOUS
  <2>3. r1 = [item |-> r.item, shipment |-> r.shipment, day |-> r.day, rate |-> r.rate,
              paid |-> paid, left |-> r.left, refunded |-> r.refunded]
    <3> HIDE DEF r1, paid
    <3> QED BY <2>1, <2>2 DEF LotRow
  <2>4. [r EXCEPT !.paid.base = n, !.left.base = m] = [r1 EXCEPT !.left = [r1.left EXCEPT !.base = m]]
    OBVIOUS
  <2>5. [r1 EXCEPT !.left = left] = [item |-> r.item, shipment |-> r.shipment, day |-> r.day, rate |-> r.rate,
                                     paid |-> paid, left |-> left, refunded |-> r.refunded]
    <3> HIDE DEF r1, paid, left
    <3> QED BY <2>3 DEF LotRow
  <2>6. r1.left = r.left
    <3> HIDE DEF r1
    <3> QED BY <2>3
  <2> HIDE DEF r1
  <2> QED BY <2>1, <2>4, <2>5, <2>6
<1> QED BY <1>1, <1>2, <1>3 DEF LotRow, Figures

\* These draws are out of the lots, and nothing else of them has changed but
\* what was refunded.
Gone(draws) ==
  /\ DOMAIN draws \subseteq Lots /\ IsFiniteSet(DOMAIN draws)
  /\ lots' \in Seq(LotRow) /\ Lots' = Lots
  /\ \A l \in Lots :
       /\ lots'[l].item = lots[l].item /\ lots'[l].shipment = lots[l].shipment
       /\ lots'[l].paid = lots[l].paid
       /\ l \notin DOMAIN draws => lots'[l] = lots[l]
       /\ l \in DOMAIN draws => /\ IsDraw(draws[l], lots[l].left)
                                /\ lots'[l].left = Less(lots[l].left, draws[l])

LEMMA DrawnAre ==
  ASSUME Rows, NEW draws, DOMAIN draws \subseteq Lots,
         \A l \in DOMAIN draws : IsDraw(draws[l], lots[l].left)
  PROVE  /\ Drawn(draws) \in Seq(LotRow) /\ DOMAIN Drawn(draws) = Lots
         /\ \A l \in Lots : l \notin DOMAIN draws => Drawn(draws)[l] = lots[l]
         /\ \A l \in DOMAIN draws :
              Drawn(draws)[l] = [item |-> lots[l].item, shipment |-> lots[l].shipment, day |-> lots[l].day,
                                 rate |-> lots[l].rate, paid |-> lots[l].paid,
                                 left |-> Less(lots[l].left, draws[l]), refunded |-> lots[l].refunded]
<1> DEFINE D == Drawn(draws)
           row(l) == [lots[l] EXCEPT !.left = Less(lots[l].left, draws[l])]
<1>1. Lots = 1..Len(lots) /\ Len(lots) \in Nat /\ \A l \in Lots : lots[l] \in LotRow
  BY LotsAre
<1>2. D = [l \in Lots |-> IF l \in DOMAIN draws THEN row(l) ELSE lots[l]]
  BY DEF Drawn, AfterDraws, Lots
<1>3. \A l \in DOMAIN draws :
        /\ row(l) \in LotRow
        /\ row(l) = [item |-> lots[l].item, shipment |-> lots[l].shipment, day |-> lots[l].day,
                     rate |-> lots[l].rate, paid |-> lots[l].paid,
                     left |-> Less(lots[l].left, draws[l]), refunded |-> lots[l].refunded]
  <2> TAKE l \in DOMAIN draws
  <2>1. lots[l] \in LotRow /\ Less(lots[l].left, draws[l]) \in Figures
    BY <1>1 DEF IsDraw
  <2> QED BY <2>1, LotChanges
<1> HIDE DEF row, D
<1>4. D = [l \in 1..Len(lots) |-> D[l]] /\ \A l \in 1..Len(lots) : D[l] \in LotRow
  BY <1>1, <1>2, <1>3
<1>5. D \in Seq(LotRow)
  BY <1>1, <1>4
<1>6. /\ D \in Seq(LotRow) /\ DOMAIN D = Lots
      /\ \A l \in Lots : l \notin DOMAIN draws => D[l] = lots[l]
      /\ \A l \in DOMAIN draws :
           D[l] = [item |-> lots[l].item, shipment |-> lots[l].shipment, day |-> lots[l].day,
                   rate |-> lots[l].rate, paid |-> lots[l].paid,
                   left |-> Less(lots[l].left, draws[l]), refunded |-> lots[l].refunded]
  BY <1>2, <1>3, <1>5
<1> QED BY <1>6 DEF D

\* What draws leave is sound.
LEMMA GoneIsSound ==
  ASSUME Rows, LotsAreSound, NEW draws, Gone(draws)
  PROVE  LotsAreSound'
<1> SUFFICES ASSUME NEW l \in Lots PROVE Sound(lots'[l])
  BY DEF Gone, LotsAreSound
<1>1. CASE l \notin DOMAIN draws
  BY <1>1 DEF Gone, LotsAreSound
<1>2. CASE l \in DOMAIN draws
  <2> DEFINE left == lots[l].left
             rest == Less(left, draws[l])
  <2>1. draws[l] \in Figures /\ rest \in Figures /\ (draws[l].quantity = left.quantity => rest = Nothing)
    BY <1>2 DEF Gone, IsDraw
  <2>2. /\ left \in Figures /\ left.quantity <= lots[l].paid.quantity
        /\ left.cost <= lots[l].paid.cost /\ left.base <= lots[l].paid.base
        /\ lots[l].paid \in Figures
    BY LotFigures
  <2>3. /\ rest.quantity = left.quantity - draws[l].quantity /\ rest.cost = left.cost - draws[l].cost
        /\ rest.base = left.base - draws[l].base
    BY DEF Less
  <2>4. lots'[l].paid = lots[l].paid /\ lots'[l].left = rest
    BY <1>2 DEF Gone
  <2>5. Nothing.quantity = 0 /\ Nothing.cost = 0 /\ Nothing.base = 0
    BY DEF Nothing
  <2> HIDE DEF left, rest
  <2>6. /\ rest.quantity \in 0..left.quantity /\ rest.cost \in 0..left.cost /\ rest.base \in 0..left.base
        /\ left.quantity \in Nat /\ left.cost \in Nat /\ left.base \in Nat
        /\ lots[l].paid.quantity \in Nat /\ lots[l].paid.cost \in Nat /\ lots[l].paid.base \in Nat
    BY <2>1, <2>2, <2>3 DEF Figures
  <2>7. rest.quantity = 0 => rest.cost = 0 /\ rest.base = 0
    BY <2>1, <2>2, <2>3, <2>5 DEF Figures
  <2> QED BY <2>2, <2>4, <2>6, <2>7 DEF Sound
<1> QED BY <1>1, <1>2

Bases(draws) == [l \in DOMAIN draws |-> draws[l].base]
Of(S, a) == {l \in S : AccountOf[lots[l].item] = a}

\* What leaves an account is what its draws cost.
LEMMA LeavingIs ==
  ASSUME NEW draws, IsFiniteSet(DOMAIN draws), \A l \in DOMAIN draws : draws[l].base \in Int
  PROVE  /\ Leaving(draws) \in [Account -> Int]
         /\ \A a \in Account :
              Leaving(draws)[a] = -SumFunctionOnSet(Bases(draws), Of(DOMAIN draws, a))
<1>1. ASSUME NEW a \in Account
      PROVE  /\ Leaving(draws)[a] = -SumFunctionOnSet(Bases(draws), Of(DOMAIN draws, a))
             /\ SumFunctionOnSet(Bases(draws), Of(DOMAIN draws, a)) \in Int
  <2> DEFINE S == Of(DOMAIN draws, a)
             part == [l \in S |-> draws[l]]
             base == [l \in DOMAIN part |-> part[l].base]
  <2>1. S \subseteq DOMAIN draws /\ IsFiniteSet(S)
    BY FS_Subset DEF Of
  <2>2. Leaving(draws)[a] = -CostOf(part)
    BY DEF Leaving, Of
  <2>3. CostOf(part) = SumFunctionOnSet(base, S)
    BY DEF CostOf, SumFunction, FoldFunction, SumFunctionOnSet
  <2>4. \A l \in S : base[l] = Bases(draws)[l] /\ base[l] \in Int
    BY <2>1 DEF Bases
  <2> HIDE DEF S, base, part
  <2>5. SumFunctionOnSet(base, S) = SumFunctionOnSet(Bases(draws), S)
    BY <2>1, <2>4, SumsAgree
  <2>6. SumFunctionOnSet(base, S) \in Int
    BY <2>1, <2>4, SumIsInt
  <2> QED BY <2>2, <2>3, <2>5, <2>6 DEF S
<1>2. Leaving(draws) = [a \in Account |-> Leaving(draws)[a]]
  BY DEF Leaving
<1> QED BY <1>1, <1>2

LEMMA TakingKeeps ==
  ASSUME NEW s \in Session, StockInv, Finish(s), NEW draws, Gone(draws), DOMAIN draws \subseteq held[s],
         NEW amounts, Posted("stock", amounts), RefundsWithinCost'
  PROVE  StockInv'
<1>1. Rows /\ LotsAreSound
  BY DEF StockInv
<1>2. LotsGrow /\ \A l \in Lots \ held[s] : lots'[l] = lots[l]
  BY DEF LotsGrow, Gone
<1>3. SessionTypes' /\ LocksExclude' /\ \A t \in Session : Own(t)'
  BY <1>2, FinishKeeps
<1>4. Rows'
  BY <1>1, PostedKeeps DEF Gone
<1> QED BY <1>1, <1>3, <1>4, GoneIsSound DEF StockInv

\* The rows a session read are open lots.
LEMMA ViewIsOpen ==
  ASSUME StockInv, NEW s \in Session
  PROVE  /\ IsOpen(view[s]) /\ DOMAIN view[s] \subseteq held[s] /\ DOMAIN view[s] \subseteq Lots
         /\ \A l \in DOMAIN view[s] : view[s][l] = lots[l]
<1>1. /\ DOMAIN view[s] \subseteq held[s] /\ DOMAIN view[s] \subseteq Lots
      /\ \A l \in DOMAIN view[s] : view[s][l] = lots[l]
  BY DEF StockInv, Own, ViewStands
<1>2. Rows /\ LotsAreSound
  BY DEF StockInv
<1>3. IsFiniteSet(DOMAIN view[s]) /\ DOMAIN view[s] \subseteq Nat
  BY <1>1, <1>2, LotsAre, FS_Subset
<1>4. \A l \in DOMAIN view[s] : view[s][l].day \in Nat /\ view[s][l].left \in Figures
  BY <1>1, <1>2, LotFigures
<1> QED BY <1>1, <1>3, <1>4 DEF IsOpen

\* Goods leave: what is drawn of each lot is its own session's to take.
Leaves(draws) ==
  Gone(draws) /\ Posted("stock", Leaving(draws)) /\ \A l \in DOMAIN draws : draws[l].base \in Nat

LEMMA IssueKeeps ==
  ASSUME NEW s \in Session, StockInv, WriteIssue(s)
  PROVE  StockInv' /\ \E draws : Leaves(draws)
<1> DEFINE open == view[s]
           chosen == req[s].lot
           method == MethodOf[req[s].item]
           quantity == req[s].quantity
           draws == Allocate(open, quantity, method, chosen)
           takes == Takes(open, quantity, method, chosen)
<1>1. /\ Finish(s) /\ pc[s] = "write" /\ req[s].op \in {"issue", "writeoff"}
      /\ CanAllocate(open, quantity, method, chosen)
      /\ lots' = Drawn(draws) /\ journal' = Append(journal, Entry("stock", Leaving(draws)))
  BY DEF WriteIssue, MayIssue, IssueDraws
<1>2. quantity \in Nat
  <2>1. req[s] \in Request
    BY <1>1 DEF StockInv, Own, AtWork, OneStatement, Locking
  <2>2. req[s] \in Removals
    BY <1>1, <2>1, RequestAssumption
  <2> QED BY <2>2 DEF Removals
<1>3. /\ IsOpen(open) /\ DOMAIN open \subseteq held[s] /\ DOMAIN open \subseteq Lots
      /\ \A l \in DOMAIN open : open[l] = lots[l]
  BY ViewIsOpen
<1>4. Rows /\ RefundsWithinCost
  BY DEF StockInv
<1> HIDE DEF open, chosen, method, quantity
<1>5. IsAllocation(draws, takes, open)
  BY <1>1, <1>2, <1>3, AllocatedDraws
<1> HIDE DEF draws, takes
<1>6. /\ DOMAIN draws \subseteq DOMAIN open /\ IsFiniteSet(DOMAIN draws)
      /\ \A l \in DOMAIN draws : IsDraw(draws[l], lots[l].left)
  BY <1>3, <1>5 DEF IsAllocation
<1>7. \A l \in DOMAIN draws : draws[l].base \in Nat /\ draws[l].base \in Int
  BY <1>6 DEF IsDraw, Figures
<1>8. Gone(draws) /\ \A l \in Lots : lots'[l].refunded = lots[l].refunded
  <2>1. /\ lots' \in Seq(LotRow) /\ DOMAIN lots' = Lots
        /\ \A l \in Lots : l \notin DOMAIN draws => lots'[l] = lots[l]
        /\ \A l \in DOMAIN draws :
              lots'[l] = [item |-> lots[l].item, shipment |-> lots[l].shipment, day |-> lots[l].day,
                          rate |-> lots[l].rate, paid |-> lots[l].paid,
                          left |-> Less(lots[l].left, draws[l]), refunded |-> lots[l].refunded]
    BY <1>1, <1>3, <1>4, <1>6, DrawnAre
  <2>2. Lots' = Lots
    BY <2>1 DEF Lots
  <2>3. ASSUME NEW l \in Lots
        PROVE  /\ lots'[l].item = lots[l].item /\ lots'[l].shipment = lots[l].shipment
               /\ lots'[l].paid = lots[l].paid /\ lots'[l].refunded = lots[l].refunded
               /\ l \notin DOMAIN draws => lots'[l] = lots[l]
               /\ l \in DOMAIN draws => /\ IsDraw(draws[l], lots[l].left)
                                        /\ lots'[l].left = Less(lots[l].left, draws[l])
    <3>1. CASE l \in DOMAIN draws
      <4>1. lots'[l] = [item |-> lots[l].item, shipment |-> lots[l].shipment, day |-> lots[l].day,
                        rate |-> lots[l].rate, paid |-> lots[l].paid,
                        left |-> Less(lots[l].left, draws[l]), refunded |-> lots[l].refunded]
        BY <2>1, <3>1
      <4>2. IsDraw(draws[l], lots[l].left)
        BY <1>6, <3>1
      <4> QED BY <3>1, <4>1, <4>2
    <3>2. CASE l \notin DOMAIN draws
      BY <2>1, <3>2
    <3> QED BY <3>1, <3>2
  <2> QED BY <1>3, <1>6, <2>1, <2>2, <2>3 DEF Gone
<1>9. Posted("stock", Leaving(draws))
  <2>1. Leaving(draws) \in [Account -> Int]
    BY <1>6, <1>7, LeavingIs
  <2> QED BY <1>1, <1>4, <2>1, PostingIsPosted
<1>10. RefundsWithinCost'
  BY <1>4, <1>8 DEF RefundsWithinCost, Gone
<1>11. StockInv'
  BY <1>1, <1>3, <1>6, <1>8, <1>9, <1>10, TakingKeeps
<1> QED BY <1>7, <1>8, <1>9, <1>11 DEF Leaves

LEMMA ReturnKeeps ==
  ASSUME NEW s \in Session, StockInv, WriteReturn(s)
  PROVE  StockInv' /\ \E draws : Leaves(draws)
<1> DEFINE lot == req[s].lot
           draw == ReturnDraw(s)
           draws == [l \in {lot} |-> draw]
           after == Drawn(draws)
           refund == Refund(s)
<1>1. /\ Finish(s) /\ pc[s] = "write" /\ req[s].op = "return" /\ MayReturn(s)
      /\ lots' = [after EXCEPT ![lot].refunded = @ + refund]
      /\ journal' = Append(journal, Entry("stock", Leaving(draws)))
  BY DEF WriteReturn
<1>2. Rows /\ LotsAreSound /\ RefundsWithinCost /\ AtWork(s)
  BY <1>1 DEF StockInv, Own
<1>3. /\ req[s].quantity \in Nat \ {0} /\ req[s].refund \in Nat \cup {Default}
      /\ lot \in DOMAIN view[s]
  <2>1. req[s] \in Returns
    BY <1>1, <1>2, RequestAssumption DEF AtWork, OneStatement, Locking
  <2> QED BY <1>1, <1>2, <2>1 DEF AtWork, ReturnReady, Returns
<1>4. lot \in held[s] /\ lot \in Lots /\ view[s][lot] = lots[lot]
  BY <1>3, ViewIsOpen
<1>5. /\ lots[lot].left \in Figures /\ lots[lot].left.quantity \in Nat
      /\ lots[lot].paid.cost \in Nat /\ lots[lot].refunded \in Nat
      /\ lots[lot].refunded <= lots[lot].paid.cost
  BY <1>2, <1>4, LotFigures DEF RefundsWithinCost
<1>6. draw = Draw(lots[lot].left, req[s].quantity) /\ req[s].quantity <= lots[lot].left.quantity
      /\ (req[s].refund <= Refundable(lots[lot]))
  BY <1>1, <1>4 DEF ReturnDraw, MayReturn
<1>7. IsDraw(draw, lots[lot].left)
  <2> DEFINE left == lots[lot].left
             quantity == req[s].quantity
  <2>1. left \in Figures /\ quantity \in 1..left.quantity /\ quantity > 0
    BY <1>3, <1>5, <1>6
  <2>2. draw = Draw(left, quantity)
    BY <1>6
  <2> HIDE DEF left, quantity, draw
  <2>3. /\ Draw(left, quantity) \in Figures
        /\ Less(left, Draw(left, quantity)) \in Figures
        /\ Draw(left, quantity).quantity = quantity
        /\ quantity = left.quantity => Less(left, Draw(left, quantity)) = Nothing
    BY <2>1, DrawsAreSound
  <2> QED BY <2>1, <2>2, <2>3 DEF IsDraw, left
<1>8. draw.base \in Nat /\ draw.cost \in Nat
  BY <1>7 DEF IsDraw, Figures
<1>9. refund \in Nat /\ lots[lot].refunded + refund \in Nat
      /\ lots[lot].refunded + refund <= lots[lot].paid.cost
  <2> DEFINE most == Refundable(lots[lot])
  <2>1. most = lots[lot].paid.cost - lots[lot].refunded /\ most \in Nat
    BY <1>5 DEF Refundable
  <2>2. refund = IF req[s].refund # Default THEN req[s].refund
                 ELSE IF draw.cost > most THEN most ELSE draw.cost
    BY <1>4 DEF Refund
  <2> HIDE DEF most, refund, draw
  <2>3. refund \in Nat /\ refund <= most
    BY <1>3, <1>6, <1>8, <2>1, <2>2 DEF most
  <2> QED BY <1>5, <2>1, <2>3
<1> HIDE DEF refund, draw
<1>10. /\ DOMAIN draws = {lot} /\ IsFiniteSet(DOMAIN draws)
       /\ \A l \in DOMAIN draws : /\ IsDraw(draws[l], lots[l].left) /\ l \in Lots /\ l \in held[s]
                                  /\ draws[l].base \in Nat /\ draws[l].base \in Int
  <2>1. DOMAIN draws = {lot} /\ draws[lot] = draw
    OBVIOUS
  <2> HIDE DEF draws
  <2>2. IsFiniteSet({lot})
    BY FS_Singleton
  <2> QED BY <1>4, <1>7, <1>8, <2>1, <2>2
<1> HIDE DEF draws, after
<1>11. /\ after \in Seq(LotRow) /\ DOMAIN after = Lots
       /\ \A l \in Lots : l # lot => after[l] = lots[l]
       /\ after[lot] = [item |-> lots[lot].item, shipment |-> lots[lot].shipment, day |-> lots[lot].day,
                        rate |-> lots[lot].rate, paid |-> lots[lot].paid,
                        left |-> Less(lots[lot].left, draws[lot]), refunded |-> lots[lot].refunded]
  <2>1. /\ DOMAIN draws \subseteq Lots /\ lot \in DOMAIN draws
        /\ \A l \in DOMAIN draws : IsDraw(draws[l], lots[l].left)
    BY <1>10
  <2>2. /\ Drawn(draws) \in Seq(LotRow) /\ DOMAIN Drawn(draws) = Lots
        /\ \A l \in Lots : l \notin DOMAIN draws => Drawn(draws)[l] = lots[l]
        /\ \A l \in DOMAIN draws :
              Drawn(draws)[l] = [item |-> lots[l].item, shipment |-> lots[l].shipment, day |-> lots[l].day,
                                 rate |-> lots[l].rate, paid |-> lots[l].paid,
                                 left |-> Less(lots[l].left, draws[l]), refunded |-> lots[l].refunded]
    BY <1>2, <2>1, DrawnAre
  <2> QED BY <1>10, <2>1, <2>2 DEF after
<1> DEFINE row == [after[lot] EXCEPT !.refunded = lots[lot].refunded + refund]
<1>12. /\ lots' = [l \in Lots |-> IF l = lot THEN row ELSE after[l]]
       /\ row = [item |-> lots[lot].item, shipment |-> lots[lot].shipment, day |-> lots[lot].day,
                 rate |-> lots[lot].rate, paid |-> lots[lot].paid,
                 left |-> Less(lots[lot].left, draws[lot]), refunded |-> lots[lot].refunded + refund]
       /\ row \in LotRow
  <2>1. Lots = 1..Len(lots) /\ after[lot] \in LotRow
    BY <1>2, <1>4, <1>11, LotsAre
  <2>2. after[lot].refunded = lots[lot].refunded
    BY <1>11
  <2>3. lots' = [after EXCEPT ![lot] = [after[lot] EXCEPT !.refunded = after[lot].refunded + refund]]
    BY <1>1
  <2>4. lots' = [after EXCEPT ![lot] = row]
    BY <2>2, <2>3
  <2>5. /\ row \in LotRow
        /\ row = [item |-> after[lot].item, shipment |-> after[lot].shipment, day |-> after[lot].day,
                  rate |-> after[lot].rate, paid |-> after[lot].paid, left |-> after[lot].left,
                  refunded |-> lots[lot].refunded + refund]
    BY <1>9, <1>5, <2>1, LotChanges
  <2> HIDE DEF row
  <2>6. lots' = [l \in Lots |-> IF l = lot THEN row ELSE after[l]]
    BY <1>11, <2>4
  <2>7. row = [item |-> lots[lot].item, shipment |-> lots[lot].shipment, day |-> lots[lot].day,
               rate |-> lots[lot].rate, paid |-> lots[lot].paid,
               left |-> Less(lots[lot].left, draws[lot]), refunded |-> lots[lot].refunded + refund]
    BY <1>11, <2>5
  <2> QED BY <2>5, <2>6, <2>7
<1> HIDE DEF row
<1>13. lots' \in Seq(LotRow) /\ Lots' = Lots /\ lots'[lot] = row /\ \A l \in Lots : l # lot => lots'[l] = lots[l]
  <2>1. Lots = 1..Len(lots) /\ Len(lots) \in Nat /\ \A l \in Lots : lots[l] \in LotRow
    BY <1>2, LotsAre
  <2>2. \A l \in Lots : (IF l = lot THEN row ELSE after[l]) \in LotRow
    BY <1>11, <1>12, <2>1
  <2>3. DOMAIN lots' = Lots /\ lots' \in Seq(LotRow)
    <3>1. lots' = [l \in 1..Len(lots) |-> IF l = lot THEN row ELSE after[l]]
      BY <1>12, <2>1
    <3> QED BY <2>1, <2>2, <3>1
  <2> QED BY <1>4, <1>11, <1>12, <2>3 DEF Lots
<1>14. Gone(draws)
  BY <1>10, <1>12, <1>13 DEF Gone
<1>15. RefundsWithinCost'
  BY <1>2, <1>9, <1>12, <1>13 DEF RefundsWithinCost
<1>16. Posted("stock", Leaving(draws))
  <2>1. Leaving(draws) \in [Account -> Int]
    BY <1>10, LeavingIs
  <2>2. journal' = Append(journal, Entry("stock", Leaving(draws)))
    BY <1>1 DEF draws
  <2> QED BY <1>2, <2>1, <2>2, PostingIsPosted
<1>17. StockInv'
  BY <1>1, <1>10, <1>14, <1>15, <1>16, TakingKeeps
<1> QED BY <1>10, <1>14, <1>16, <1>17 DEF Leaves

Parts(p) == [l \in DOMAIN p |-> p[l].toInventory]

\* A charge has landed on these lots, and nothing else of them has changed.
Raised(p) ==
  /\ DOMAIN p \subseteq Lots /\ IsFiniteSet(DOMAIN p)
  /\ lots' \in Seq(LotRow) /\ Lots' = Lots
  /\ \A l \in Lots :
       /\ lots'[l].item = lots[l].item /\ lots'[l].shipment = lots[l].shipment
       /\ lots'[l].left.quantity = lots[l].left.quantity /\ lots'[l].left.cost = lots[l].left.cost
       /\ lots'[l].paid.quantity = lots[l].paid.quantity
       /\ lots'[l].paid.cost = lots[l].paid.cost /\ lots'[l].refunded = lots[l].refunded
       /\ l \notin DOMAIN p => lots'[l] = lots[l]
       /\ l \in DOMAIN p => /\ p[l].toInventory \in Nat /\ p[l].amount \in Nat
                            /\ p[l].toInventory <= p[l].amount
                            /\ lots'[l].paid.base = lots[l].paid.base + p[l].amount
                            /\ lots'[l].left.base = lots[l].left.base + p[l].toInventory

LEMMA LandingIs ==
  ASSUME NEW s \in Session, IsFiniteSet(DOMAIN plan[s]), \A l \in DOMAIN plan[s] : plan[s][l].toInventory \in Int
  PROVE  /\ Landing(s) \in [Account -> Int]
         /\ \A a \in Account : Landing(s)[a] = SumFunctionOnSet(Parts(plan[s]), Of(DOMAIN plan[s], a))
<1>1. ASSUME NEW a \in Account
      PROVE  /\ Landing(s)[a] = SumFunctionOnSet(Parts(plan[s]), Of(DOMAIN plan[s], a))
             /\ Landing(s)[a] \in Int
  <2> DEFINE S == Of(DOMAIN plan[s], a)
             part == [l \in S |-> plan[s][l].toInventory]
  <2>1. S \subseteq DOMAIN plan[s] /\ IsFiniteSet(S)
    BY FS_Subset DEF Of
  <2>2. Landing(s)[a] = SumFunction(part)
    BY DEF Landing, Of
  <2>3. SumFunction(part) = SumFunctionOnSet(part, S)
    BY DEF SumFunction, FoldFunction, SumFunctionOnSet
  <2>4. \A l \in S : part[l] = Parts(plan[s])[l] /\ part[l] \in Int
    BY <2>1 DEF Parts
  <2> HIDE DEF S, part
  <2>5. SumFunctionOnSet(part, S) = SumFunctionOnSet(Parts(plan[s]), S)
    BY <2>1, <2>4, SumsAgree
  <2>6. SumFunctionOnSet(part, S) \in Int
    BY <2>1, <2>4, SumIsInt
  <2> QED BY <2>2, <2>3, <2>5, <2>6 DEF S
<1>2. Landing(s) = [a \in Account |-> Landing(s)[a]]
  BY DEF Landing
<1> QED BY <1>1, <1>2

\* A charge lands.
Lands(p) == Raised(p) /\ \E s \in Session : p = plan[s] /\ Posted("stock", Landing(s))

LEMMA ChargeKeeps ==
  ASSUME NEW s \in Session, StockInv, WriteCharge(s)
  PROVE  StockInv' /\ \E p : Lands(p)
<1> DEFINE p == plan[s]
           paid(l) == lots[l].paid.base + p[l].amount
           left(l) == lots[l].left.base + p[l].toInventory
           row(l) == [lots[l] EXCEPT !.paid.base = paid(l), !.left.base = left(l)]
<1>1. /\ Finish(s) /\ pc[s] = "write" /\ req[s].op = "charge"
      /\ \A l \in Lots : Sound(Charged(s)[l])
      /\ lots' = Charged(s) /\ journal' = Append(journal, Entry("stock", Landing(s)))
  BY DEF WriteCharge
<1>2. Rows /\ LotsAreSound /\ RefundsWithinCost /\ Own(s) /\ AtWork(s)
  BY <1>1 DEF StockInv, Own
<1>3. /\ DOMAIN p \subseteq held[s] /\ DOMAIN p \subseteq Lots
      /\ \A l \in DOMAIN p : /\ p[l].amount \in Nat /\ p[l].toInventory \in Nat /\ p[l].toInventory \in Int
                            /\ p[l].toInventory <= p[l].amount
  BY <1>1, <1>2 DEF AtWork, ChargeReady, IsPreview, Own
<1>4. Lots = 1..Len(lots) /\ Len(lots) \in Nat /\ IsFiniteSet(DOMAIN p) /\ \A l \in Lots : lots[l] \in LotRow
  <2>1. IsFiniteSet(Lots)
    BY <1>2, LotsAre
  <2>2. IsFiniteSet(DOMAIN p)
    BY <1>3, <2>1, FS_Subset
  <2> QED BY <1>2, <2>2, LotsAre
<1> HIDE DEF p
<1>5. ASSUME NEW l \in DOMAIN p
      PROVE  /\ row(l) \in LotRow
             /\ row(l) = [item |-> lots[l].item, shipment |-> lots[l].shipment, day |-> lots[l].day,
                          rate |-> lots[l].rate,
                          paid |-> [quantity |-> lots[l].paid.quantity, cost |-> lots[l].paid.cost,
                                    base |-> paid(l)],
                          left |-> [quantity |-> lots[l].left.quantity, cost |-> lots[l].left.cost,
                                    base |-> left(l)],
                          refunded |-> lots[l].refunded]
  <2>1. paid(l) \in Nat /\ left(l) \in Nat /\ lots[l] \in LotRow
    <3>1. lots[l].paid.base \in Nat /\ lots[l].left.base \in Nat
      BY <1>2, <1>3, LotFigures
    <3> QED BY <1>3, <1>4, <3>1
  <2>2. Nothing \in Figures
    BY DEF Nothing, Figures
  <2> HIDE DEF paid, left
  <2> QED BY <2>1, <2>2, LotChanges
<1>6. lots' = [l \in Lots |-> IF l \in DOMAIN p THEN row(l) ELSE lots[l]]
  BY <1>1 DEF Charged, p
<1>7. lots' \in Seq(LotRow) /\ Lots' = Lots
  <2> HIDE DEF row
  <2>1. \A l \in Lots : (IF l \in DOMAIN p THEN row(l) ELSE lots[l]) \in LotRow
    BY <1>4, <1>5
  <2>2. DOMAIN lots' = Lots /\ lots' \in Seq(LotRow)
    BY <1>4, <1>6, <2>1
  <2> QED BY <2>2 DEF Lots
<1>8. Raised(p)
  <2>1. ASSUME NEW l \in Lots
        PROVE  /\ lots'[l].item = lots[l].item /\ lots'[l].shipment = lots[l].shipment
               /\ lots'[l].left.quantity = lots[l].left.quantity /\ lots'[l].left.cost = lots[l].left.cost
               /\ lots'[l].paid.quantity = lots[l].paid.quantity
               /\ lots'[l].paid.cost = lots[l].paid.cost /\ lots'[l].refunded = lots[l].refunded
               /\ l \notin DOMAIN p => lots'[l] = lots[l]
               /\ l \in DOMAIN p => /\ p[l].toInventory \in Nat /\ p[l].amount \in Nat
                                    /\ p[l].toInventory <= p[l].amount
                                    /\ lots'[l].paid.base = lots[l].paid.base + p[l].amount
                                    /\ lots'[l].left.base = lots[l].left.base + p[l].toInventory
    <3>1. CASE l \in DOMAIN p
      <4>1. lots'[l] = row(l)
        BY <1>6, <3>1
      <4> HIDE DEF row, paid
      <4>2. lots'[l] = [item |-> lots[l].item, shipment |-> lots[l].shipment, day |-> lots[l].day,
                        rate |-> lots[l].rate,
                        paid |-> [quantity |-> lots[l].paid.quantity, cost |-> lots[l].paid.cost,
                                  base |-> paid(l)],
                        left |-> [quantity |-> lots[l].left.quantity, cost |-> lots[l].left.cost,
                                  base |-> left(l)],
                        refunded |-> lots[l].refunded]
        BY <1>5, <3>1, <4>1
      <4>3. paid(l) = lots[l].paid.base + p[l].amount /\ left(l) = lots[l].left.base + p[l].toInventory
        BY DEF paid, left
      <4> HIDE DEF left
      <4> QED BY <1>3, <3>1, <4>2, <4>3
    <3>2. CASE l \notin DOMAIN p
      BY <1>6, <3>2
    <3> QED BY <3>1, <3>2
  <2> HIDE DEF row, paid, left
  <2> QED BY <1>3, <1>4, <1>7, <2>1 DEF Raised
<1>9. Posted("stock", Landing(s))
  <2>1. Landing(s) \in [Account -> Int]
    BY <1>3, <1>4, LandingIs DEF p
  <2> QED BY <1>1, <1>2, <2>1, PostingIsPosted
<1>10. LotsAreSound' /\ RefundsWithinCost'
  <2>1. LotsAreSound'
    BY <1>1, <1>7 DEF LotsAreSound
  <2>2. RefundsWithinCost'
    BY <1>2, <1>8 DEF RefundsWithinCost, Raised
  <2> QED BY <2>1, <2>2
<1>11. SessionTypes' /\ LocksExclude' /\ \A t \in Session : Own(t)'
  <2>1. LotsGrow /\ \A l \in Lots \ held[s] : lots'[l] = lots[l]
    BY <1>3, <1>8 DEF LotsGrow, Raised
  <2> QED BY <1>1, <2>1, FinishKeeps
<1>12. StockInv'
  BY <1>2, <1>7, <1>9, <1>10, <1>11, PostedKeeps DEF StockInv
<1> QED BY <1>8, <1>9, <1>12 DEF Lands, p

\* What a step of the system does to the lots and to the journal.
Arrives ==
  \E r \in Receipts :
    /\ Posted("stock", To(r.item, Convert(r.cost, r.rate)))
    /\ lots' \in Seq(LotRow) /\ Lots' = Lots \cup {Len(lots) + 1} /\ Len(lots) + 1 \notin Lots
    /\ lots'[Len(lots) + 1] = Opened(r) /\ \A l \in Lots : lots'[l] = lots[l]
ByHand == UNCHANGED lots /\ \E amounts \in [Account -> Int] : Posted("hand", amounts)

StockDoes ==
  \/ Arrives
  \/ ByHand
  \/ \E draws : Leaves(draws)
  \/ \E p : Lands(p)
  \/ UNCHANGED <<lots, journal>>

LEMMA StockStepIs ==
  ASSUME StockInv, [StockNext]_stockVars
  PROVE  StockInv' /\ StockDoes
<1>1. CASE Receive
  <2>1. StockInv' /\ lots' \in Seq(LotRow)
    BY <1>1, ReceiveKeeps DEF StockInv, Rows
  <2>2. Arrives
    BY <1>1, <2>1, ReceiveKeeps DEF Arrives
  <2> QED BY <2>1, <2>2 DEF StockDoes
<1>2. CASE PostByHand
  BY <1>2, PostByHandKeeps DEF PostByHand, ByHand, StockDoes
<1>3. CASE ReverseEntry
  BY <1>3, ReverseKeeps DEF ReverseEntry, ByHand, StockDoes
<1>4. CASE \E s \in Session : StockStep(s)
  <2> SUFFICES ASSUME NEW s \in Session, StockStep(s) PROVE StockInv' /\ StockDoes
    BY <1>4
  <2>1. CASE Begin(s)
    BY <2>1, BeginKeeps DEF Begin, StockDoes
  <2>2. CASE Select(s)
    BY <2>2, SelectKeeps DEF Select, StockDoes
  <2>3. CASE LockRow(s)
    BY <2>3, LockRowKeeps DEF LockRow, StockDoes
  <2>4. CASE Locked(s)
    BY <2>4, LockedKeeps DEF Locked, StockDoes
  <2>5. CASE WriteIssue(s)
    BY <2>5, IssueKeeps DEF StockDoes
  <2>6. CASE WriteReturn(s)
    BY <2>6, ReturnKeeps DEF StockDoes
  <2>7. CASE WriteCharge(s)
    BY <2>7, ChargeKeeps DEF StockDoes
  <2>8. CASE Rollback(s)
    BY <2>8, RollbackKeeps DEF Rollback, StockDoes
  <2> QED BY <2>1, <2>2, <2>3, <2>4, <2>5, <2>6, <2>7, <2>8
          DEF StockStep, IssueRefused, ReturnRefused, ChargeRefused, Abort
<1>5. CASE UNCHANGED stockVars
  <2>1. Rows' /\ SessionTypes' /\ LocksExclude' /\ LotsAreSound' /\ RefundsWithinCost'
    BY <1>5 DEF stockVars, StockInv, Rows, SessionTypes, LocksExclude, LotsAreSound, RefundsWithinCost, Lots
  <2>2. ASSUME NEW s \in Session PROVE Own(s)'
    <3>1. LotsGrow /\ (\A l \in held[s] : lots'[l] = lots[l]) /\ Same(s) /\ Own(s)
      BY <1>5 DEF stockVars, LotsGrow, Lots, Same, StockInv
    <3> QED BY <3>1, OthersStand
  <2> QED BY <1>5, <2>1, <2>2 DEF StockInv, StockDoes, stockVars
<1> QED BY <1>1, <1>2, <1>3, <1>4, <1>5 DEF StockNext

LEMMA StockInvariant == StockSpec => []StockInv
<1>1. StockInit => StockInv
  BY StockInitIs
<1>2. StockInv /\ [StockNext]_stockVars => StockInv'
  BY StockStepIs
<1> QED BY <1>1, <1>2, PTL DEF StockSpec

\* The CHECKs of a lot (0017, 0033) hold of every lot at all times, and are never
\* what refuses a receipt, an issue, a write-off or a return: what is left of a
\* lot is a part of what arrived, and its money runs out when it does.
THEOREM LotsAlwaysSound == StockSpec => []LotsAreSound
<1>1. StockInv => LotsAreSound
  BY DEF StockInv
<1> QED BY <1>1, StockInvariant, PTL

\* However many debit notes against one delivery race each other, they give
\* back no more than was paid for it (0033, supplier-returns.ts).
THEOREM RefundsAreCapped == StockSpec => []RefundsWithinCost
<1>1. StockInv => RefundsWithinCost
  BY DEF StockInv
<1> QED BY <1>1, StockInvariant, PTL

(***************************************************************************)
(* The books and the lots.                                                 *)
(***************************************************************************)
HandMade == {n \in DOMAIN journal : journal[n].owner = "hand"}
HeldOn(a) == SumFunctionOnSet(LeftOf("base"), OnAccount(a))

\* An entry adds what it says to the account, and to what was posted by hand if
\* it was.
LEMMA BalanceMoves ==
  ASSUME Rows, NEW owner, NEW amounts \in [Account -> Int], Posted(owner, amounts), NEW a \in Account
  PROVE  /\ Balance(a, DOMAIN journal)' = Balance(a, DOMAIN journal) + amounts[a]
         /\ Balance(a, HandMade)' = Balance(a, HandMade) + (IF owner = "hand" THEN amounts[a] ELSE 0)
         /\ Balance(a, DOMAIN journal) \in Int /\ Balance(a, HandMade) \in Int
<1> DEFINE k == Len(journal) + 1
           D == DOMAIN journal
           H == HandMade
           f == [n \in D |-> journal[n].amounts[a]]
           g == [n \in D \cup {k} |-> journal'[n].amounts[a]]
<1>1. /\ DOMAIN journal' = D \cup {k} /\ k \notin D
      /\ journal'[k].owner = owner /\ journal'[k].amounts = amounts
      /\ \A n \in D : journal'[n].owner = journal[n].owner /\ journal'[n].amounts = journal[n].amounts
  BY DEF Posted
<1>2. IsFiniteSet(D) /\ H \in SUBSET D /\ IsFiniteSet(H)
  <2>1. D = 1..Len(journal) /\ Len(journal) \in Nat
    BY DEF Rows, IsSequence
  <2>2. IsFiniteSet(D)
    BY <2>1, FS_Interval
  <2>3. H \in SUBSET D
    BY DEF HandMade
  <2> QED BY <2>2, <2>3, FS_Subset
<1>3. \A n \in D : journal[n].amounts[a] \in Int
  BY DEF Rows, IsEntry
<1>4. HandMade' = IF owner = "hand" THEN H \cup {k} ELSE H
  BY <1>1 DEF HandMade
<1>5. /\ Balance(a, DOMAIN journal)' = SumFunctionOnSet(g, D \cup {k})
      /\ Balance(a, HandMade)' = SumFunctionOnSet(g, HandMade')
      /\ Balance(a, DOMAIN journal) = SumFunctionOnSet(f, D) /\ Balance(a, HandMade) = SumFunctionOnSet(f, H)
  BY <1>1 DEF Balance
<1>6. /\ \A n \in D : f[n] \in Int /\ g[n] = f[n]
      /\ g[k] = amounts[a] /\ g[k] \in Int
  BY <1>1, <1>3
<1>7. k \notin H /\ \A n \in H : f[n] \in Int /\ g[n] = f[n]
  BY <1>1, <1>2, <1>6
<1> HIDE DEF f, g, D, H, k
<1>8. SumFunctionOnSet(g, D \cup {k}) = SumFunctionOnSet(f, D) + g[k]
  <2>1. IsFiniteSet(D) /\ k \notin D /\ (\A n \in D : f[n] \in Int /\ g[n] = f[n]) /\ g[k] \in Int
    BY <1>1, <1>2, <1>6
  <2> QED BY ONLY <2>1, SumJoins
<1>9. SumFunctionOnSet(g, H \cup {k}) = SumFunctionOnSet(f, H) + g[k]
  <2>1. IsFiniteSet(H) /\ k \notin H /\ (\A n \in H : f[n] \in Int /\ g[n] = f[n]) /\ g[k] \in Int
    BY <1>2, <1>6, <1>7
  <2> QED BY ONLY <2>1, SumJoins
<1>10. SumFunctionOnSet(g, H) = SumFunctionOnSet(f, H)
  <2>1. IsFiniteSet(H) /\ \A n \in H : g[n] = f[n]
    BY <1>2, <1>7
  <2> QED BY ONLY <2>1, SumsAgree
<1>11. SumFunctionOnSet(f, D) \in Int /\ SumFunctionOnSet(f, H) \in Int
  <2>1. SumFunctionOnSet(f, D) \in Int
    BY <1>2, <1>6, SumIsInt
  <2>2. SumFunctionOnSet(f, H) \in Int
    BY <1>2, <1>7, SumIsInt
  <2> QED BY <2>1, <2>2
<1> QED BY <1>4, <1>5, <1>6, <1>8, <1>9, <1>10, <1>11

\* The figures left on lots, whichever they are.
LEMMA LeftAre ==
  ASSUME Rows, LotsAreSound
  PROVE  /\ DOMAIN LeftOf("base") = Lots /\ DOMAIN LeftOf("quantity") = Lots
         /\ \A l \in Lots :
              /\ LeftOf("base")[l] = lots[l].left.base /\ LeftOf("quantity")[l] = lots[l].left.quantity
              /\ LeftOf("base")[l] \in Nat /\ LeftOf("quantity")[l] \in Nat
              /\ LeftOf("base")[l] \in Int /\ LeftOf("quantity")[l] \in Int
<1>1. \A l \in Lots : lots[l].left.base \in Nat /\ lots[l].left.quantity \in Nat
  BY LotFigures
<1> QED BY <1>1 DEF LeftOf

LEMMA HeldIs ==
  ASSUME Rows, LotsAreSound, NEW a
  PROVE  HeldOn(a) \in Int /\ IsFiniteSet(OnAccount(a)) /\ OnAccount(a) \in SUBSET Lots
<1>1. IsFiniteSet(OnAccount(a)) /\ OnAccount(a) \in SUBSET Lots
  BY LotsAre, FS_Subset DEF OnAccount
<1>2. \A l \in OnAccount(a) : LeftOf("base")[l] \in Int
  BY <1>1, LeftAre
<1> QED BY <1>1, <1>2, SumIsInt DEF HeldOn

LEMMA HeldArrives ==
  ASSUME StockInv, StockInv', NEW a \in Account, NEW r \in Receipts, NEW k,
         Lots' = Lots \cup {k}, k \notin Lots, lots'[k] = Opened(r), \A l \in Lots : lots'[l] = lots[l]
  PROVE  HeldOn(a)' = HeldOn(a) + To(r.item, Convert(r.cost, r.rate))[a]
<1> DEFINE base == Convert(r.cost, r.rate)
           f == LeftOf("base")
           g == LeftOf("base")'
           S == OnAccount(a)
<1>1. /\ Opened(r).item = r.item /\ Opened(r).left.base = base
      /\ base \in Nat /\ base \in Int /\ r.item \in Item
  BY OpenedIs
<1>2. To(r.item, base)[a] = IF a = AccountOf[r.item] THEN base ELSE 0
  BY <1>1, AmountsAre
<1> HIDE DEF base
<1>3. IsFiniteSet(S) /\ S \in SUBSET Lots /\ \A l \in Lots : f[l] \in Int /\ g[l] = f[l]
  <2>1. IsFiniteSet(S) /\ S \in SUBSET Lots
    BY HeldIs DEF StockInv
  <2>2. \A l \in Lots : f[l] \in Int /\ f[l] = lots[l].left.base
    BY LeftAre DEF StockInv
  <2>3. \A l \in Lots' : g[l] = lots'[l].left.base
    BY DEF LeftOf, Lots
  <2> HIDE DEF f, g, S
  <2> QED BY <2>1, <2>2, <2>3
<1>4. g[k] = base
  <2>1. k \in Lots'
    OBVIOUS
  <2>2. g[k] = lots'[k].left.base
    BY <2>1 DEF LeftOf, Lots
  <2> QED BY <1>1, <2>2 DEF base
<1>5. OnAccount(a)' = IF a = AccountOf[r.item] THEN S \cup {k} ELSE S
  BY <1>1 DEF OnAccount
<1>6. HeldOn(a) = SumFunctionOnSet(f, S) /\ HeldOn(a)' = SumFunctionOnSet(g, OnAccount(a)')
  BY DEF HeldOn
<1>7. k \notin S /\ \A l \in S : f[l] \in Int /\ g[l] = f[l]
  BY <1>3
<1>8. SumFunctionOnSet(f, S) \in Int
  BY <1>6, HeldIs DEF StockInv
<1> HIDE DEF f, g, S
<1>9. SumFunctionOnSet(g, S \cup {k}) = SumFunctionOnSet(f, S) + g[k]
  <2>1. IsFiniteSet(S) /\ k \notin S /\ (\A l \in S : f[l] \in Int /\ g[l] = f[l]) /\ g[k] \in Int
    BY <1>1, <1>3, <1>4, <1>7 DEF base
  <2> QED BY ONLY <2>1, SumJoins
<1>10. SumFunctionOnSet(g, S) = SumFunctionOnSet(f, S)
  BY <1>3, <1>7, SumsAgree
<1> QED BY <1>2, <1>4, <1>5, <1>6, <1>8, <1>9, <1>10 DEF base

LEMMA HeldLeaves ==
  ASSUME StockInv, NEW a \in Account, NEW draws, Leaves(draws)
  PROVE  HeldOn(a)' = HeldOn(a) + Leaving(draws)[a]
<1> DEFINE f == LeftOf("base")
           g == LeftOf("base")'
           T == OnAccount(a)
           S == Of(DOMAIN draws, a)
           d == [l \in S |-> -draws[l].base]
           b == Bases(draws)
<1>1. /\ DOMAIN draws \subseteq Lots /\ IsFiniteSet(DOMAIN draws) /\ Lots' = Lots
      /\ \A l \in Lots : /\ lots'[l].item = lots[l].item
                         /\ l \notin DOMAIN draws => lots'[l] = lots[l]
                         /\ l \in DOMAIN draws => lots'[l].left = Less(lots[l].left, draws[l])
      /\ \A l \in DOMAIN draws : draws[l].base \in Int
  BY DEF Leaves, Gone
<1>2. IsFiniteSet(T) /\ T \in SUBSET Lots
  BY HeldIs DEF StockInv
<1>3. S \in SUBSET T /\ (\A l \in T \ S : l \notin DOMAIN draws) /\ S \subseteq DOMAIN draws /\ IsFiniteSet(S)
  <2>1. S \in SUBSET T /\ (\A l \in T \ S : l \notin DOMAIN draws) /\ S \subseteq DOMAIN draws
    BY <1>1 DEF Of, OnAccount
  <2> QED BY <1>1, <2>1, FS_Subset
<1>4. OnAccount(a)' = T
  BY <1>1 DEF OnAccount
<1>5. \A l \in Lots : f[l] = lots[l].left.base /\ f[l] \in Int /\ g[l] = lots'[l].left.base
  <2>1. \A l \in Lots : f[l] \in Int /\ f[l] = lots[l].left.base
    BY LeftAre DEF StockInv
  <2>2. \A l \in Lots' : g[l] = lots'[l].left.base
    BY DEF LeftOf, Lots
  <2> HIDE DEF f, g
  <2> QED BY <1>1, <2>1, <2>2
<1>6. \A l \in S : d[l] = -draws[l].base /\ b[l] = draws[l].base /\ b[l] \in Int /\ d[l] = -b[l] /\ d[l] \in Int
  BY <1>1, <1>3 DEF Bases
<1>7. \A l \in DOMAIN draws : lots'[l].left.base = lots[l].left.base - draws[l].base
  <2>1. \A x, y : Less(x, y).base = x.base - y.base
    BY DEF Less
  <2>2. \A l \in DOMAIN draws : lots'[l].left = Less(lots[l].left, draws[l])
    BY <1>1
  <2> QED BY <2>1, <2>2
<1>8. HeldOn(a) = SumFunctionOnSet(f, T) /\ HeldOn(a)' = SumFunctionOnSet(g, T) /\ HeldOn(a) \in Int
  BY <1>4, HeldIs DEF HeldOn, StockInv
<1>9. Leaving(draws)[a] = -SumFunctionOnSet(b, S)
  BY <1>1, LeavingIs
<1> HIDE DEF f, g, T, S, d, b
<1>10. SumFunctionOnSet(g, T) = SumFunctionOnSet(f, T) + SumFunctionOnSet(d, S)
  <2>1. /\ IsFiniteSet(T) /\ S \in SUBSET T /\ \A l \in T : f[l] \in Int
        /\ \A l \in S : d[l] \in Int /\ g[l] = f[l] + d[l]
        /\ \A l \in T \ S : g[l] = f[l]
    <3>1. \A l \in S : g[l] = f[l] + d[l]
      <4> TAKE l \in S
      <4>1. l \in Lots /\ l \in DOMAIN draws
        BY <1>2, <1>3
      <4>2. f[l] = lots[l].left.base /\ g[l] = lots[l].left.base - draws[l].base /\ f[l] \in Int
        BY <1>5, <1>7, <4>1
      <4>3. d[l] = -draws[l].base /\ draws[l].base \in Int
        BY <1>1, <1>6, <4>1
      <4> QED BY <4>2, <4>3
    <3>2. \A l \in T \ S : g[l] = f[l]
      BY <1>1, <1>2, <1>3, <1>5
    <3> QED BY <1>2, <1>3, <1>5, <1>6, <3>1, <3>2
  <2> QED BY ONLY <2>1, SumShifts
<1>11. SumFunctionOnSet(d, S) = -SumFunctionOnSet(b, S)
  <2>1. IsFiniteSet(S) /\ \A l \in S : b[l] \in Int /\ d[l] = -b[l]
    BY <1>3, <1>6
  <2> QED BY ONLY <2>1, SumNegates
<1> QED BY <1>8, <1>9, <1>10, <1>11

LEMMA HeldLands ==
  ASSUME StockInv, NEW a \in Account, NEW s \in Session, Raised(plan[s])
  PROVE  HeldOn(a)' = HeldOn(a) + Landing(s)[a]
<1> DEFINE p == plan[s]
           f == LeftOf("base")
           g == LeftOf("base")'
           T == OnAccount(a)
           S == Of(DOMAIN p, a)
           d == Parts(p)
<1>1. /\ DOMAIN p \subseteq Lots /\ IsFiniteSet(DOMAIN p) /\ Lots' = Lots
      /\ \A l \in Lots : /\ lots'[l].item = lots[l].item
                         /\ l \notin DOMAIN p => lots'[l] = lots[l]
                         /\ l \in DOMAIN p => /\ p[l].toInventory \in Nat
                                              /\ lots'[l].left.base = lots[l].left.base + p[l].toInventory
  BY DEF Raised
<1>2. IsFiniteSet(T) /\ T \in SUBSET Lots
  BY HeldIs DEF StockInv
<1>3. S \in SUBSET T /\ (\A l \in T \ S : l \notin DOMAIN p) /\ S \subseteq DOMAIN p /\ IsFiniteSet(S)
  <2>1. S \in SUBSET T /\ (\A l \in T \ S : l \notin DOMAIN p) /\ S \subseteq DOMAIN p
    BY <1>1 DEF Of, OnAccount
  <2> QED BY <1>1, <2>1, FS_Subset
<1>4. OnAccount(a)' = T
  BY <1>1 DEF OnAccount
<1>5. \A l \in Lots : f[l] = lots[l].left.base /\ f[l] \in Int /\ g[l] = lots'[l].left.base
  <2>1. \A l \in Lots : f[l] \in Int /\ f[l] = lots[l].left.base
    BY LeftAre DEF StockInv
  <2>2. \A l \in Lots' : g[l] = lots'[l].left.base
    BY DEF LeftOf, Lots
  <2> HIDE DEF f, g
  <2> QED BY <1>1, <2>1, <2>2
<1>6. \A l \in S : d[l] = p[l].toInventory /\ d[l] \in Int
  BY <1>1, <1>3 DEF Parts
<1>7. HeldOn(a) = SumFunctionOnSet(f, T) /\ HeldOn(a)' = SumFunctionOnSet(g, T) /\ HeldOn(a) \in Int
  BY <1>4, HeldIs DEF HeldOn, StockInv
<1>8. Landing(s)[a] = SumFunctionOnSet(d, S)
  <2>1. IsFiniteSet(DOMAIN plan[s]) /\ \A l \in DOMAIN plan[s] : plan[s][l].toInventory \in Int
    BY <1>1
  <2> QED BY <2>1, LandingIs
<1> HIDE DEF f, g, T, S, d, p
<1>9. SumFunctionOnSet(g, T) = SumFunctionOnSet(f, T) + SumFunctionOnSet(d, S)
  <2>1. /\ IsFiniteSet(T) /\ S \in SUBSET T /\ \A l \in T : f[l] \in Int
        /\ \A l \in S : d[l] \in Int /\ g[l] = f[l] + d[l]
        /\ \A l \in T \ S : g[l] = f[l]
    <3>1. \A l \in S : g[l] = f[l] + d[l]
      <4> TAKE l \in S
      <4>1. l \in Lots /\ l \in DOMAIN p
        BY <1>2, <1>3
      <4> QED BY <1>1, <1>5, <1>6, <4>1
    <3>2. \A l \in T \ S : g[l] = f[l]
      BY <1>1, <1>2, <1>3, <1>5
    <3> QED BY <1>2, <1>3, <1>5, <1>6, <3>1, <3>2
  <2> QED BY ONLY <2>1, SumShifts
<1> QED BY <1>7, <1>8, <1>9

\* An account holds what its lots do and what was posted to it by hand.
Agrees(a) == Balance(a, DOMAIN journal) - HeldOn(a) = Balance(a, HandMade)

LEMMA StockAgreesIs == StockAgrees <=> \A a \in Account : Agrees(a)
BY DEF StockAgrees, Agrees, HeldOn, HandMade

LEMMA AgreeInit ==
  ASSUME StockInit, NEW a \in Account
  PROVE  Agrees(a)
<1> DEFINE D == DOMAIN Opening
           amount(n) == Convert(Opening[n].cost, Opening[n].rate)
           to(n) == To(Opening[n].item, amount(n))
           f == [n \in D |-> journal[n].amounts[a]]
           g == LeftOf("base")
           T == OnAccount(a)
<1>1. StockInv
  BY StockInitIs
<1>2. \A n \in D : Opening[n] \in Receipts
  BY RequestAssumption
<1>3. /\ lots = [n \in D |-> Opened(Opening[n])] /\ Lots = D
      /\ journal = [n \in D |-> Entry("stock", to(n))]
  BY DEF StockInit, Lots
<1>4. \A n \in D : journal[n].amounts = to(n) /\ journal[n].owner = "stock"
  <2> HIDE DEF to
  <2> QED BY <1>3 DEF Entry
<1>5. ASSUME NEW n \in D
      PROVE  /\ amount(n) \in Int /\ to(n)[a] = IF lots[n].item \in Item /\ AccountOf[lots[n].item] = a THEN amount(n) ELSE 0
             /\ lots[n].left.base = amount(n) /\ lots[n].item \in Item
  <2>1. /\ Opened(Opening[n]).item = Opening[n].item /\ Opened(Opening[n]).left.base = amount(n)
        /\ amount(n) \in Nat /\ amount(n) \in Int /\ Opening[n].item \in Item
    BY <1>2, OpenedIs
  <2>2. lots[n] = Opened(Opening[n])
    BY <1>3
  <2>3. to(n)[a] = IF a = AccountOf[Opening[n].item] THEN amount(n) ELSE 0
    BY <2>1, AmountsAre
  <2> HIDE DEF amount, to
  <2> QED BY <2>1, <2>2, <2>3
<1>6. IsFiniteSet(D) /\ IsFiniteSet(T) /\ T \in SUBSET D /\ HeldOn(a) \in Int
  <2>1. IsFiniteSet(Lots)
    BY <1>1, LotsAre DEF StockInv
  <2> QED BY <1>1, <1>3, <2>1, HeldIs DEF StockInv
<1>7. \A n \in T : g[n] = amount(n)
  <2>1. \A n \in Lots : g[n] = lots[n].left.base
    BY <1>1, LeftAre DEF StockInv
  <2> HIDE DEF g, amount, T
  <2> QED BY <1>3, <1>5, <1>6, <2>1
<1>8. \A n \in D : f[n] = IF n \in T THEN amount(n) ELSE 0
  <2>1. \A n \in D : f[n] = to(n)[a]
    <3> HIDE DEF to
    <3> QED BY <1>4
  <2>2. \A n \in D : n \in T <=> AccountOf[lots[n].item] = a
    BY <1>3 DEF OnAccount
  <2> HIDE DEF f, to, amount, T
  <2> QED BY <1>5, <2>1, <2>2
<1>9. Balance(a, DOMAIN journal) = SumFunctionOnSet(f, D) /\ HeldOn(a) = SumFunctionOnSet(g, T)
  <2>1. DOMAIN journal = D
    BY <1>3
  <2> QED BY <2>1 DEF Balance, HeldOn
<1>10. Balance(a, HandMade) = 0
  <2>1. HandMade = {}
    <3>1. DOMAIN journal = D
      BY <1>3
    <3> QED BY <1>4, <3>1 DEF HandMade
  <2> QED BY <2>1, SumOfNone DEF Balance
<1>11. \A n \in D : amount(n) \in Int
  BY <1>5
<1> HIDE DEF f, g, T, D, amount
<1>12. SumFunctionOnSet(f, D) = SumFunctionOnSet(f, T)
  <2>1. IsFiniteSet(D) /\ T \in SUBSET D /\ (\A n \in D : f[n] \in Int) /\ \A n \in D \ T : f[n] = 0
    BY <1>6, <1>8, <1>11
  <2> QED BY ONLY <2>1, SumOverSupport
<1>13. SumFunctionOnSet(f, T) = SumFunctionOnSet(g, T)
  <2>1. IsFiniteSet(T) /\ \A n \in T : f[n] = g[n]
    BY <1>6, <1>7, <1>8
  <2> QED BY ONLY <2>1, SumsAgree
<1> QED BY <1>6, <1>9, <1>10, <1>12, <1>13 DEF Agrees

LEMMA StepAgrees ==
  ASSUME StockInv, StockInv', StockDoes, NEW a \in Account, Agrees(a)
  PROVE  Agrees(a)'
<1> DEFINE all == Balance(a, DOMAIN journal)
           hand == Balance(a, HandMade)
           there == HeldOn(a)
<1>1. Rows /\ LotsAreSound /\ there \in Int
  BY HeldIs DEF StockInv
<1>2. all - there = hand
  BY DEF Agrees
<1>3. SUFFICES all' - there' = hand'
  BY DEF Agrees
<1> HIDE DEF all, hand, there
<1>4. ASSUME NEW owner, NEW amounts \in [Account -> Int], Posted(owner, amounts)
      PROVE  all' = all + amounts[a] /\ hand' = hand + (IF owner = "hand" THEN amounts[a] ELSE 0)
             /\ all \in Int /\ hand \in Int /\ amounts[a] \in Int
  BY <1>1, <1>4, BalanceMoves DEF all, hand
<1>5. ASSUME NEW amounts \in [Account -> Int], Posted("stock", amounts), there' = there + amounts[a]
      PROVE  all' - there' = hand'
  <2>1. all' = all + amounts[a] /\ hand' = hand + 0 /\ all \in Int /\ hand \in Int /\ amounts[a] \in Int
    BY <1>4, <1>5
  <2> QED BY <1>1, <1>2, <1>5, <2>1
<1>6. CASE Arrives
  <2>1. PICK r \in Receipts :
          /\ Posted("stock", To(r.item, Convert(r.cost, r.rate)))
          /\ Lots' = Lots \cup {Len(lots) + 1} /\ Len(lots) + 1 \notin Lots
          /\ lots'[Len(lots) + 1] = Opened(r) /\ \A l \in Lots : lots'[l] = lots[l]
    BY <1>6 DEF Arrives
  <2>2. there' = there + To(r.item, Convert(r.cost, r.rate))[a]
    BY <2>1, HeldArrives DEF there
  <2>3. To(r.item, Convert(r.cost, r.rate)) \in [Account -> Int]
    <3>1. r.item \in Item /\ Convert(r.cost, r.rate) \in Int
      BY OpenedIs
    <3> QED BY <3>1, AmountsAre
  <2> QED BY <1>5, <2>1, <2>2, <2>3
<1>7. CASE ByHand
  <2>1. PICK amounts \in [Account -> Int] : Posted("hand", amounts)
    BY <1>7 DEF ByHand
  <2>2. there' = there
    BY <1>7 DEF ByHand, there, HeldOn, LeftOf, OnAccount, Lots
  <2>3. all' = all + amounts[a] /\ hand' = hand + amounts[a] /\ all \in Int /\ hand \in Int /\ amounts[a] \in Int
    BY <1>4, <2>1
  <2> QED BY <1>1, <1>2, <2>2, <2>3
<1>8. ASSUME NEW draws, Leaves(draws) PROVE all' - there' = hand'
  <2>1. there' = there + Leaving(draws)[a]
    BY <1>8, HeldLeaves DEF there
  <2>2. Posted("stock", Leaving(draws)) /\ Leaving(draws) \in [Account -> Int]
    BY <1>8, LeavingIs DEF Leaves, Gone
  <2> QED BY <1>5, <2>1, <2>2
<1>9. ASSUME NEW p, Lands(p) PROVE all' - there' = hand'
  <2>1. PICK s \in Session : Raised(plan[s]) /\ Posted("stock", Landing(s))
    BY <1>9 DEF Lands
  <2>2. there' = there + Landing(s)[a]
    BY <2>1, HeldLands DEF there
  <2>3. Landing(s) \in [Account -> Int]
    BY <2>1, LandingIs DEF Raised
  <2> QED BY <1>5, <2>1, <2>2, <2>3
<1>10. CASE UNCHANGED <<lots, journal>>
  <2>1. all' = all /\ hand' = hand /\ there' = there
    BY <1>10 DEF all, hand, there, Balance, HandMade, HeldOn, LeftOf, OnAccount, Lots
  <2> QED BY <1>2, <2>1
<1> QED BY <1>6, <1>7, <1>8, <1>9, <1>10 DEF StockDoes

\* The stock account and the lots agree but for what people posted by hand
\* (reconcile, of inventory.ts): every receipt, draw, charge and return moves
\* the account by what it moves the lots, on whatever rows it was rounded and
\* in whatever order sessions commit.
THEOREM BooksMatchStock == StockSpec => []StockAgrees
<1> DEFINE I == StockInv /\ StockAgrees
<1>1. StockInit => I
  BY StockInitIs, AgreeInit, StockAgreesIs
<1>2. I /\ [StockNext]_stockVars => I'
  <2> SUFFICES ASSUME I, [StockNext]_stockVars PROVE I'
    OBVIOUS
  <2>1. StockInv' /\ StockDoes /\ StockInv
    BY StockStepIs
  <2>2. \A a \in Account : Agrees(a)'
    BY <2>1, StepAgrees, StockAgreesIs
  <2>3. StockAgrees' <=> \A a \in Account : Agrees(a)'
    BY DEF StockAgrees, Agrees, HeldOn, HandMade
  <2> QED BY <2>1, <2>2, <2>3
<1>3. I => StockAgrees
  OBVIOUS
<1> QED BY <1>1, <1>2, <1>3, PTL DEF StockSpec

(***************************************************************************)
(* The lots keep the promise of Shelf.                                     *)
(***************************************************************************)
ShelfIs(i) ==
  /\ IsFiniteSet(LotsOf(i)) /\ LotsOf(i) \in SUBSET Lots
  /\ \A l \in LotsOf(i) :
       /\ LeftOf("quantity")[l] \in Nat /\ LeftOf("base")[l] \in Nat
       /\ LeftOf("quantity")[l] \in Int /\ LeftOf("base")[l] \in Int
       /\ LeftOf("quantity")[l] = lots[l].left.quantity /\ LeftOf("base")[l] = lots[l].left.base
       /\ LeftOf("quantity")[l] = 0 => LeftOf("base")[l] = 0
  /\ OnHand[i] = SumFunctionOnSet(LeftOf("quantity"), LotsOf(i)) /\ OnHand[i] \in Nat
  /\ Value[i] = SumFunctionOnSet(LeftOf("base"), LotsOf(i)) /\ Value[i] \in Nat
  /\ OnHand[i] = 0 => Value[i] = 0

ShelfStands == \A i \in Item : ShelfIs(i)

LEMMA LotsMakeShelf == StockInv => ShelfStands
<1> SUFFICES ASSUME StockInv, NEW i \in Item PROVE ShelfIs(i)
  BY DEF ShelfStands
<1> DEFINE T == LotsOf(i)
           q == LeftOf("quantity")
           b == LeftOf("base")
<1>1. Rows /\ LotsAreSound
  BY DEF StockInv
<1>2. IsFiniteSet(T) /\ T \in SUBSET Lots
  BY <1>1, LotsAre, FS_Subset DEF LotsOf
<1>3. \A l \in T : /\ q[l] \in Nat /\ b[l] \in Nat /\ q[l] \in Int /\ b[l] \in Int
                   /\ q[l] = lots[l].left.quantity /\ b[l] = lots[l].left.base
                   /\ q[l] = 0 => b[l] = 0
  <2>1. \A l \in Lots : lots[l].left.quantity = 0 => lots[l].left.base = 0
    BY <1>1, LotFigures
  <2>2. \A l \in Lots : /\ q[l] \in Nat /\ b[l] \in Nat /\ q[l] \in Int /\ b[l] \in Int
                        /\ q[l] = lots[l].left.quantity /\ b[l] = lots[l].left.base
    BY <1>1, LeftAre
  <2> HIDE DEF T, q, b
  <2> QED BY <1>2, <2>1, <2>2
<1>4. OnHand[i] = SumFunctionOnSet(q, T) /\ Value[i] = SumFunctionOnSet(b, T)
  BY DEF OnHand, Value
<1> HIDE DEF T, q, b
<1>5. SumFunctionOnSet(q, T) \in Nat
  BY <1>2, <1>3, SumIsNat
<1>6. SumFunctionOnSet(b, T) \in Nat
  BY <1>2, <1>3, SumIsNat
<1>7. ASSUME SumFunctionOnSet(q, T) = 0 PROVE SumFunctionOnSet(b, T) = 0
  <2>1. \A l \in T : q[l] = 0
    BY <1>2, <1>3, <1>7, SumIsNothing
  <2>2. \A l \in T : b[l] = 0
    BY <1>3, <2>1
  <2> QED BY <1>2, <2>2, SumOfZeros
<1> QED BY <1>2, <1>3, <1>4, <1>5, <1>6, <1>7 DEF ShelfIs, T, q, b

LEMMA ShelfArrives ==
  ASSUME StockInv, ShelfStands, ShelfStands', Arrives, NEW i \in Item
  PROVE  /\ OnHand'[i] >= OnHand[i] /\ Value'[i] >= Value[i]
         /\ OnHand'[i] = OnHand[i] => Value'[i] = Value[i]
<1> DEFINE T == LotsOf(i)
           q == LeftOf("quantity")
           b == LeftOf("base")
           q1 == LeftOf("quantity")'
           b1 == LeftOf("base")'
           k == Len(lots) + 1
<1>1. PICK r \in Receipts :
        /\ Lots' = Lots \cup {k} /\ k \notin Lots
        /\ lots'[k] = Opened(r) /\ \A l \in Lots : lots'[l] = lots[l]
  BY DEF Arrives
<1>2. /\ Opened(r).item = r.item /\ Opened(r).left.base \in Nat
      /\ Opened(r).left.quantity = r.quantity /\ r.quantity \in Nat \ {0}
  BY OpenedIs
<1>3. ShelfIs(i) /\ ShelfIs(i)'
  BY DEF ShelfStands
<1>4. LotsOf(i)' = IF r.item = i THEN T \cup {k} ELSE T
  BY <1>1, <1>2 DEF LotsOf
<1>5. /\ IsFiniteSet(T) /\ T \in SUBSET Lots /\ k \notin T
      /\ \A l \in T : q[l] \in Int /\ b[l] \in Int
      /\ OnHand[i] = SumFunctionOnSet(q, T) /\ OnHand[i] \in Nat
      /\ Value[i] = SumFunctionOnSet(b, T) /\ Value[i] \in Nat
      /\ OnHand'[i] = SumFunctionOnSet(q1, LotsOf(i)') /\ Value'[i] = SumFunctionOnSet(b1, LotsOf(i)')
  BY <1>1, <1>3 DEF ShelfIs
<1>6. \A l \in Lots : q1[l] = q[l] /\ b1[l] = b[l]
  BY <1>1 DEF LeftOf, Lots
<1>7. q1[k] = r.quantity /\ b1[k] = Opened(r).left.base
  <2>1. k \in Lots'
    BY <1>1
  <2>2. q1[k] = lots'[k].left.quantity /\ b1[k] = lots'[k].left.base
    BY <2>1 DEF LeftOf, Lots
  <2> QED BY <1>1, <1>2, <2>2
<1>8. \A l \in T : q[l] \in Int /\ q1[l] = q[l] /\ b[l] \in Int /\ b1[l] = b[l]
  BY <1>5, <1>6
<1> HIDE DEF T, q, b, q1, b1, k
<1>9. CASE r.item = i
  <2>1. SumFunctionOnSet(q1, T \cup {k}) = SumFunctionOnSet(q, T) + q1[k]
    <3>1. IsFiniteSet(T) /\ k \notin T /\ (\A l \in T : q[l] \in Int /\ q1[l] = q[l]) /\ q1[k] \in Int
      BY <1>2, <1>5, <1>7, <1>8
    <3> QED BY ONLY <3>1, SumJoins
  <2>2. SumFunctionOnSet(b1, T \cup {k}) = SumFunctionOnSet(b, T) + b1[k]
    <3>1. IsFiniteSet(T) /\ k \notin T /\ (\A l \in T : b[l] \in Int /\ b1[l] = b[l]) /\ b1[k] \in Int
      BY <1>2, <1>5, <1>7, <1>8
    <3> QED BY ONLY <3>1, SumJoins
  <2> QED BY <1>2, <1>4, <1>5, <1>7, <1>9, <2>1, <2>2
<1>10. CASE r.item # i
  <2>1. SumFunctionOnSet(q1, T) = SumFunctionOnSet(q, T) /\ SumFunctionOnSet(b1, T) = SumFunctionOnSet(b, T)
    BY <1>5, <1>8, SumsAgree
  <2> QED BY <1>4, <1>5, <1>10, <2>1
<1> QED BY <1>9, <1>10

LEMMA ShelfLeaves ==
  ASSUME StockInv, ShelfStands, ShelfStands', NEW draws, Leaves(draws), NEW i \in Item
  PROVE  /\ OnHand'[i] \in 0..OnHand[i] /\ Value'[i] \in 0..Value[i]
         /\ OnHand'[i] = OnHand[i] => Value'[i] = Value[i]
         /\ OnHand'[i] = 0 => Value'[i] = 0
<1> DEFINE T == LotsOf(i)
           q == LeftOf("quantity")
           b == LeftOf("base")
           q1 == LeftOf("quantity")'
           b1 == LeftOf("base")'
           d == [l \in T |-> q[l] - q1[l]]
<1>1. ShelfIs(i) /\ ShelfIs(i)'
  BY DEF ShelfStands
<1>2. LotsOf(i)' = T
  BY DEF Leaves, Gone, LotsOf
<1>3. /\ IsFiniteSet(T) /\ T \in SUBSET Lots
      /\ \A l \in T : q[l] \in Nat /\ b[l] \in Nat /\ q[l] = lots[l].left.quantity /\ b[l] = lots[l].left.base
      /\ OnHand[i] = SumFunctionOnSet(q, T) /\ OnHand[i] \in Nat
      /\ Value[i] = SumFunctionOnSet(b, T) /\ Value[i] \in Nat
  BY <1>1 DEF ShelfIs
<1>4. /\ \A l \in T : q1[l] \in Nat /\ b1[l] \in Nat /\ q1[l] = lots'[l].left.quantity /\ b1[l] = lots'[l].left.base
      /\ OnHand'[i] = SumFunctionOnSet(q1, T) /\ OnHand'[i] \in Nat
      /\ Value'[i] = SumFunctionOnSet(b1, T) /\ Value'[i] \in Nat
      /\ OnHand'[i] = 0 => Value'[i] = 0
  BY <1>1, <1>2 DEF ShelfIs
<1> HIDE DEF q, b, q1, b1, T
<1>5. ASSUME NEW l \in T
      PROVE  /\ q1[l] <= q[l] /\ b1[l] <= b[l]
             /\ q1[l] = q[l] => b1[l] = b[l]
  <2>1. CASE l \in DOMAIN draws
    <3> DEFINE left == lots[l].left
    <3>1. lots'[l].left = Less(left, draws[l]) /\ IsDraw(draws[l], left)
      BY <1>3, <2>1 DEF Leaves, Gone
    <3>2. draws[l].quantity \in Nat \ {0} /\ draws[l].base \in Nat
      BY <3>1 DEF IsDraw, Figures
    <3>3. Less(left, draws[l]).quantity = left.quantity - draws[l].quantity
          /\ Less(left, draws[l]).base = left.base - draws[l].base
      BY DEF Less
    <3>4. q1[l] = q[l] - draws[l].quantity /\ b1[l] = b[l] - draws[l].base
      BY <1>3, <1>4, <3>1, <3>3
    <3> QED BY <1>3, <3>2, <3>4
  <2>2. CASE l \notin DOMAIN draws
    <3>1. lots'[l] = lots[l]
      BY <1>3, <2>2 DEF Leaves, Gone
    <3> QED BY <1>3, <1>4, <3>1
  <2> QED BY <2>1, <2>2
<1>6. SumFunctionOnSet(q1, T) <= SumFunctionOnSet(q, T)
  <2>1. IsFiniteSet(T) /\ \A l \in T : q1[l] \in Int /\ q[l] \in Int /\ q1[l] <= q[l]
    BY <1>3, <1>4, <1>5
  <2> QED BY ONLY <2>1, SumGrows
<1>7. SumFunctionOnSet(b1, T) <= SumFunctionOnSet(b, T)
  <2>1. IsFiniteSet(T) /\ \A l \in T : b1[l] \in Int /\ b[l] \in Int /\ b1[l] <= b[l]
    BY <1>3, <1>4, <1>5
  <2> QED BY ONLY <2>1, SumGrows
<1>8. ASSUME SumFunctionOnSet(q1, T) = SumFunctionOnSet(q, T)
      PROVE  SumFunctionOnSet(b1, T) = SumFunctionOnSet(b, T)
  <2>1. \A l \in T : d[l] = q[l] - q1[l] /\ d[l] \in Nat /\ d[l] \in Int /\ q1[l] \in Int /\ q[l] = q1[l] + d[l]
    BY <1>3, <1>4, <1>5
  <2> HIDE DEF d
  <2>2. SumFunctionOnSet(q, T) = SumFunctionOnSet(q1, T) + SumFunctionOnSet(d, T)
    BY <1>3, <2>1, SumOfPairs
  <2>3. SumFunctionOnSet(d, T) = 0
    <3>1. SumFunctionOnSet(d, T) \in Nat
      BY <1>3, <2>1, SumIsNat
    <3> QED BY <1>3, <1>8, <2>2, <3>1
  <2>4. \A l \in T : d[l] = 0
    BY <1>3, <2>1, <2>3, SumIsNothing
  <2>5. \A l \in T : b1[l] = b[l]
    BY <1>3, <1>4, <1>5, <2>1, <2>4
  <2> QED BY <1>3, <2>5, SumsAgree
<1> QED BY <1>3, <1>4, <1>6, <1>7, <1>8

LEMMA ShelfLands ==
  ASSUME StockInv, ShelfStands, ShelfStands', NEW p, Raised(p), NEW i \in Item
  PROVE  /\ OnHand'[i] = OnHand[i] /\ Value'[i] >= Value[i]
         /\ OnHand[i] = 0 => Value'[i] = Value[i]
<1> DEFINE T == LotsOf(i)
           q == LeftOf("quantity")
           b == LeftOf("base")
           q1 == LeftOf("quantity")'
           b1 == LeftOf("base")'
<1>1. ShelfIs(i) /\ ShelfIs(i)'
  BY DEF ShelfStands
<1>2. LotsOf(i)' = T
  BY DEF Raised, LotsOf
<1>3. /\ IsFiniteSet(T) /\ T \in SUBSET Lots
      /\ \A l \in T : q[l] \in Nat /\ b[l] \in Nat /\ q[l] = lots[l].left.quantity /\ b[l] = lots[l].left.base
      /\ OnHand[i] = SumFunctionOnSet(q, T) /\ OnHand[i] \in Nat
      /\ Value[i] = SumFunctionOnSet(b, T) /\ Value[i] \in Nat
      /\ OnHand[i] = 0 => Value[i] = 0
  BY <1>1 DEF ShelfIs
<1>4. /\ \A l \in T : q1[l] \in Nat /\ b1[l] \in Nat /\ q1[l] = lots'[l].left.quantity /\ b1[l] = lots'[l].left.base
      /\ OnHand'[i] = SumFunctionOnSet(q1, T) /\ OnHand'[i] \in Nat
      /\ Value'[i] = SumFunctionOnSet(b1, T) /\ Value'[i] \in Nat
      /\ OnHand'[i] = 0 => Value'[i] = 0
  BY <1>1, <1>2 DEF ShelfIs
<1> HIDE DEF q, b, q1, b1, T
<1>5. ASSUME NEW l \in T PROVE q1[l] = q[l] /\ b[l] <= b1[l]
  <2>1. l \in Lots /\ lots'[l].left.quantity = lots[l].left.quantity
    BY <1>3 DEF Raised
  <2>2. CASE l \in DOMAIN p
    <3>1. p[l].toInventory \in Nat /\ lots'[l].left.base = lots[l].left.base + p[l].toInventory
      BY <2>1, <2>2 DEF Raised
    <3> QED BY <1>3, <1>4, <2>1, <3>1
  <2>3. CASE l \notin DOMAIN p
    <3>1. lots'[l] = lots[l]
      BY <2>1, <2>3 DEF Raised
    <3> QED BY <1>3, <1>4, <3>1
  <2> QED BY <2>2, <2>3
<1>6. SumFunctionOnSet(q1, T) = SumFunctionOnSet(q, T)
  BY <1>3, <1>5, SumsAgree
<1>7. SumFunctionOnSet(b, T) <= SumFunctionOnSet(b1, T)
  <2>1. IsFiniteSet(T) /\ \A l \in T : b[l] \in Int /\ b1[l] \in Int /\ b[l] <= b1[l]
    BY <1>3, <1>4, <1>5
  <2> QED BY ONLY <2>1, SumGrows
<1> QED BY <1>3, <1>4, <1>6, <1>7

LEMMA StepKeepsPromise ==
  ASSUME StockInv, ShelfStands, ShelfStands', StockDoes
  PROVE  [Promise!Next]_(Promise!shelf)
<1>1. DOMAIN OnHand' = Item /\ DOMAIN Value' = Item /\ DOMAIN OnHand = Item /\ DOMAIN Value = Item
  BY DEF OnHand, Value
<1>2. CASE Arrives
  <2>1. Promise!Arrive
    BY <1>2, ShelfArrives DEF Promise!Arrive
  <2> QED BY <1>1, <2>1 DEF Promise!Next
<1>3. ASSUME NEW draws, Leaves(draws) PROVE [Promise!Next]_(Promise!shelf)
  <2>1. Promise!Leave
    BY <1>3, ShelfLeaves DEF Promise!Leave
  <2> QED BY <1>1, <2>1 DEF Promise!Next
<1>4. ASSUME NEW p, Lands(p) PROVE [Promise!Next]_(Promise!shelf)
  <2>1. \A i \in Item : /\ OnHand'[i] = OnHand[i] /\ Value'[i] >= Value[i]
                        /\ OnHand[i] = 0 => Value'[i] = Value[i]
    BY <1>4, ShelfLands DEF Lands
  <2>2. OnHand' = OnHand
    <3>1. OnHand' = [i \in Item |-> OnHand'[i]] /\ OnHand = [i \in Item |-> OnHand[i]]
      BY DEF OnHand
    <3> QED BY <2>1, <3>1
  <2>3. Promise!Land
    BY <2>1, <2>2 DEF Promise!Land
  <2> QED BY <1>1, <2>3 DEF Promise!Next
<1>5. CASE UNCHANGED lots
  BY <1>5 DEF Promise!shelf, OnHand, Value, LeftOf, LotsOf, Lots
<1> QED BY <1>2, <1>3, <1>4, <1>5 DEF StockDoes, ByHand

\* The lots, the methods, the locks and the roundings keep the promise of the
\* shelf: nothing leaves that is not there, the last of an item takes all its
\* value with it, and a charge adds value only to what is there.
THEOREM StockKeepsShelf == StockSpec => ShelfSpec
<1>1. StockInit => Promise!Init
  <2> SUFFICES ASSUME StockInit PROVE Promise!Init
    OBVIOUS
  <2>1. ShelfStands
    BY StockInitIs, LotsMakeShelf
  <2>2. OnHand = [i \in Item |-> OnHand[i]] /\ Value = [i \in Item |-> Value[i]]
    BY DEF OnHand, Value
  <2> QED BY <2>1, <2>2 DEF Promise!Init, ShelfStands, ShelfIs
<1>2. StockInv /\ ShelfStands /\ ShelfStands' /\ [StockNext]_stockVars => [Promise!Next]_(Promise!shelf)
  BY StockStepIs, StepKeepsPromise
<1>3. StockInv => ShelfStands
  BY LotsMakeShelf
<1> QED BY <1>1, <1>2, <1>3, StockInvariant, PTL DEF StockSpec, ShelfSpec, Promise!Spec

(***************************************************************************)
(* Invoices and credit notes.                                              *)
(***************************************************************************)
FigureNames == {"quantity", "cost", "base"}

\* A line sold has shipped its quantity, and what it charged nothing for brought
\* no revenue.
IsSold(sold) ==
  /\ sold.quantity \in Nat \ {0} /\ sold.amount \in Nat /\ sold.revenue \in Nat
  /\ sold.amount = 0 => sold.revenue = 0
  /\ IsFiniteSet(DOMAIN sold.draws) /\ DOMAIN sold.draws \subseteq Lots
  /\ \A l \in DOMAIN sold.draws : sold.draws[l] \in Figures /\ sold.draws[l].quantity > 0
  /\ SumOf(sold.draws, "quantity") = sold.quantity

IsInvoice(sale) ==
  /\ sale.net \in Nat \ {0} /\ sale.tax \in Nat /\ sale.baseTax \in Nat
  /\ sale.rate \in Nat /\ sale.taxRate \in Nat
  /\ IsFiniteSet(DOMAIN sale.lines)
  /\ \A k \in DOMAIN sale.lines : IsSold(sale.lines[k])

\* A line of a note against the invoice n.
IsCredited(n, line) ==
  /\ line.line \in DOMAIN sales[n].lines
  /\ line.quantity \in Int /\ line.amount \in Int /\ line.revenue \in Int
  /\ DOMAIN line.restored \subseteq DOMAIN sales[n].lines[line.line].draws
  /\ \A l \in DOMAIN line.restored : line.restored[l] \in Figures

IsNote(note) ==
  /\ note.sale \in DOMAIN sales
  /\ note.net \in Int /\ note.tax \in Int /\ note.baseTax \in Int
  /\ IsFiniteSet(DOMAIN note.lines)
  /\ \A i \in DOMAIN note.lines : IsCredited(note.sale, note.lines[i])

Sold == UNION {{n} \X DOMAIN sales[n].lines : n \in DOMAIN sales}

Documents ==
  /\ IsSequence(sales) /\ IsSequence(notes)
  /\ IsFiniteSet(Sold) /\ IsFiniteSet(NoteLines(notes))
  /\ \A n \in DOMAIN sales : IsInvoice(sales[n])
  /\ \A m \in DOMAIN notes : IsNote(notes[m])

\* What of a lot's goods a line sold has still out.
Out(n, k, l) == Less(DrawOf(sales[n].lines[k].draws, l), Restored(n, k, l, notes))

\* The accounts of an invoice and of its lines.
LineSettled(n, k) ==
  LET sold == sales[n].lines[k]
      back == [l \in DOMAIN sold.draws |-> Restored(n, k, l, notes).quantity]
  IN  /\ Credited(n, k, "quantity", notes) <= sold.quantity
      /\ Settles(Credited(n, k, "revenue", notes), sold.revenue,
                 Credited(n, k, "amount", notes), sold.amount)
      /\ SumFunction(back) = Credited(n, k, "quantity", notes)
      /\ \A l \in DOMAIN sold.draws :
           Out(n, k, l) \in Figures /\ (Out(n, k, l).quantity = 0 => Out(n, k, l) = Nothing)

NetSettled(n) ==
  LET net == CreditedInAll(n, "net", notes)
  IN  /\ net <= sales[n].net
      /\ Settles(CreditedInAll(n, "tax", notes), sales[n].tax, net, sales[n].net)
      /\ Settles(CreditedInAll(n, "baseTax", notes), sales[n].baseTax, net, sales[n].net)

Settled ==
  \A n \in DOMAIN sales : NetSettled(n) /\ \A k \in DOMAIN sales[n].lines : LineSettled(n, k)

\* A lot has given at least what the lines sold have of it.
OutOf(l, x) == SumFunctionOnSet([p \in Sold |-> Out(p[1], p[2], l)[x]], Sold)
Covered(l) == \A x \in FigureNames : OutOf(l, x) <= lots[l].paid[x] - lots[l].left[x]

\* What a credit note has read of the others, and has locked of what it returns.
Alike(n, ns, ms) ==
  NotesOf(n, ns) = NotesOf(n, ms) /\ \A m \in NotesOf(n, ns) : ns[m] = ms[m]
Ahead(q) == UNION {q[j].lots : j \in DOMAIN q}
GivenBack(r) ==
  UNION {DOMAIN sales[r.sale].lines[r.lines[i].line].draws : i \in {i \in DOMAIN r.lines : r.lines[i].quantity > 0}}

IsClaim(r) ==
  /\ r.sale \in DOMAIN sales /\ r.lines \in Seq(CreditLines)
  /\ \A i \in DOMAIN r.lines : r.lines[i].line \in DOMAIN sales[r.sale].lines
  /\ \A i, j \in DOMAIN r.lines : r.lines[i].line = r.lines[j].line => i = j

CreditReady(s) ==
  /\ IsClaim(req[s])
  /\ pc[s] \in {"select", "lock"} => \A j \in DOMAIN todo[s] : todo[s][j].by = "lots"
  /\ pc[s] # "sale" => Alike(req[s].sale, plan[s], notes)
  /\ pc[s] = "select" => GivenBack(req[s]) \subseteq held[s] \cup Ahead(todo[s])
  /\ pc[s] = "lock" => GivenBack(req[s]) \subseteq held[s] \cup want[s] \cup Ahead(Tail(todo[s]))
  /\ pc[s] = "write" => GivenBack(req[s]) \subseteq held[s]

Sells(s) ==
  pc[s] # "idle" =>
    /\ pc[s] = "sale" => req[s].op = "credit"
    /\ req[s].op = "sell" => req[s] \in Request
    /\ req[s].op = "credit" => CreditReady(s)

SalesExclude ==
  \A s, t \in Session : s # t => ~(Holds(s, req[s].sale) /\ Holds(t, req[s].sale))

SaleInv ==
  /\ Documents /\ Settled /\ (\A l \in Lots : Covered(l))
  /\ (\A s \in Session : Sells(s)) /\ SalesExclude

(***************************************************************************)
(* The recursions of Sales, which go up the natural numbers.               *)
(***************************************************************************)
LEMMA GoingUp ==
  ASSUME NEW N \in Nat, NEW G, 0 \in G, \A n \in 1..N : n - 1 \in G => n \in G
  PROVE  \A n \in 0..N : n \in G
<1> DEFINE Bad == {n \in 0..N : n \notin G}
<1> SUFFICES ASSUME Bad # {} PROVE FALSE
  OBVIOUS
<1>1. PICK m \in Bad : \A n \in Bad : m <= n
  <2>1. Bad \in SUBSET Nat
    OBVIOUS
  <2> HIDE DEF Bad
  <2> QED BY <2>1, LeastNatural
<1>2. m \in 1..N /\ m - 1 \in 0..N /\ m - 1 \notin Bad
  BY <1>1
<1> QED BY <1>1, <1>2

\* The elements of a sequence at some positions are a sequence of them all.
LEMMA AtIs ==
  ASSUME NEW X, NEW q \in Seq(X), NEW P
  PROVE  /\ At(q, P) \in Seq(X)
         /\ \A j \in DOMAIN At(q, P) : \E k \in DOMAIN q \cap P : At(q, P)[j] = q[k]
         /\ \A k \in DOMAIN q \cap P : \E j \in DOMAIN At(q, P) : At(q, P)[j] = q[k]
<1> DEFINE L == Len(q)
           step(f, n) == IF n = 0 THEN <<>> ELSE IF n \in P THEN Append(f[n - 1], q[n]) ELSE f[n - 1]
           Solved(f, m) == f = [n \in 0..m |-> step(f, n)]
           kept == CHOOSE f : Solved(f, L)
<1>1. L \in Nat /\ DOMAIN q = 1..L /\ \A n \in 1..L : q[n] \in X
  OBVIOUS
<1>2. \E f : Solved(f, L)
  <2> DEFINE G == {m \in 0..L : \E f : Solved(f, m)}
  <2>1. 0 \in G
    <3> DEFINE f == [n \in 0..0 |-> <<>>]
    <3>1. Solved(f, 0)
      OBVIOUS
    <3> HIDE DEF Solved
    <3> QED BY <1>1, <3>1
  <2>2. ASSUME NEW m \in 1..L, m - 1 \in G PROVE m \in G
    <3>1. PICK f : Solved(f, m - 1)
      BY <2>2
    <3> DEFINE g == [n \in 0..m |-> IF n = m THEN step(f, m) ELSE f[n]]
    <3>2. ASSUME NEW n \in 0..m PROVE g[n] = step(g, n)
      <4>1. CASE n = m
        <5>1. g[n] = step(f, m) /\ m - 1 \in 0..m /\ m - 1 # m
          BY <1>1, <4>1
        <5>2. g[m - 1] = f[m - 1]
          BY <5>1
        <5> HIDE DEF g
        <5> QED BY <4>1, <5>1, <5>2
      <4>2. CASE n # m
        <5>0. m \in Nat /\ n \in 0..(m - 1)
          BY <1>1, <4>2
        <5>1. g[n] = f[n] /\ f[n] = step(f, n)
          BY <3>1, <4>2, <5>0
        <5>2. n # 0 => g[n - 1] = f[n - 1]
          BY <1>1, <4>2
        <5> HIDE DEF g
        <5> QED BY <5>1, <5>2
      <4> QED BY <4>1, <4>2
    <3>3. g = [n \in 0..m |-> g[n]]
      OBVIOUS
    <3>4. Solved(g, m)
      <4> HIDE DEF g
      <4> QED BY <3>2, <3>3
    <3> HIDE DEF Solved
    <3> QED BY <3>4
  <2> HIDE DEF Solved
  <2>3. 0 \in G /\ \A n \in 1..L : n - 1 \in G => n \in G
    BY <2>1, <2>2
  <2>4. \A n \in 0..L : n \in G
    <3> HIDE DEF G
    <3> QED BY <1>1, <2>3, GoingUp
  <2> QED BY <1>1, <2>4
<1>3. Solved(kept, L)
  <2> HIDE DEF Solved
  <2> QED BY <1>2
<1>4. At(q, P) = kept[L]
  BY DEF At
<1>5. \A n \in 0..L : kept[n] = step(kept, n)
  BY <1>3
<1> HIDE DEF kept, L
<1> DEFINE Right(n) == /\ kept[n] \in Seq(X)
                       /\ \A j \in DOMAIN kept[n] : \E k \in 1..n : k \in P /\ kept[n][j] = q[k]
                       /\ \A k \in 1..n : k \in P => \E j \in DOMAIN kept[n] : kept[n][j] = q[k]
           R == {n \in 0..L : Right(n)}
<1>6. Right(0)
  <2>1. kept[0] = <<>> /\ 1..0 = {}
    BY <1>1, <1>5
  <2> QED BY <2>1
<1>7. ASSUME NEW n \in 1..L, Right(n - 1) PROVE Right(n)
  <2> DEFINE s == kept[n - 1]
  <2>1. /\ s \in Seq(X)
        /\ \A j \in DOMAIN s : \E k \in 1..(n - 1) : k \in P /\ s[j] = q[k]
        /\ \A k \in 1..(n - 1) : k \in P => \E j \in DOMAIN s : s[j] = q[k]
    BY <1>7
  <2>2. kept[n] = IF n \in P THEN Append(s, q[n]) ELSE s
    BY <1>1, <1>5
  <2>3. q[n] \in X /\ 1..n = 1..(n - 1) \cup {n}
    BY <1>1
  <2> HIDE DEF s
  <2>4. CASE n \in P
    <3> DEFINE t == Append(s, q[n])
    <3>1. /\ t \in Seq(X) /\ DOMAIN t = DOMAIN s \cup {Len(s) + 1}
          /\ t[Len(s) + 1] = q[n] /\ \A j \in DOMAIN s : t[j] = s[j]
      BY <2>1, <2>3
    <3>2. kept[n] = t
      BY <2>2, <2>4
    <3> HIDE DEF t
    <3>3. ASSUME NEW j \in DOMAIN t PROVE \E k \in 1..n : k \in P /\ t[j] = q[k]
      BY <2>1, <2>3, <2>4, <3>1
    <3>4. ASSUME NEW k \in 1..n, k \in P PROVE \E j \in DOMAIN t : t[j] = q[k]
      <4>1. CASE k = n
        BY <3>1, <4>1
      <4>2. CASE k \in 1..(n - 1)
        <5>1. PICK j \in DOMAIN s : s[j] = q[k]
          BY <2>1, <3>4, <4>2
        <5> QED BY <3>1, <5>1
      <4> QED BY <2>3, <4>1, <4>2
    <3> QED BY <3>1, <3>2, <3>3, <3>4
  <2>5. CASE n \notin P
    <3>1. kept[n] = s
      BY <2>2, <2>5
    <3> QED BY <2>1, <2>3, <2>5, <3>1
  <2> QED BY <2>4, <2>5
<1>8. Right(L)
  <2> HIDE DEF Right
  <2>1. L \in Nat /\ 0 \in R /\ \A n \in 1..L : n - 1 \in R => n \in R
    BY <1>1, <1>6, <1>7
  <2>2. \A n \in 0..L : n \in R
    <3> HIDE DEF R
    <3> QED BY ONLY <2>1, GoingUp
  <2> QED BY <1>1, <2>2
<1> QED BY <1>1, <1>4, <1>8

(***************************************************************************)
(* Figures, and draws in all.                                              *)
(***************************************************************************)
LEMMA FigureIs ==
  /\ \A f \in Figures, x \in FigureNames : f[x] \in Nat
  /\ \A f, g, x : x \in FigureNames => Less(f, g)[x] = f[x] - g[x] /\ Plus(f, g)[x] = f[x] + g[x]
  /\ Nothing \in Figures /\ \A x \in FigureNames : Nothing[x] = 0
BY DEF Figures, FigureNames, Less, Plus, Nothing

LEMMA LessIsFigures ==
  ASSUME NEW f \in Figures, NEW g \in Figures
  PROVE  /\ (\A x \in FigureNames : g[x] <= f[x]) => Less(f, g) \in Figures
         /\ Plus(f, g) \in Figures /\ Less(f, Nothing) = f /\ Plus(f, Nothing) = f
<1>1. /\ f.quantity \in Nat /\ f.cost \in Nat /\ f.base \in Nat
      /\ g.quantity \in Nat /\ g.cost \in Nat /\ g.base \in Nat
      /\ f = [quantity |-> f.quantity, cost |-> f.cost, base |-> f.base]
  BY DEF Figures
<1>2. (\A x \in FigureNames : g[x] <= f[x]) => Less(f, g) \in Figures
  BY <1>1 DEF Figures, FigureNames, Less
<1>3. Plus(f, g) \in Figures
  BY <1>1 DEF Figures, Plus
<1>4. Less(f, Nothing) = f /\ Plus(f, Nothing) = f
  BY <1>1 DEF Less, Plus, Nothing
<1> QED BY <1>2, <1>3, <1>4

\* Figures summed one by one.
Each(figures, x) == [n \in DOMAIN figures |-> figures[n][x]]

LEMMA TotalIs ==
  ASSUME NEW figures
  PROVE  \A x \in FigureNames : Total(figures)[x] = SumFunctionOnSet(Each(figures, x), DOMAIN figures)
<1>1. \A x : SumOf(figures, x) = SumFunctionOnSet(Each(figures, x), DOMAIN figures)
  BY DEF SumOf, Each, SumFunction, FoldFunction, SumFunctionOnSet
<1> QED BY <1>1 DEF Total, FigureNames

LEMMA TotalIsFigures ==
  ASSUME NEW figures, IsFiniteSet(DOMAIN figures), \A n \in DOMAIN figures : figures[n] \in Figures
  PROVE  Total(figures) \in Figures
<1>1. ASSUME NEW x \in FigureNames PROVE Total(figures)[x] \in Nat
  <2>1. \A n \in DOMAIN figures : Each(figures, x)[n] \in Nat
    BY FigureIs DEF Each
  <2>2. SumFunctionOnSet(Each(figures, x), DOMAIN figures) \in Nat
    BY <2>1, SumIsNat
  <2> QED BY <2>2, TotalIs
<1> QED BY <1>1 DEF Total, FigureNames, Figures

\* Draws, and nothing where there is none.
AreDraws(draws) == \A l \in DOMAIN draws : draws[l] \in Figures
DrawsOf(many, l) == [k \in DOMAIN many |-> DrawOf(many[k], l)]
PartsOf(many, l, x) == [k \in DOMAIN many |-> DrawOf(many[k], l)[x]]

LEMMA DrawOfIs ==
  ASSUME NEW draws, AreDraws(draws), NEW l
  PROVE  DrawOf(draws, l) \in Figures /\ (l \notin DOMAIN draws => DrawOf(draws, l) = Nothing)
BY FigureIs DEF DrawOf, AreDraws

LEMMA InAllIs ==
  ASSUME NEW many, IsFiniteSet(DOMAIN many), \A k \in DOMAIN many : AreDraws(many[k])
  PROVE  /\ DOMAIN InAll(many) = UNION {DOMAIN many[k] : k \in DOMAIN many}
         /\ AreDraws(InAll(many))
         /\ InAll(many) = [l \in DOMAIN InAll(many) |-> InAll(many)[l]]
         /\ \A l : DrawOf(InAll(many), l) = Total(DrawsOf(many, l))
         /\ \A l : \A x \in FigureNames :
              DrawOf(InAll(many), l)[x] = SumFunctionOnSet(PartsOf(many, l, x), DOMAIN many)
<1> DEFINE D == UNION {DOMAIN many[k] : k \in DOMAIN many}
           I == InAll(many)
<1>1. I = [l \in D |-> Total(DrawsOf(many, l))]
  BY DEF InAll, DrawsOf
<1>2. ASSUME NEW l
      PROVE  /\ Total(DrawsOf(many, l)) \in Figures
             /\ \A x \in FigureNames :
                  Total(DrawsOf(many, l))[x] = SumFunctionOnSet(PartsOf(many, l, x), DOMAIN many)
  <2>1. DOMAIN DrawsOf(many, l) = DOMAIN many /\ \A k \in DOMAIN many : DrawsOf(many, l)[k] \in Figures
    BY DrawOfIs DEF DrawsOf
  <2>2. Total(DrawsOf(many, l)) \in Figures
    BY <2>1, TotalIsFigures
  <2>3. \A x \in FigureNames :
          Each(DrawsOf(many, l), x) = PartsOf(many, l, x)
    BY DEF Each, DrawsOf, PartsOf
  <2> QED BY <2>1, <2>2, <2>3, TotalIs
<1>3. ASSUME NEW l, l \notin D PROVE Total(DrawsOf(many, l)) = Nothing
  <2>1. \A k \in DOMAIN many : DrawOf(many[k], l) = Nothing
    BY <1>3 DEF DrawOf
  <2>2. ASSUME NEW x \in FigureNames PROVE Total(DrawsOf(many, l))[x] = 0
    <3> DEFINE f == PartsOf(many, l, x)
    <3>1. \A k \in DOMAIN many : f[k] = 0
      BY <2>1, FigureIs DEF PartsOf
    <3> HIDE DEF f
    <3>2. SumFunctionOnSet(f, DOMAIN many) = 0
      BY <3>1, SumOfZeros
    <3> QED BY <1>2, <3>2 DEF f
  <2> QED BY <2>2 DEF Total, FigureNames, Nothing
<1>4. \A l : DrawOf(I, l) = Total(DrawsOf(many, l))
  BY <1>1, <1>3 DEF DrawOf
<1>5. DOMAIN I = D /\ AreDraws(I) /\ I = [l \in DOMAIN I |-> I[l]]
  BY <1>1, <1>2 DEF AreDraws
<1> HIDE DEF I, D
<1>6. \A l : \A x \in FigureNames :
        DrawOf(I, l)[x] = SumFunctionOnSet(PartsOf(many, l, x), DOMAIN many)
  BY <1>2, <1>4
<1> QED BY <1>4, <1>5, <1>6 DEF I, D

\* The lots after each line are what the lines before it leave.
LEMMA OpensIs ==
  ASSUME NEW open, NEW X, NEW q \in Seq(X)
  PROVE  LET O == Opens(open, q)
         IN  O[0] = open /\ \A n \in 1..Len(q) : O[n] = AfterDraws(O[n - 1], LineDraws(O[n - 1], q[n]))
<1> DEFINE L == Len(q)
           go(o, n) == AfterDraws(o, LineDraws(o, q[n]))
           step(f, n) == IF n = 0 THEN open ELSE go(f[n - 1], n)
           Solved(f, m) == f = [n \in 0..m |-> step(f, n)]
           after == CHOOSE f : Solved(f, L)
<1>1. L \in Nat
  OBVIOUS
<1>2. Opens(open, q) = after
  BY DEF Opens
<1> HIDE DEF go
<1>3. \E f : Solved(f, L)
  <2> DEFINE G == {m \in 0..L : \E f : Solved(f, m)}
  <2>1. 0 \in G
    <3> DEFINE f == [n \in 0..0 |-> open]
    <3>1. Solved(f, 0)
      OBVIOUS
    <3> HIDE DEF Solved
    <3> QED BY <1>1, <3>1
  <2>2. ASSUME NEW m \in 1..L, m - 1 \in G PROVE m \in G
    <3>1. PICK f : Solved(f, m - 1)
      BY <2>2
    <3> DEFINE g == [n \in 0..m |-> IF n = m THEN step(f, m) ELSE f[n]]
    <3>2. ASSUME NEW n \in 0..m PROVE g[n] = step(g, n)
      <4>1. CASE n = m
        <5>1. g[n] = step(f, m) /\ m - 1 \in 0..m /\ m - 1 # m
          BY <1>1, <4>1
        <5>2. g[m - 1] = f[m - 1]
          BY <5>1
        <5> HIDE DEF g
        <5> QED BY <4>1, <5>1, <5>2
      <4>2. CASE n # m
        <5>0. m \in Nat /\ n \in 0..(m - 1)
          BY <1>1, <4>2
        <5>1. g[n] = f[n] /\ f[n] = step(f, n)
          BY <3>1, <4>2, <5>0
        <5>2. n # 0 => g[n - 1] = f[n - 1]
          BY <1>1, <4>2
        <5> HIDE DEF g
        <5> QED BY <5>1, <5>2
      <4> QED BY <4>1, <4>2
    <3>3. g = [n \in 0..m |-> g[n]]
      OBVIOUS
    <3>4. Solved(g, m)
      <4> HIDE DEF g
      <4> QED BY <3>2, <3>3
    <3> HIDE DEF Solved
    <3> QED BY <3>4
  <2> HIDE DEF Solved
  <2>3. 0 \in G /\ \A n \in 1..L : n - 1 \in G => n \in G
    BY <2>1, <2>2
  <2>4. \A n \in 0..L : n \in G
    <3> HIDE DEF G
    <3> QED BY <1>1, <2>3, GoingUp
  <2> QED BY <1>1, <2>4
<1>4. Solved(after, L)
  <2> HIDE DEF Solved
  <2> QED BY <1>3
<1>5. \A n \in 0..L : after[n] = step(after, n)
  BY <1>4
<1>6. after[0] = open /\ \A n \in 1..L : after[n] = go(after[n - 1], n)
  <2> HIDE DEF after
  <2>1. \A n \in 1..L : n \in 0..L /\ n # 0
    BY <1>1
  <2>2. 0 \in 0..L
    BY <1>1
  <2> QED BY <1>5, <2>1, <2>2
<1> HIDE DEF after
<1> QED BY <1>2, <1>6 DEF go

\* Rows of lots, whose money runs out when they do.
AreRows(open) ==
  /\ IsFiniteSet(DOMAIN open) /\ DOMAIN open \subseteq Nat
  /\ \A l \in DOMAIN open : open[l] \in LotRow /\ (open[l].left.quantity = 0 => open[l].left = Nothing)

LEMMA DrawsLeaveRows ==
  ASSUME NEW open, AreRows(open), NEW draws, DOMAIN draws \subseteq DOMAIN open,
         \A l \in DOMAIN draws : IsDraw(draws[l], open[l].left)
  PROVE  LET next == AfterDraws(open, draws)
         IN  /\ AreRows(next) /\ DOMAIN next = DOMAIN open
             /\ \A l \in DOMAIN open : next[l].item = open[l].item
                                       /\ next[l].left = Less(open[l].left, DrawOf(draws, l))
<1> DEFINE next == AfterDraws(open, draws)
<1>1. next = [l \in DOMAIN open |-> IF l \in DOMAIN draws
                                    THEN [open[l] EXCEPT !.left = Less(open[l].left, draws[l])] ELSE open[l]]
  BY DEF AfterDraws
<1>2. ASSUME NEW l \in DOMAIN open
      PROVE  /\ next[l] \in LotRow /\ (next[l].left.quantity = 0 => next[l].left = Nothing)
             /\ next[l].item = open[l].item /\ next[l].left = Less(open[l].left, DrawOf(draws, l))
  <2>1. open[l] \in LotRow /\ open[l].left \in Figures /\ (open[l].left.quantity = 0 => open[l].left = Nothing)
    BY DEF AreRows, LotRow
  <2>2. CASE l \notin DOMAIN draws
    <3>1. next[l] = open[l] /\ DrawOf(draws, l) = Nothing
      BY <1>1, <2>2 DEF DrawOf
    <3>2. Less(open[l].left, Nothing) = open[l].left
      BY <2>1, LessIsFigures
    <3> QED BY <2>1, <3>1, <3>2
  <2>3. CASE l \in DOMAIN draws
    <3> DEFINE row == open[l]
               rest == Less(row.left, draws[l])
    <3>1. IsDraw(draws[l], row.left) /\ rest \in Figures
      BY <2>3 DEF IsDraw
    <3>2. next[l] = [row EXCEPT !.left = rest] /\ DrawOf(draws, l) = draws[l]
      BY <1>1, <2>3 DEF DrawOf
    <3>3. rest.quantity = 0 => rest = Nothing
      <4>1. rest.quantity = row.left.quantity - draws[l].quantity
        BY DEF Less
      <4>2. row.left.quantity \in Nat /\ draws[l].quantity \in Nat
        BY <2>1, <3>1 DEF IsDraw, Figures
      <4> QED BY <3>1, <4>1, <4>2 DEF IsDraw
    <3> HIDE DEF row, rest
    <3>4. row \in LotRow
      BY <2>1 DEF row
    <3>5. [row EXCEPT !.left = rest] \in LotRow /\ [row EXCEPT !.left = rest].item = row.item
          /\ [row EXCEPT !.left = rest].left = rest
      BY <3>1, <3>4 DEF LotRow
    <3> QED BY <3>2, <3>3, <3>5 DEF row, rest
  <2> QED BY <2>2, <2>3
<1>3. DOMAIN next = DOMAIN open
  BY <1>1
<1> HIDE DEF next
<1>4. AreRows(next)
  BY <1>2, <1>3 DEF AreRows
<1> QED BY <1>2, <1>3, <1>4 DEF next

LEMMA LineDrawsAre ==
  ASSUME NEW open, AreRows(open), NEW line \in SaleLines,
         CanAllocate(OfItem(open, line.item), line.quantity, MethodOf[line.item], line.lot)
  PROVE  LET draws == LineDraws(open, line)
         IN  /\ DOMAIN draws \subseteq DOMAIN open /\ IsFiniteSet(DOMAIN draws)
             /\ \A l \in DOMAIN draws : IsDraw(draws[l], open[l].left)
             /\ SumOf(draws, "quantity") = line.quantity
<1> DEFINE part == OfItem(open, line.item)
           draws == LineDraws(open, line)
<1>1. draws = Allocate(part, line.quantity, MethodOf[line.item], line.lot)
  BY DEF LineDraws
<1>2. DOMAIN part \in SUBSET DOMAIN open /\ \A l \in DOMAIN part : part[l] = open[l]
  BY DEF OfItem
<1>3. IsFiniteSet(DOMAIN part)
  BY <1>2, FS_Subset DEF AreRows
<1>4. IsOpen(part)
  BY <1>2, <1>3 DEF AreRows, IsOpen, LotRow
<1>5. line.quantity \in Nat \ {0}
  BY DEF SaleLines
<1> HIDE DEF part, draws
<1>6. /\ \A l \in DOMAIN draws : l \in DOMAIN part /\ IsDraw(draws[l], part[l].left)
      /\ SumFunction([l \in DOMAIN draws |-> draws[l].quantity]) = line.quantity
  BY <1>1, <1>4, <1>5, AllocationIsExact DEF part
<1>7. DOMAIN draws \in SUBSET DOMAIN part
  BY <1>6
<1>8. IsFiniteSet(DOMAIN draws)
  BY <1>3, <1>7, FS_Subset
<1>9. SumOf(draws, "quantity") = line.quantity
  BY <1>6 DEF SumOf
<1> QED BY <1>2, <1>6, <1>8, <1>9 DEF draws

LEMMA LessIs ==
  ASSUME NEW f \in Figures, NEW a, NEW b, \A x \in FigureNames : f[x] = a[x] - b[x]
  PROVE  f = Less(a, b)
<1>1. f = [quantity |-> f.quantity, cost |-> f.cost, base |-> f.base]
  BY DEF Figures
<1>2. f.quantity = a.quantity - b.quantity /\ f.cost = a.cost - b.cost /\ f.base = a.base - b.base
  BY DEF FigureNames
<1> QED BY <1>1, <1>2 DEF Less

\* What a line has taken of what it was to ship.
ShipsLine(draws, open, quantity) ==
  /\ DOMAIN draws \subseteq DOMAIN open /\ IsFiniteSet(DOMAIN draws)
  /\ AreDraws(draws) /\ \A l \in DOMAIN draws : draws[l].quantity > 0
  /\ SumOf(draws, "quantity") = quantity

\* Every line ships its quantity, of what the lines before it left, and all of
\* them together take no more of a lot than there is.
LEMMA ShippedAre ==
  ASSUME NEW s \in Session, AreRows(view[s]), req[s] \in Orders, CanShip(s)
  PROVE  /\ DOMAIN Shipped(s) = DOMAIN req[s].lines /\ IsFiniteSet(DOMAIN Shipped(s))
         /\ \A n \in DOMAIN Shipped(s) : ShipsLine(Shipped(s)[n], view[s], req[s].lines[n].quantity)
         /\ \A l \in DOMAIN InAll(Shipped(s)) :
              l \in DOMAIN view[s] /\ IsDraw(InAll(Shipped(s))[l], view[s][l].left)
<1> DEFINE q == req[s].lines
           L == Len(q)
           open == view[s]
           O == Opens(open, q)
           many == Shipped(s)
           f(l, x) == PartsOf(many, l, x)
           Took(n, l, x) == SumFunctionOnSet(f(l, x), 1..n)
           Good(n) == /\ AreRows(O[n]) /\ DOMAIN O[n] = DOMAIN open
                      /\ \A k \in 1..n : ShipsLine(many[k], open, q[k].quantity)
                      /\ \A l \in DOMAIN open, x \in FigureNames :
                           O[n][l].left[x] = open[l].left[x] - Took(n, l, x)
<1>1. q \in Seq(SaleLines) /\ L \in Nat /\ DOMAIN q = 1..L /\ \A n \in 1..L : q[n] \in SaleLines
  BY DEF Orders
<1>2. /\ O[0] = open
      /\ \A n \in 1..L : O[n] = AfterDraws(O[n - 1], LineDraws(O[n - 1], q[n]))
  BY <1>1, OpensIs
<1>3. DOMAIN many = 1..L /\ \A n \in 1..L : many[n] = LineDraws(O[n - 1], q[n])
  BY <1>1 DEF Shipped, OpenTo
<1>4. \A n \in 1..L :
        CanAllocate(OfItem(O[n - 1], q[n].item), q[n].quantity, MethodOf[q[n].item], q[n].lot)
  BY <1>1 DEF CanShip, OpenTo
<1>5. AreRows(open)
  OBVIOUS
<1> HIDE DEF q, L, open, O, many
<1>6. Good(0)
  <2>1. ASSUME NEW l \in DOMAIN open, NEW x \in FigureNames
        PROVE  O[0][l].left[x] = open[l].left[x] - Took(0, l, x)
    <3>1. Took(0, l, x) = 0
      <4>1. 1..0 = {}
        OBVIOUS
      <4> QED BY <4>1, SumOfNone
    <3>2. open[l].left[x] \in Nat
      BY <1>5, FigureIs DEF AreRows, LotRow
    <3> HIDE DEF Took
    <3> QED BY <1>2, <3>1, <3>2
  <2> QED BY <1>2, <1>5, <2>1
<1>7. ASSUME NEW n \in 1..L, Good(n - 1) PROVE Good(n)
  <2> DEFINE before == O[n - 1]
             draws == many[n]
  <2>1. AreRows(before) /\ DOMAIN before = DOMAIN open /\ n \in Nat /\ n - 1 \in Nat
    BY <1>1, <1>7
  <2>2. /\ DOMAIN draws \subseteq DOMAIN open /\ IsFiniteSet(DOMAIN draws)
        /\ \A l \in DOMAIN draws : IsDraw(draws[l], before[l].left)
        /\ SumOf(draws, "quantity") = q[n].quantity
    <3> DEFINE line == q[n]
    <3>1. line \in SaleLines /\ draws = LineDraws(before, line)
      BY <1>1, <1>3
    <3>2. CanAllocate(OfItem(before, line.item), line.quantity, MethodOf[line.item], line.lot)
      BY <1>4
    <3> HIDE DEF line, before, draws
    <3>3. /\ DOMAIN draws \subseteq DOMAIN before /\ IsFiniteSet(DOMAIN draws)
          /\ \A l \in DOMAIN draws : IsDraw(draws[l], before[l].left)
          /\ SumOf(draws, "quantity") = line.quantity
      BY <2>1, <3>1, <3>2, LineDrawsAre
    <3> QED BY <2>1, <3>3 DEF line
  <2>3. O[n] = AfterDraws(before, draws)
    BY <1>2, <1>3
  <2> HIDE DEF before, draws
  <2>4. /\ AreRows(O[n]) /\ DOMAIN O[n] = DOMAIN open
        /\ \A l \in DOMAIN open : O[n][l].left = Less(before[l].left, DrawOf(draws, l))
    BY <2>1, <2>2, <2>3, DrawsLeaveRows
  <2>5. ShipsLine(draws, open, q[n].quantity)
    BY <2>2 DEF ShipsLine, AreDraws, IsDraw
  <2>6. 1..n = 1..(n - 1) \cup {n} /\ n \notin 1..(n - 1) /\ IsFiniteSet(1..(n - 1))
    <3>1. IsFiniteSet(1..(n - 1))
      BY <2>1, FS_Interval
    <3>2. 1..n = 1..(n - 1) \cup {n} /\ n \notin 1..(n - 1)
      BY <2>1
    <3> QED BY <3>1, <3>2
  <2>7. \A k \in 1..n : ShipsLine(many[k], open, q[k].quantity)
    BY <1>7, <2>5, <2>6 DEF draws
  <2>8. ASSUME NEW l \in DOMAIN open, NEW x \in FigureNames
        PROVE  O[n][l].left[x] = open[l].left[x] - Took(n, l, x)
    <3> DEFINE g == f(l, x)
    <3>1. \A k \in 1..n : g[k] \in Nat /\ g[k] \in Int
      <4> TAKE k \in 1..n
      <4>1. k \in 1..L
        BY <1>1, <2>1
      <4>2. DrawOf(many[k], l) \in Figures
        BY <2>7, DrawOfIs DEF ShipsLine
      <4> QED BY <1>3, <4>1, <4>2, FigureIs DEF PartsOf
    <3>2. g[n] = DrawOf(draws, l)[x]
      BY <1>3 DEF draws, PartsOf
    <3> HIDE DEF f
    <3> DEFINE old == SumFunctionOnSet(g, 1..(n - 1))
               new == SumFunctionOnSet(g, 1..n)
    <3>3. new = old + g[n] /\ old \in Int
      <4> HIDE DEF g
      <4>1. new = old + g[n]
        <5>1. \A k \in 1..(n - 1) \cup {n} : g[k] \in Int
          BY <2>6, <3>1
        <5>2. SumFunctionOnSet(g, 1..(n - 1) \cup {n}) = old + g[n]
          BY <2>6, <5>1, SumAdds
        <5> QED BY <2>6, <5>2
      <4>2. old \in Int
        BY <2>6, <3>1, SumIsInt
      <4> QED BY <4>1, <4>2
    <3>4. before[l].left[x] = open[l].left[x] - old
      BY <1>7 DEF before
    <3>5. O[n][l].left[x] = before[l].left[x] - DrawOf(draws, l)[x]
      BY <2>4, FigureIs
    <3>6. open[l].left[x] \in Nat /\ g[n] \in Nat
      <4>1. open[l].left[x] \in Nat
        BY <1>5, FigureIs DEF AreRows, LotRow
      <4>2. g[n] \in Nat
        <5> HIDE DEF g
        <5> QED BY <2>6, <3>1
      <4> QED BY <4>1, <4>2
    <3>7. Took(n, l, x) = new
      OBVIOUS
    <3> HIDE DEF g, old, new, Took
    <3> QED BY <3>2, <3>3, <3>4, <3>5, <3>6, <3>7
  <2> HIDE DEF Took
  <2> QED BY <2>4, <2>7, <2>8
<1>8. Good(L)
  <2> DEFINE R == {n \in 0..L : Good(n)}
  <2> HIDE DEF Good
  <2>1. L \in Nat /\ 0 \in R /\ \A n \in 1..L : n - 1 \in R => n \in R
    BY <1>1, <1>6, <1>7
  <2>2. \A n \in 0..L : n \in R
    <3> HIDE DEF R
    <3> QED BY ONLY <2>1, GoingUp
  <2> QED BY <1>1, <2>2
<1>9. IsFiniteSet(1..L) /\ \A k \in 1..L : AreDraws(many[k]) /\ DOMAIN many[k] \subseteq DOMAIN open
  <2>1. IsFiniteSet(1..L)
    BY <1>1, FS_Interval
  <2> QED BY <1>8, <2>1 DEF ShipsLine
<1>10. ASSUME NEW l \in DOMAIN InAll(many)
       PROVE  l \in DOMAIN open /\ IsDraw(InAll(many)[l], open[l].left)
  <2> DEFINE draw == InAll(many)[l]
             left == open[l].left
             rest == O[L][l].left
  <2>1. /\ DOMAIN InAll(many) = UNION {DOMAIN many[k] : k \in 1..L} /\ AreDraws(InAll(many))
        /\ \A x \in FigureNames :
             DrawOf(InAll(many), l)[x] = SumFunctionOnSet(f(l, x), 1..L)
    <3>1. IsFiniteSet(DOMAIN many) /\ \A k \in DOMAIN many : AreDraws(many[k])
      BY <1>3, <1>9
    <3>2. /\ DOMAIN InAll(many) = UNION {DOMAIN many[k] : k \in DOMAIN many} /\ AreDraws(InAll(many))
          /\ \A x \in FigureNames :
               DrawOf(InAll(many), l)[x] = SumFunctionOnSet(PartsOf(many, l, x), DOMAIN many)
      BY ONLY <3>1, InAllIs
    <3> QED BY <1>3, <3>2
  <2>2. PICK k \in 1..L : l \in DOMAIN many[k]
    BY <2>1
  <2>3. l \in DOMAIN open
    BY <1>9, <2>2
  <2>4. draw \in Figures /\ draw = DrawOf(InAll(many), l)
    BY <2>1 DEF AreDraws, DrawOf
  <2>5. left \in Figures /\ rest \in Figures /\ (rest.quantity = 0 => rest = Nothing)
    BY <1>5, <1>8, <2>3 DEF AreRows, LotRow
  <2>6. draw.quantity > 0
    <3> DEFINE g == f(l, "quantity")
    <3>1. \A j \in 1..L : g[j] \in Nat /\ g[j] \in Int
      BY <1>3, <1>9, DrawOfIs, FigureIs DEF FigureNames, PartsOf
    <3>2. g[k] > 0
      BY <1>3, <1>8, <2>2 DEF ShipsLine, DrawOf, PartsOf
    <3>3. draw.quantity = SumFunctionOnSet(g, 1..L)
      BY <2>1, <2>4 DEF FigureNames
    <3> HIDE DEF g, f, draw
    <3>4. SumFunctionOnSet(g, 1..L) = g[k] + SumFunctionOnSet(g, 1..L \ {k})
      BY <1>9, <3>1, SumTakesAny
    <3>5. SumFunctionOnSet(g, 1..L \ {k}) \in Nat
      <4>1. IsFiniteSet(1..L \ {k})
        BY <1>9, FS_RemoveElement
      <4>2. \A j \in 1..L \ {k} : g[j] \in Nat
        BY <3>1
      <4> QED BY <4>1, <4>2, SumIsNat
    <3> QED BY <3>1, <3>2, <3>3, <3>4, <3>5
  <2>7. \A x \in FigureNames : rest[x] = left[x] - draw[x]
    BY <1>8, <2>1, <2>3, <2>4
  <2> HIDE DEF draw, left, rest
  <2>8. rest = Less(left, draw)
    BY <2>5, <2>7, LessIs
  <2>9. draw.quantity = left.quantity => rest.quantity = 0
    <3>1. rest.quantity = left.quantity - draw.quantity
      BY <2>7 DEF FigureNames
    <3> QED BY <2>4, <2>5, <3>1 DEF Figures
  <2>10. IsDraw(draw, left)
    BY <2>4, <2>5, <2>6, <2>8, <2>9 DEF IsDraw
  <2> QED BY <2>3, <2>10 DEF draw, left
<1> QED BY <1>1, <1>3, <1>8, <1>9, <1>10 DEF q, many, open

(***************************************************************************)
(* What notes have credited.                                               *)
(***************************************************************************)
NetFields == {"net", "tax", "baseTax"}
LineFields == {"quantity", "amount", "revenue"}

IsNumbered(line) == (\A f \in LineFields : line[f] \in Int) /\ AreDraws(line.restored)

AreNotes(ns) ==
  /\ IsSequence(ns) /\ IsFiniteSet(NoteLines(ns))
  /\ \A m \in DOMAIN ns, f \in NetFields : ns[m][f] \in Int
  /\ \A p \in NoteLines(ns) : IsNumbered(LineAt(p, ns))

LEMMA NoteLineIs ==
  /\ \A ns, p : p \in NoteLines(ns) => p[1] \in DOMAIN ns /\ p[2] \in DOMAIN ns[p[1]].lines /\ p = <<p[1], p[2]>>
  /\ \A ns : \A m \in DOMAIN ns : \A i \in DOMAIN ns[m].lines : <<m, i>> \in NoteLines(ns)
BY DEF NoteLines

LEMMA CreditedIs ==
  ASSUME NEW ns, AreNotes(ns), NEW n, NEW k
  PROVE  /\ IsFiniteSet(OnLine(n, k, ns))
         /\ \A f : Credited(n, k, f, ns) =
                     SumFunctionOnSet([p \in OnLine(n, k, ns) |-> LineAt(p, ns)[f]], OnLine(n, k, ns))
         /\ \A f \in LineFields : Credited(n, k, f, ns) \in Int
<1> DEFINE S == OnLine(n, k, ns)
           g(f) == [p \in S |-> LineAt(p, ns)[f]]
<1>1. IsFiniteSet(S) /\ \A p \in S : p \in NoteLines(ns)
  <2>1. S \in SUBSET NoteLines(ns)
    BY DEF OnLine
  <2>2. IsFiniteSet(S)
    BY <2>1, FS_Subset DEF AreNotes
  <2> QED BY <2>1, <2>2
<1>2. ASSUME NEW f PROVE Credited(n, k, f, ns) = SumFunctionOnSet(g(f), S)
  <2> DEFINE h == [q \in DOMAIN [p \in S |-> LineAt(p, ns)] |-> [p \in S |-> LineAt(p, ns)][q][f]]
  <2>1. Credited(n, k, f, ns) = SumFunction(h)
    BY DEF Credited, SumOf
  <2>2. h = g(f) /\ DOMAIN g(f) = S
    OBVIOUS
  <2>3. SumFunction(g(f)) = SumFunctionOnSet(g(f), S)
    <3> DEFINE e == g(f)
    <3>1. DOMAIN e = S
      OBVIOUS
    <3> HIDE DEF e
    <3>2. SumFunction(e) = SumFunctionOnSet(e, S)
      BY <3>1 DEF SumFunction, FoldFunction, SumFunctionOnSet
    <3> QED BY <3>2 DEF e
  <2> QED BY <2>1, <2>2, <2>3
<1>3. ASSUME NEW f \in LineFields PROVE Credited(n, k, f, ns) \in Int
  <2> DEFINE e == g(f)
  <2>1. \A p \in S : e[p] \in Int
    BY <1>1 DEF AreNotes, IsNumbered
  <2> HIDE DEF e, S
  <2>2. SumFunctionOnSet(e, S) \in Int
    BY <1>1, <2>1, SumIsInt
  <2> QED BY <1>2, <2>2 DEF e
<1> QED BY <1>1, <1>2, <1>3

LEMMA RestoredIs ==
  ASSUME NEW ns, AreNotes(ns), NEW n, NEW k, NEW l
  PROVE  /\ Restored(n, k, l, ns) \in Figures
         /\ \A x \in FigureNames :
              Restored(n, k, l, ns)[x] =
                SumFunctionOnSet([p \in OnLine(n, k, ns) |-> DrawOf(LineAt(p, ns).restored, l)[x]], OnLine(n, k, ns))
<1> DEFINE S == OnLine(n, k, ns)
           d == [p \in S |-> DrawOf(LineAt(p, ns).restored, l)]
<1>1. Restored(n, k, l, ns) = Total(d) /\ DOMAIN d = S
  BY DEF Restored
<1>2. IsFiniteSet(S) /\ \A p \in S : p \in NoteLines(ns)
  <2>1. IsFiniteSet(S)
    BY CreditedIs
  <2> QED BY <2>1 DEF OnLine
<1>3. \A p \in S : d[p] \in Figures
  BY <1>2, DrawOfIs DEF AreNotes, IsNumbered
<1>4. ASSUME NEW x \in FigureNames PROVE Each(d, x) = [p \in S |-> DrawOf(LineAt(p, ns).restored, l)[x]]
  BY DEF Each
<1> HIDE DEF d
<1>5. Total(d) \in Figures /\ \A x \in FigureNames : Total(d)[x] = SumFunctionOnSet(Each(d, x), S)
  BY <1>1, <1>2, <1>3, TotalIsFigures, TotalIs
<1> QED BY <1>1, <1>4, <1>5

LEMMA CreditedInAllIs ==
  ASSUME NEW ns, AreNotes(ns), NEW n
  PROVE  /\ IsFiniteSet(NotesOf(n, ns))
         /\ \A f : CreditedInAll(n, f, ns) =
                     SumFunctionOnSet([m \in NotesOf(n, ns) |-> ns[m][f]], NotesOf(n, ns))
         /\ \A f \in NetFields : CreditedInAll(n, f, ns) \in Int
<1> DEFINE S == NotesOf(n, ns)
           g(f) == [m \in S |-> ns[m][f]]
<1>1. IsFiniteSet(S) /\ \A m \in S : m \in DOMAIN ns
  <2>1. DOMAIN ns = 1..Len(ns) /\ Len(ns) \in Nat
    BY DEF AreNotes, IsSequence
  <2>2. IsFiniteSet(DOMAIN ns)
    BY <2>1, FS_Interval
  <2>3. S \in SUBSET DOMAIN ns
    BY DEF NotesOf
  <2> QED BY <2>2, <2>3, FS_Subset
<1>2. ASSUME NEW f PROVE CreditedInAll(n, f, ns) = SumFunctionOnSet(g(f), S)
  <2> DEFINE h == [k \in DOMAIN [m \in S |-> ns[m]] |-> [m \in S |-> ns[m]][k][f]]
             e == g(f)
  <2>1. CreditedInAll(n, f, ns) = SumFunction(h)
    BY DEF CreditedInAll, SumOf
  <2>2. h = e /\ DOMAIN e = S
    OBVIOUS
  <2> HIDE DEF e, h
  <2>3. SumFunction(e) = SumFunctionOnSet(e, S)
    BY <2>2 DEF SumFunction, FoldFunction, SumFunctionOnSet
  <2> QED BY <2>1, <2>2, <2>3 DEF e
<1>3. ASSUME NEW f \in NetFields PROVE CreditedInAll(n, f, ns) \in Int
  <2> DEFINE e == g(f)
  <2>1. \A m \in S : e[m] \in Int
    BY <1>1 DEF AreNotes
  <2> HIDE DEF e, S
  <2>2. SumFunctionOnSet(e, S) \in Int
    BY <1>1, <2>1, SumIsInt
  <2> QED BY <1>2, <2>2 DEF e
<1> QED BY <1>1, <1>2, <1>3

\* The notes against one invoice say what was credited on it.
LEMMA AlikeCredits ==
  ASSUME NEW n, NEW ns, NEW ms, Alike(n, ns, ms)
  PROVE  /\ \A f : CreditedInAll(n, f, ns) = CreditedInAll(n, f, ms)
         /\ \A k : /\ OnLine(n, k, ns) = OnLine(n, k, ms)
                   /\ \A f : Credited(n, k, f, ns) = Credited(n, k, f, ms)
                   /\ \A l : Restored(n, k, l, ns) = Restored(n, k, l, ms)
<1>1. [m \in NotesOf(n, ns) |-> ns[m]] = [m \in NotesOf(n, ms) |-> ms[m]]
  BY DEF Alike
<1>2. ASSUME NEW k
      PROVE  /\ OnLine(n, k, ns) = OnLine(n, k, ms)
             /\ \A p \in OnLine(n, k, ns) : LineAt(p, ns) = LineAt(p, ms)
  <2>1. \A p : p \in OnLine(n, k, ns) <=>
               p = <<p[1], p[2]>> /\ p[1] \in NotesOf(n, ns) /\ p[2] \in DOMAIN ns[p[1]].lines /\ ns[p[1]].lines[p[2]].line = k
    BY NoteLineIs DEF OnLine, LineAt, NotesOf
  <2>2. \A p : p \in OnLine(n, k, ms) <=>
               p = <<p[1], p[2]>> /\ p[1] \in NotesOf(n, ms) /\ p[2] \in DOMAIN ms[p[1]].lines /\ ms[p[1]].lines[p[2]].line = k
    BY NoteLineIs DEF OnLine, LineAt, NotesOf
  <2>3. \A p : p \in OnLine(n, k, ns) <=> p \in OnLine(n, k, ms)
    BY <2>1, <2>2 DEF Alike
  <2> QED BY <2>1, <2>3 DEF Alike, LineAt
<1>3. ASSUME NEW k
      PROVE  /\ \A f : Credited(n, k, f, ns) = Credited(n, k, f, ms)
             /\ \A l : Restored(n, k, l, ns) = Restored(n, k, l, ms)
  <2>1. [p \in OnLine(n, k, ns) |-> LineAt(p, ns)] = [p \in OnLine(n, k, ms) |-> LineAt(p, ms)]
    BY <1>2
  <2>2. \A l : [p \in OnLine(n, k, ns) |-> DrawOf(LineAt(p, ns).restored, l)]
             = [p \in OnLine(n, k, ms) |-> DrawOf(LineAt(p, ms).restored, l)]
    BY <1>2
  <2> QED BY <2>1, <2>2 DEF Credited, Restored
<1> QED BY <1>1, <1>2, <1>3 DEF CreditedInAll

\* A note more: the lines of the invoice it credits have its lines as well.
LEMMA NoteLinesGrow ==
  ASSUME NEW ns, IsSequence(ns), NEW note
  PROVE  LET m == Len(ns) + 1
             more == Append(ns, note)
         IN  /\ NoteLines(more) = NoteLines(ns) \cup ({m} \X DOMAIN note.lines)
             /\ \A i \in DOMAIN note.lines : <<m, i>> \notin NoteLines(ns) /\ LineAt(<<m, i>>, more) = note.lines[i]
             /\ \A p \in NoteLines(ns) : LineAt(p, more) = LineAt(p, ns) /\ more[p[1]] = ns[p[1]]
<1> DEFINE m == Len(ns) + 1
           more == Append(ns, note)
<1>1. /\ DOMAIN more = 1..m /\ DOMAIN ns = 1..Len(ns) /\ Len(ns) \in Nat
      /\ more[m] = note /\ \A n \in DOMAIN ns : more[n] = ns[n]
  BY AppendIsSequence
<1>2. DOMAIN more = DOMAIN ns \cup {m} /\ m \notin DOMAIN ns
  BY <1>1
<1> HIDE DEF m, more
<1>3. ASSUME NEW p PROVE p \in NoteLines(more) <=> p \in NoteLines(ns) \/ p \in {m} \X DOMAIN note.lines
  BY <1>1, <1>2 DEF NoteLines
<1>4. \A p : p \in {m} \X DOMAIN note.lines <=> \E i \in DOMAIN note.lines : p = <<m, i>>
  OBVIOUS
<1>5. ASSUME NEW i \in DOMAIN note.lines PROVE <<m, i>> \notin NoteLines(ns)
  <2>1. <<m, i>>[1] = m
    OBVIOUS
  <2> QED BY <1>2, <2>1, NoteLineIs
<1>6. ASSUME NEW i \in DOMAIN note.lines PROVE LineAt(<<m, i>>, more) = note.lines[i]
  BY <1>1 DEF LineAt
<1>7. ASSUME NEW p \in NoteLines(ns) PROVE LineAt(p, more) = LineAt(p, ns) /\ more[p[1]] = ns[p[1]]
  BY <1>1, NoteLineIs DEF LineAt
<1>8. NoteLines(more) = NoteLines(ns) \cup ({m} \X DOMAIN note.lines)
  BY <1>3
<1> QED BY <1>5, <1>6, <1>7, <1>8 DEF m, more

IsNumberedNote(note) ==
  /\ IsFiniteSet(DOMAIN note.lines) /\ \A f \in NetFields : note[f] \in Int
  /\ \A i \in DOMAIN note.lines : IsNumbered(note.lines[i])

LEMMA MoreNotes ==
  ASSUME NEW ns, AreNotes(ns), NEW note, IsNumberedNote(note)
  PROVE  AreNotes(Append(ns, note))
<1> DEFINE m == Len(ns) + 1
           more == Append(ns, note)
<1>1. /\ IsSequence(more) /\ DOMAIN more = 1..m /\ DOMAIN ns = 1..Len(ns) /\ Len(ns) \in Nat
      /\ more[m] = note /\ \A n \in DOMAIN ns : more[n] = ns[n]
  BY AppendIsSequence DEF AreNotes
<1>2. /\ NoteLines(more) = NoteLines(ns) \cup ({m} \X DOMAIN note.lines)
      /\ \A i \in DOMAIN note.lines : LineAt(<<m, i>>, more) = note.lines[i]
      /\ \A p \in NoteLines(ns) : LineAt(p, more) = LineAt(p, ns)
  BY NoteLinesGrow DEF AreNotes
<1>3. IsFiniteSet({m} \X DOMAIN note.lines)
  BY FS_Singleton, FS_Product DEF IsNumberedNote
<1>4. IsFiniteSet(NoteLines(more))
  <2>1. IsFiniteSet(NoteLines(ns))
    BY DEF AreNotes
  <2>2. IsFiniteSet(NoteLines(ns) \cup ({m} \X DOMAIN note.lines))
    BY <1>3, <2>1, FS_Union
  <2> QED BY <1>2, <2>2
<1>5. \A j \in 1..m : j \in 1..Len(ns) \/ j = m
  BY <1>1
<1> HIDE DEF more, m
<1>6. ASSUME NEW j \in DOMAIN more, NEW f \in NetFields PROVE more[j][f] \in Int
  <2>1. CASE j = m
    BY <1>1, <2>1 DEF IsNumberedNote
  <2>2. CASE j \in DOMAIN ns
    BY <1>1, <2>2 DEF AreNotes
  <2> QED BY <1>1, <1>5, <2>1, <2>2
<1>7. ASSUME NEW p \in NoteLines(more) PROVE IsNumbered(LineAt(p, more))
  <2>1. CASE p \in NoteLines(ns)
    BY <1>2, <2>1 DEF AreNotes
  <2>2. CASE p \in {m} \X DOMAIN note.lines
    <3>1. PICK i \in DOMAIN note.lines : p = <<m, i>>
      BY <2>2
    <3> QED BY <1>2, <3>1 DEF IsNumberedNote
  <2> QED BY <1>2, <2>1, <2>2
<1>8. AreNotes(more)
  BY <1>1, <1>4, <1>6, <1>7 DEF AreNotes
<1> QED BY <1>8 DEF more

\* What the note's own lines are worth to a line of the invoice.
LinesOn(note, n, k) == {i \in DOMAIN note.lines : note.sale = n /\ note.lines[i].line = k}
OneEach(note) == \A i, j \in DOMAIN note.lines : note.lines[i].line = note.lines[j].line => i = j

LEMMA OnLineGrows ==
  ASSUME NEW ns, IsSequence(ns), NEW note, NEW n, NEW k
  PROVE  LET m == Len(ns) + 1
             more == Append(ns, note)
         IN  /\ OnLine(n, k, more) = OnLine(n, k, ns) \cup {<<m, i>> : i \in LinesOn(note, n, k)}
             /\ \A p \in OnLine(n, k, ns) : LineAt(p, more) = LineAt(p, ns)
             /\ \A i \in LinesOn(note, n, k) : <<m, i>> \notin OnLine(n, k, ns) /\ LineAt(<<m, i>>, more) = note.lines[i]
<1> DEFINE m == Len(ns) + 1
           more == Append(ns, note)
<1>1. /\ NoteLines(more) = NoteLines(ns) \cup ({m} \X DOMAIN note.lines)
      /\ \A i \in DOMAIN note.lines : <<m, i>> \notin NoteLines(ns) /\ LineAt(<<m, i>>, more) = note.lines[i]
      /\ \A p \in NoteLines(ns) : LineAt(p, more) = LineAt(p, ns) /\ more[p[1]] = ns[p[1]]
  BY NoteLinesGrow
<1>2. more[m] = note
  BY AppendIsSequence
<1> HIDE DEF m, more
<1>3. ASSUME NEW p PROVE p \in OnLine(n, k, more) <=> p \in OnLine(n, k, ns) \cup {<<m, i>> : i \in LinesOn(note, n, k)}
  <2>1. CASE p \in NoteLines(ns)
    <3>1. \A i \in LinesOn(note, n, k) : <<m, i>> # p
      BY <1>1, <2>1 DEF LinesOn
    <3> QED BY <1>1, <2>1, <3>1 DEF OnLine
  <2>2. CASE p \notin NoteLines(ns)
    <3>1. p \in OnLine(n, k, more) => \E i \in LinesOn(note, n, k) : p = <<m, i>>
      <4> SUFFICES ASSUME p \in OnLine(n, k, more) PROVE \E i \in LinesOn(note, n, k) : p = <<m, i>>
        OBVIOUS
      <4>1. PICK i \in DOMAIN note.lines : p = <<m, i>>
        BY <1>1, <2>2 DEF OnLine
      <4>2. p[1] = m
        BY <4>1
      <4> QED BY <1>1, <1>2, <4>1, <4>2 DEF OnLine, LinesOn
    <3>2. ASSUME NEW i \in LinesOn(note, n, k), p = <<m, i>> PROVE p \in OnLine(n, k, more)
      <4>1. i \in DOMAIN note.lines /\ note.sale = n /\ note.lines[i].line = k /\ p[1] = m
        BY <3>2 DEF LinesOn
      <4>2. p \in NoteLines(more)
        BY <1>1, <3>2, <4>1
      <4> QED BY <1>1, <1>2, <3>2, <4>1, <4>2 DEF OnLine
    <3>3. p \notin OnLine(n, k, ns)
      BY <2>2 DEF OnLine
    <3> QED BY <3>1, <3>2, <3>3
  <2> QED BY <2>1, <2>2
<1>4. OnLine(n, k, more) = OnLine(n, k, ns) \cup {<<m, i>> : i \in LinesOn(note, n, k)}
  BY <1>3
<1> QED BY <1>1, <1>4 DEF m, more, OnLine, LinesOn

\* What a note adds to a line it does not credit, and to one that it does.
LEMMA LineUntouched ==
  ASSUME NEW ns, AreNotes(ns), NEW note, NEW n, NEW k, LinesOn(note, n, k) = {}
  PROVE  /\ \A f : Credited(n, k, f, Append(ns, note)) = Credited(n, k, f, ns)
         /\ \A l : Restored(n, k, l, Append(ns, note)) = Restored(n, k, l, ns)
<1> DEFINE more == Append(ns, note)
<1>1. OnLine(n, k, more) = OnLine(n, k, ns) /\ \A p \in OnLine(n, k, ns) : LineAt(p, more) = LineAt(p, ns)
  <2>1. {<<Len(ns) + 1, i>> : i \in LinesOn(note, n, k)} = {}
    OBVIOUS
  <2>2. /\ OnLine(n, k, more) = OnLine(n, k, ns) \cup {<<Len(ns) + 1, i>> : i \in LinesOn(note, n, k)}
        /\ \A p \in OnLine(n, k, ns) : LineAt(p, more) = LineAt(p, ns)
    BY OnLineGrows DEF AreNotes
  <2> QED BY <2>1, <2>2
<1> HIDE DEF more
<1>2. [p \in OnLine(n, k, more) |-> LineAt(p, more)] = [p \in OnLine(n, k, ns) |-> LineAt(p, ns)]
  BY <1>1
<1>3. \A l : [p \in OnLine(n, k, more) |-> DrawOf(LineAt(p, more).restored, l)]
           = [p \in OnLine(n, k, ns) |-> DrawOf(LineAt(p, ns).restored, l)]
  BY <1>1
<1> QED BY <1>2, <1>3 DEF Credited, Restored, more

LEMMA LineCredited ==
  ASSUME NEW ns, AreNotes(ns), NEW note, IsNumberedNote(note), OneEach(note),
         NEW i \in DOMAIN note.lines
  PROVE  LET n == note.sale
             line == note.lines[i]
             k == line.line
             more == Append(ns, note)
         IN  /\ \A f \in LineFields : Credited(n, k, f, more) = Credited(n, k, f, ns) + line[f]
             /\ \A l : \A x \in FigureNames :
                  Restored(n, k, l, more)[x] = Restored(n, k, l, ns)[x] + DrawOf(line.restored, l)[x]
             /\ \A l : Restored(n, k, l, more) = Plus(Restored(n, k, l, ns), DrawOf(line.restored, l))
<1> DEFINE n == note.sale
           line == note.lines[i]
           k == line.line
           more == Append(ns, note)
           S == OnLine(n, k, ns)
           q == <<Len(ns) + 1, i>>
<1>1. LinesOn(note, n, k) = {i}
  BY DEF LinesOn, OneEach
<1>2. /\ OnLine(n, k, more) = S \cup {q} /\ q \notin S
      /\ \A p \in S : LineAt(p, more) = LineAt(p, ns)
      /\ LineAt(q, more) = line
  <2>1. /\ OnLine(n, k, more) = S \cup {<<Len(ns) + 1, j>> : j \in LinesOn(note, n, k)}
        /\ \A p \in S : LineAt(p, more) = LineAt(p, ns)
        /\ \A j \in LinesOn(note, n, k) : <<Len(ns) + 1, j>> \notin S /\ LineAt(<<Len(ns) + 1, j>>, more) = note.lines[j]
    BY OnLineGrows DEF AreNotes
  <2> QED BY <1>1, <2>1
<1>3. AreNotes(more) /\ IsNumbered(line)
  BY MoreNotes DEF IsNumberedNote
<1>4. IsFiniteSet(S) /\ \A p \in S : IsNumbered(LineAt(p, ns))
  <2>1. IsFiniteSet(S)
    BY CreditedIs
  <2> QED BY <2>1 DEF AreNotes, OnLine
<1> HIDE DEF n, k, line, more, S, q
<1>5. ASSUME NEW f \in LineFields PROVE Credited(n, k, f, more) = Credited(n, k, f, ns) + line[f]
  <2> DEFINE new == [p \in OnLine(n, k, more) |-> LineAt(p, more)[f]]
             old == [p \in OnLine(n, k, ns) |-> LineAt(p, ns)[f]]
  <2>1. /\ Credited(n, k, f, more) = SumFunctionOnSet(new, OnLine(n, k, more))
        /\ Credited(n, k, f, ns) = SumFunctionOnSet(old, S)
    BY <1>3, CreditedIs DEF S
  <2>2. (\A p \in S : old[p] \in Int /\ new[p] = old[p]) /\ new[q] = line[f] /\ new[q] \in Int
    BY <1>2, <1>3, <1>4 DEF IsNumbered, S
  <2> HIDE DEF new, old
  <2>3. SumFunctionOnSet(new, S \cup {q}) = SumFunctionOnSet(old, S) + new[q]
    <3>1. /\ IsFiniteSet(S) /\ q \notin S /\ new[q] \in Int
          /\ \A y \in S : old[y] \in Int /\ new[y] = old[y]
      BY <1>2, <1>4, <2>2
    <3> QED BY ONLY <3>1, SumJoins
  <2> QED BY <1>2, <2>1, <2>2, <2>3
<1>6. ASSUME NEW l, NEW x \in FigureNames
      PROVE  Restored(n, k, l, more)[x] = Restored(n, k, l, ns)[x] + DrawOf(line.restored, l)[x]
  <2> DEFINE new == [p \in OnLine(n, k, more) |-> DrawOf(LineAt(p, more).restored, l)[x]]
             old == [p \in OnLine(n, k, ns) |-> DrawOf(LineAt(p, ns).restored, l)[x]]
  <2>1. /\ Restored(n, k, l, more)[x] = SumFunctionOnSet(new, OnLine(n, k, more))
        /\ Restored(n, k, l, ns)[x] = SumFunctionOnSet(old, S)
    BY <1>3, RestoredIs DEF S
  <2>2. (\A p \in S : old[p] \in Int /\ new[p] = old[p]) /\ new[q] = DrawOf(line.restored, l)[x] /\ new[q] \in Int
    <3>1. \A p \in S : DrawOf(LineAt(p, ns).restored, l)[x] \in Nat
      BY <1>4, DrawOfIs, FigureIs DEF IsNumbered
    <3>2. DrawOf(line.restored, l)[x] \in Nat
      BY <1>3, DrawOfIs, FigureIs DEF IsNumbered
    <3> QED BY <1>2, <3>1, <3>2 DEF S
  <2> HIDE DEF new, old
  <2>3. SumFunctionOnSet(new, S \cup {q}) = SumFunctionOnSet(old, S) + new[q]
    <3>1. /\ IsFiniteSet(S) /\ q \notin S /\ new[q] \in Int
          /\ \A y \in S : old[y] \in Int /\ new[y] = old[y]
      BY <1>2, <1>4, <2>2
    <3> QED BY ONLY <3>1, SumJoins
  <2> QED BY <1>2, <2>1, <2>2, <2>3
<1>7. ASSUME NEW l PROVE Restored(n, k, l, more) = Plus(Restored(n, k, l, ns), DrawOf(line.restored, l))
  <2>1. Restored(n, k, l, more) \in Figures
    BY <1>3, RestoredIs
  <2>2. Restored(n, k, l, more) =
          [quantity |-> Restored(n, k, l, more).quantity, cost |-> Restored(n, k, l, more).cost,
           base |-> Restored(n, k, l, more).base]
    BY <2>1 DEF Figures
  <2> QED BY <1>6, <2>2 DEF Plus, FigureNames
<1> QED BY <1>5, <1>6, <1>7 DEF n, k, line, more

\* And to what the invoice was credited in all.
LEMMA InvoiceCredited ==
  ASSUME NEW ns, AreNotes(ns), NEW note, IsNumberedNote(note), NEW n, NEW f \in NetFields
  PROVE  CreditedInAll(n, f, Append(ns, note)) =
           CreditedInAll(n, f, ns) + (IF note.sale = n THEN note[f] ELSE 0)
<1> DEFINE m == Len(ns) + 1
           more == Append(ns, note)
           S == NotesOf(n, ns)
           new == [j \in NotesOf(n, more) |-> more[j][f]]
           old == [j \in NotesOf(n, ns) |-> ns[j][f]]
<1>1. /\ DOMAIN more = 1..m /\ DOMAIN ns = 1..Len(ns) /\ Len(ns) \in Nat
      /\ more[m] = note /\ \A j \in DOMAIN ns : more[j] = ns[j]
  BY AppendIsSequence DEF AreNotes
<1>2. NotesOf(n, more) = S \cup (IF note.sale = n THEN {m} ELSE {}) /\ m \notin S
  BY <1>1 DEF NotesOf
<1>3. AreNotes(more)
  BY MoreNotes
<1>4. /\ CreditedInAll(n, f, more) = SumFunctionOnSet(new, NotesOf(n, more))
      /\ CreditedInAll(n, f, ns) = SumFunctionOnSet(old, S) /\ IsFiniteSet(S)
      /\ CreditedInAll(n, f, ns) \in Int
  <2> HIDE DEF more
  <2> QED BY <1>3, CreditedInAllIs
<1>5. \A j \in S : new[j] = old[j] /\ old[j] \in Int
  BY <1>1, <1>2 DEF NotesOf, AreNotes
<1>6. CASE note.sale = n
  <2>1. new[m] = note[f] /\ new[m] \in Int
    BY <1>1, <1>2, <1>6 DEF IsNumberedNote
  <2> HIDE DEF new, old, more, S, m
  <2>2. SumFunctionOnSet(new, S \cup {m}) = SumFunctionOnSet(old, S) + new[m]
    <3>1. /\ IsFiniteSet(S) /\ m \notin S /\ new[m] \in Int
          /\ \A y \in S : old[y] \in Int /\ new[y] = old[y]
      BY <1>2, <1>4, <1>5, <2>1
    <3> QED BY ONLY <3>1, SumJoins
  <2> QED BY <1>2, <1>4, <1>6, <2>1, <2>2 DEF more
<1>7. CASE note.sale # n
  <2> HIDE DEF new, old, more, S, m
  <2>1. SumFunctionOnSet(new, S) = SumFunctionOnSet(old, S)
    BY <1>4, <1>5, SumsAgree
  <2> QED BY <1>2, <1>4, <1>7, <2>1 DEF more
<1> QED BY <1>6, <1>7

(***************************************************************************)
(* Steps that leave the documents alone.                                   *)
(***************************************************************************)
LEMMA DocumentsAre ==
  ASSUME Documents
  PROVE  /\ AreNotes(notes)
         /\ \A p \in NoteLines(notes) : IsCredited(notes[p[1]].sale, LineAt(p, notes))
         /\ \A n, k : \A p \in OnLine(n, k, notes) :
              /\ n \in DOMAIN sales /\ k \in DOMAIN sales[n].lines
              /\ DOMAIN LineAt(p, notes).restored \subseteq DOMAIN sales[n].lines[k].draws
              /\ AreDraws(LineAt(p, notes).restored)
<1>1. ASSUME NEW p \in NoteLines(notes)
      PROVE  IsCredited(notes[p[1]].sale, LineAt(p, notes)) /\ IsNumbered(LineAt(p, notes))
             /\ notes[p[1]].sale \in DOMAIN sales
  <2>1. p[1] \in DOMAIN notes /\ p[2] \in DOMAIN notes[p[1]].lines
    BY NoteLineIs
  <2>2. IsCredited(notes[p[1]].sale, LineAt(p, notes)) /\ notes[p[1]].sale \in DOMAIN sales
    BY <2>1 DEF Documents, IsNote, LineAt
  <2> QED BY <2>2 DEF IsCredited, IsNumbered, AreDraws, LineFields
<1>2. \A m \in DOMAIN notes, f \in NetFields : notes[m][f] \in Int
  BY DEF Documents, IsNote, NetFields
<1>3. AreNotes(notes)
  BY <1>1, <1>2 DEF Documents, AreNotes
<1>4. ASSUME NEW n, NEW k, NEW p \in OnLine(n, k, notes)
      PROVE  /\ n \in DOMAIN sales /\ k \in DOMAIN sales[n].lines
             /\ DOMAIN LineAt(p, notes).restored \subseteq DOMAIN sales[n].lines[k].draws
             /\ AreDraws(LineAt(p, notes).restored)
  <2>1. p \in NoteLines(notes) /\ notes[p[1]].sale = n /\ LineAt(p, notes).line = k
    BY DEF OnLine
  <2> QED BY <1>1, <2>1 DEF IsCredited, IsNumbered
<1> QED BY <1>1, <1>3, <1>4

LEMMA SoldIs ==
  /\ \A p : p \in Sold => p[1] \in DOMAIN sales /\ p[2] \in DOMAIN sales[p[1]].lines /\ p = <<p[1], p[2]>>
  /\ \A n \in DOMAIN sales : \A k \in DOMAIN sales[n].lines : <<n, k>> \in Sold
BY DEF Sold

\* What is still out of a lot is not below zero, and is of the lots there are.
LEMMA OutIs ==
  ASSUME Documents, Settled, NEW n \in DOMAIN sales, NEW k \in DOMAIN sales[n].lines, NEW l
  PROVE  /\ Out(n, k, l) \in Figures
         /\ l \notin DOMAIN sales[n].lines[k].draws => Out(n, k, l) = Nothing /\ Restored(n, k, l, notes) = Nothing
<1> DEFINE draws == sales[n].lines[k].draws
<1>1. CASE l \in DOMAIN draws
  BY <1>1 DEF Settled, LineSettled
<1>2. CASE l \notin DOMAIN draws
  <2>1. AreNotes(notes) /\ \A p \in OnLine(n, k, notes) : DOMAIN LineAt(p, notes).restored \subseteq DOMAIN draws
    BY DocumentsAre
  <2>2. \A p \in OnLine(n, k, notes) : DrawOf(LineAt(p, notes).restored, l) = Nothing
    BY <1>2, <2>1 DEF DrawOf
  <2>3. ASSUME NEW x \in FigureNames PROVE Restored(n, k, l, notes)[x] = 0
    <3> DEFINE S == OnLine(n, k, notes)
               f == [p \in S |-> DrawOf(LineAt(p, notes).restored, l)[x]]
    <3>1. \A p \in S : f[p] = 0
      BY <2>2, FigureIs
    <3>2. IsFiniteSet(S)
      BY <2>1, CreditedIs
    <3>3. Restored(n, k, l, notes)[x] = SumFunctionOnSet(f, S)
      BY <2>1, RestoredIs
    <3> HIDE DEF f, S
    <3> QED BY <3>1, <3>2, <3>3, SumOfZeros
  <2>4. Restored(n, k, l, notes) = Nothing
    <3>1. Restored(n, k, l, notes) \in Figures
      BY <2>1, RestoredIs
    <3>2. \A x \in FigureNames : Restored(n, k, l, notes)[x] = Nothing[x] - 0
      BY <2>3, FigureIs
    <3> QED BY <2>3, <3>1 DEF Figures, FigureNames, Nothing
  <2>5. DrawOf(draws, l) = Nothing
    BY <1>2 DEF DrawOf
  <2>6. Less(Nothing, Nothing) = Nothing /\ Nothing \in Figures
    BY LessIsFigures, FigureIs
  <2> QED BY <1>2, <2>4, <2>5, <2>6 DEF Out
<1> QED BY <1>1, <1>2

\* What lines have out of one lot.
OutAt(l, x) == [p \in Sold |-> Out(p[1], p[2], l)[x]]

LEMMA OutOfIs ==
  ASSUME Documents, Settled, NEW l, NEW x \in FigureNames
  PROVE  /\ OutOf(l, x) = SumFunctionOnSet(OutAt(l, x), Sold) /\ OutOf(l, x) \in Nat
         /\ IsFiniteSet(Sold) /\ \A p \in Sold : OutAt(l, x)[p] \in Nat /\ OutAt(l, x)[p] \in Int
         /\ l \notin Lots => OutOf(l, x) = 0
<1> DEFINE f == OutAt(l, x)
<1>1. OutOf(l, x) = SumFunctionOnSet(f, Sold) /\ IsFiniteSet(Sold)
  BY DEF OutOf, OutAt, Documents
<1>2. ASSUME NEW p \in Sold PROVE f[p] \in Nat /\ f[p] \in Int /\ (l \notin Lots => f[p] = 0)
  <2>1. p[1] \in DOMAIN sales /\ p[2] \in DOMAIN sales[p[1]].lines
    BY SoldIs
  <2>2. Out(p[1], p[2], l) \in Figures
    BY <2>1, OutIs
  <2>3. f[p] \in Nat
    BY <2>2, FigureIs DEF OutAt
  <2>4. l \notin Lots => f[p] = 0
    <3>1. l \notin Lots => l \notin DOMAIN sales[p[1]].lines[p[2]].draws
      BY <2>1 DEF Documents, IsInvoice, IsSold
    <3>2. l \notin Lots => Out(p[1], p[2], l) = Nothing
      BY <2>1, <3>1, OutIs
    <3> QED BY <3>2, FigureIs DEF OutAt
  <2> QED BY <2>3, <2>4
<1> HIDE DEF f
<1>3. SumFunctionOnSet(f, Sold) \in Nat
  BY <1>1, <1>2, SumIsNat
<1>4. l \notin Lots => SumFunctionOnSet(f, Sold) = 0
  BY <1>1, <1>2, SumOfZeros
<1> QED BY <1>1, <1>2, <1>3, <1>4 DEF f

LEMMA DocumentsStand ==
  ASSUME Documents, Settled, UNCHANGED saleVars, Lots \subseteq Lots'
  PROVE  Documents' /\ Settled' /\ \A l, x : OutOf(l, x)' = OutOf(l, x)
<1>1. sales' = sales /\ notes' = notes
  BY DEF saleVars
<1>2. \A n, k, l : Out(n, k, l)' = Out(n, k, l)
  BY <1>1 DEF Out, DrawOf, Restored, OnLine, NoteLines, LineAt, Less, Total, SumOf, Nothing
<1>3. ASSUME NEW n PROVE NetSettled(n)' <=> NetSettled(n)
  BY <1>1 DEF NetSettled, CreditedInAll, NotesOf, SumOf, Settles
<1>4. ASSUME NEW n, NEW k PROVE LineSettled(n, k)' <=> LineSettled(n, k)
  <2>1. \A f : Credited(n, k, f, notes)' = Credited(n, k, f, notes)
    BY <1>1 DEF Credited, OnLine, NoteLines, LineAt, SumOf
  <2>2. \A l : Restored(n, k, l, notes)' = Restored(n, k, l, notes)
    BY <1>1 DEF Restored, OnLine, NoteLines, LineAt, Total, SumOf, DrawOf, Nothing
  <2>3. /\ \A l : Out(n, k, l)' \in Figures <=> Out(n, k, l) \in Figures
        /\ \A l : (Out(n, k, l) = Nothing)' <=> Out(n, k, l) = Nothing
        /\ \A l : Out(n, k, l).quantity' = Out(n, k, l).quantity
    BY <1>2 DEF Nothing
  <2> QED BY <1>1, <2>1, <2>2, <2>3 DEF LineSettled, Settles
<1>5. Settled'
  BY <1>1, <1>3, <1>4 DEF Settled
<1>6. Documents'
  <2>1. Sold' = Sold /\ NoteLines(notes)' = NoteLines(notes)
    BY <1>1 DEF Sold, NoteLines
  <2>2. \A sold : IsSold(sold) => IsSold(sold)'
    BY DEF IsSold, SumOf
  <2>3. \A sale : IsInvoice(sale) => IsInvoice(sale)'
    BY <2>2 DEF IsInvoice
  <2>4. \A note : IsNote(note) => IsNote(note)'
    BY <1>1 DEF IsNote, IsCredited
  <2> QED BY <1>1, <2>1, <2>3, <2>4 DEF Documents, IsSequence
<1>7. \A l, x : OutOf(l, x)' = OutOf(l, x)
  BY <1>1, <1>2 DEF OutOf, Sold
<1> QED BY <1>5, <1>6, <1>7

\* What a lot has given beyond what it got back only grows, but by a return.
LEMMA SlackGrows ==
  ASSUME StockInv, StockInv', StockDoes, NEW x \in FigureNames
  PROVE  /\ Lots \subseteq Lots' /\ \A l \in Lots' \ Lots : lots'[l].paid = lots'[l].left
         /\ \A l \in Lots : lots[l].paid[x] - lots[l].left[x] <= lots'[l].paid[x] - lots'[l].left[x]
         /\ \A l \in Lots' : lots'[l].paid[x] \in Nat /\ lots'[l].left[x] \in Nat
<1>1. \A l \in Lots : lots[l].paid \in Figures /\ lots[l].left \in Figures
  BY LotFigures DEF StockInv
<1>2. \A l \in Lots' : lots'[l].paid \in Figures /\ lots'[l].left \in Figures
  <2>1. lots' \in Seq(LotRow)
    BY DEF StockInv, Rows
  <2>2. Lots' = DOMAIN lots'
    BY DEF Lots
  <2>3. \A l \in Lots' : lots'[l] \in LotRow
    BY <2>1, <2>2
  <2> QED BY <2>3 DEF LotRow
<1>3. /\ \A l \in Lots : lots[l].paid[x] \in Nat /\ lots[l].left[x] \in Nat
      /\ \A l \in Lots' : lots'[l].paid[x] \in Nat /\ lots'[l].left[x] \in Nat
  BY <1>1, <1>2, FigureIs
<1>4. CASE Arrives
  <2>1. PICK r \in Receipts :
          /\ Lots' = Lots \cup {Len(lots) + 1} /\ Len(lots) + 1 \notin Lots
          /\ lots'[Len(lots) + 1] = Opened(r) /\ \A l \in Lots : lots'[l] = lots[l]
    BY <1>4 DEF Arrives
  <2>2. Opened(r).paid = Opened(r).left
    BY DEF Opened
  <2> QED BY <1>3, <2>1, <2>2
<1>5. CASE lots' = lots
  BY <1>3, <1>5 DEF Lots
<1>6. ASSUME NEW draws, Gone(draws) PROVE /\ Lots' = Lots
                                          /\ \A l \in Lots : lots[l].paid[x] - lots[l].left[x] <= lots'[l].paid[x] - lots'[l].left[x]
  <2>1. Lots' = Lots /\ \A l \in Lots : lots'[l].paid = lots[l].paid
    BY <1>6 DEF Gone
  <2>2. ASSUME NEW l \in Lots PROVE lots'[l].left[x] <= lots[l].left[x]
    <3>1. CASE l \in DOMAIN draws
      <4>1. lots'[l].left = Less(lots[l].left, draws[l]) /\ draws[l] \in Figures
        BY <1>6, <3>1 DEF Gone, IsDraw
      <4>2. lots'[l].left[x] = lots[l].left[x] - draws[l][x] /\ draws[l][x] \in Nat
        BY <4>1, FigureIs
      <4> QED BY <1>3, <4>2
    <3>2. CASE l \notin DOMAIN draws
      <4>1. lots'[l] = lots[l]
        BY <1>6, <3>2 DEF Gone
      <4> QED BY <1>3, <4>1
    <3> QED BY <3>1, <3>2
  <2> QED BY <1>3, <2>1, <2>2
<1>7. ASSUME NEW p, Raised(p) PROVE /\ Lots' = Lots
                                    /\ \A l \in Lots : lots[l].paid[x] - lots[l].left[x] <= lots'[l].paid[x] - lots'[l].left[x]
  <2>1. Lots' = Lots
    BY <1>7 DEF Raised
  <2>2. ASSUME NEW l \in Lots PROVE lots[l].paid[x] - lots[l].left[x] <= lots'[l].paid[x] - lots'[l].left[x]
    <3>1. CASE x = "quantity"
      BY <1>3, <1>7, <3>1 DEF Raised
    <3>2. CASE x = "cost"
      BY <1>3, <1>7, <3>2 DEF Raised
    <3>3. CASE x = "base"
      <4>1. CASE l \notin DOMAIN p
        BY <1>3, <1>7, <4>1 DEF Raised
      <4>2. CASE l \in DOMAIN p
        <5>1. /\ lots'[l].paid.base = lots[l].paid.base + p[l].amount
              /\ lots'[l].left.base = lots[l].left.base + p[l].toInventory
              /\ p[l].toInventory <= p[l].amount /\ p[l].toInventory \in Nat /\ p[l].amount \in Nat
          BY <1>7, <4>2 DEF Raised
        <5>2. lots[l].paid.base \in Nat /\ lots[l].left.base \in Nat
          BY <1>1 DEF Figures
        <5> QED BY <3>3, <5>1, <5>2
      <4> QED BY <4>1, <4>2
    <3> QED BY <3>1, <3>2, <3>3 DEF FigureNames
  <2> QED BY <2>1, <2>2
<1> QED BY <1>3, <1>4, <1>5, <1>6, <1>7 DEF StockDoes, Leaves, Lands, ByHand

LEMMA CoveredStands ==
  ASSUME StockInv, StockInv', StockDoes, UNCHANGED saleVars, Documents, Settled, \A l \in Lots : Covered(l)
  PROVE  Documents' /\ Settled' /\ \A l \in Lots' : Covered(l)'
<1>1. Lots \subseteq Lots'
  BY SlackGrows DEF FigureNames
<1>2. Documents' /\ Settled' /\ \A l, x : OutOf(l, x)' = OutOf(l, x)
  BY <1>1, DocumentsStand
<1>3. ASSUME NEW l \in Lots', NEW x \in FigureNames
      PROVE  OutOf(l, x) <= lots'[l].paid[x] - lots'[l].left[x]
  <2>1. /\ \A k \in Lots' \ Lots : lots'[k].paid = lots'[k].left
        /\ \A k \in Lots : lots[k].paid[x] - lots[k].left[x] <= lots'[k].paid[x] - lots'[k].left[x]
        /\ \A k \in Lots' : lots'[k].paid[x] \in Nat /\ lots'[k].left[x] \in Nat
    BY SlackGrows
  <2>2. OutOf(l, x) \in Nat /\ (l \notin Lots => OutOf(l, x) = 0)
    BY OutOfIs
  <2>3. CASE l \in Lots
    <3>1. OutOf(l, x) <= lots[l].paid[x] - lots[l].left[x]
      BY <2>3 DEF Covered
    <3>2. lots[l].paid[x] \in Nat /\ lots[l].left[x] \in Nat
      <4>1. lots[l].paid \in Figures /\ lots[l].left \in Figures
        BY <2>3, LotFigures DEF StockInv
      <4> QED BY <4>1, FigureIs
    <3> QED BY <2>1, <2>2, <2>3, <3>1, <3>2
  <2>4. CASE l \notin Lots
    BY <2>1, <2>2, <2>4
  <2> QED BY <2>3, <2>4
<1>4. \A l \in Lots' : Covered(l)'
  <2> SUFFICES ASSUME NEW l \in Lots' PROVE Covered(l)'
    OBVIOUS
  <2>1. \A x \in FigureNames : OutOf(l, x)' <= lots'[l].paid[x] - lots'[l].left[x]
    BY <1>2, <1>3
  <2> QED BY <2>1 DEF Covered, FigureNames
<1> QED BY <1>2, <1>4

(***************************************************************************)
(* The sessions of Sales.                                                  *)
(***************************************************************************)
\* What the others were doing, they are doing still.
LEMMA OthersSell ==
  ASSUME NEW t \in Session, Sells(t), Same(t), DOMAIN sales \subseteq DOMAIN sales',
         \A n \in DOMAIN sales : sales'[n] = sales[n],
         pc[t] \notin {"idle", "sale"} /\ req[t].op = "credit" => Alike(req[t].sale, notes, notes')
  PROVE  Sells(t)'
<1> SUFFICES ASSUME pc[t] # "idle" PROVE Sells(t)'
  BY DEF Sells, Same
<1>1. CASE req[t].op = "credit"
  <2>1. CreditReady(t) /\ IsClaim(req[t])
    BY <1>1 DEF Sells, CreditReady
  <2>2. IsClaim(req[t])'
    BY <2>1 DEF IsClaim, Same
  <2>3. GivenBack(req[t])' = GivenBack(req[t])
    <3>1. req[t].sale \in DOMAIN sales /\ sales'[req[t].sale] = sales[req[t].sale] /\ req'[t] = req[t]
      BY <2>1 DEF IsClaim, Same
    <3>2. PICK r, lines : r = req[t] /\ r = req'[t] /\ lines = sales[r.sale].lines /\ lines = sales'[r.sale].lines
      BY <3>1
    <3> DEFINE all == UNION {DOMAIN lines[r.lines[i].line].draws : i \in {i \in DOMAIN r.lines : r.lines[i].quantity > 0}}
    <3>3. GivenBack(req[t]) = all
      BY <3>2 DEF GivenBack
    <3>4. GivenBack(req[t])' = all
      BY <3>2 DEF GivenBack
    <3> QED BY <3>3, <3>4
  <2>4. pc[t] # "sale" => Alike(req[t].sale, plan[t], notes)'
    BY <1>1, <2>1 DEF CreditReady, Alike, Same
  <2>5. CreditReady(t)'
    BY <2>1, <2>2, <2>3, <2>4 DEF CreditReady, Same, Ahead
  <2> QED BY <1>1, <2>5 DEF Sells, Same
<1>2. CASE req[t].op # "credit"
  BY <1>2 DEF Sells, Same
<1> QED BY <1>1, <1>2

LEMMA StillAlike ==
  ASSUME UNCHANGED saleVars
  PROVE  /\ DOMAIN sales \subseteq DOMAIN sales' /\ \A n \in DOMAIN sales : sales'[n] = sales[n]
         /\ \A n : Alike(n, notes, notes')
BY DEF saleVars, Alike

LEMMA SaleLockStands ==
  ASSUME NEW s \in Session, SalesExclude, \A t \in Session \ {s} : Same(t),
         (pc'[s] \in {"idle", "sale"} \/ req'[s].op # "credit") \/ (pc[s] \notin {"idle", "sale"} /\ req'[s] = req[s])
  PROVE  SalesExclude'
<1> SUFFICES ASSUME NEW t \in Session, NEW u \in Session, t # u,
                    (Holds(t, req[t].sale) /\ Holds(u, req[t].sale))'
             PROVE  FALSE
  BY DEF SalesExclude
<1>1. \A v \in Session : \A n : Holds(v, n)' => Holds(v, n) /\ req'[v] = req[v]
  BY DEF Holds, Same
<1> QED BY <1>1 DEF SalesExclude, Holds

LEMMA EndKeeps ==
  ASSUME NEW s \in Session, StockInv, StockInv', StockDoes, SaleInv, UNCHANGED saleVars,
         \A t \in Session \ {s} : Same(t), Sells(s)',
         (pc'[s] \in {"idle", "sale"} \/ req'[s].op # "credit") \/ (pc[s] \notin {"idle", "sale"} /\ req'[s] = req[s])
  PROVE  SaleInv'
<1>1. Documents' /\ Settled' /\ \A l \in Lots' : Covered(l)'
  BY CoveredStands DEF SaleInv
<1>2. \A t \in Session : Sells(t)'
  BY OthersSell, StillAlike DEF SaleInv
<1>3. SalesExclude'
  BY SaleLockStands DEF SaleInv
<1> QED BY <1>1, <1>2, <1>3 DEF SaleInv

LEMMA SequenceOf == ASSUME NEW X, NEW q \in Seq(X) PROVE IsSequence(q)
BY DEF IsSequence

\* The lots of some statements are those of the first and of the rest.
LEMMA AheadIs ==
  ASSUME NEW q, IsSequence(q), q # <<>>
  PROVE  /\ Head(q) = q[1] /\ 1 \in DOMAIN q
         /\ Ahead(q) \subseteq q[1].lots \cup Ahead(Tail(q))
<1> DEFINE S == {q[n] : n \in DOMAIN q}
           r == Tail(q)
<1>1. q \in Seq(S)
  BY DEF IsSequence
<1> HIDE DEF S
<1>2. /\ Head(q) = q[1] /\ 1 \in DOMAIN q
      /\ \A j \in DOMAIN q : j = 1 \/ (j - 1 \in DOMAIN r /\ r[j - 1] = q[j])
  BY <1>1
<1> HIDE DEF r
<1>3. Ahead(q) \subseteq q[1].lots \cup Ahead(r)
  <2> SUFFICES ASSUME NEW j \in DOMAIN q, NEW l \in q[j].lots PROVE l \in q[1].lots \cup Ahead(r)
    BY DEF Ahead
  <2>1. CASE j = 1
    BY <2>1
  <2>2. CASE j - 1 \in DOMAIN r /\ r[j - 1] = q[j]
    BY <2>2 DEF Ahead
  <2> QED BY <1>2, <2>1, <2>2
<1> QED BY <1>2, <1>3 DEF r

LEMMA SelectSells ==
  ASSUME NEW s \in Session, StockInv, StockInv', SaleInv, Select(s), UNCHANGED saleVars
  PROVE  SaleInv'
<1>1. /\ pc[s] = "select" /\ pc' = [pc EXCEPT ![s] = "lock"] /\ todo[s] # <<>>
      /\ want' = [want EXCEPT ![s] = Candidates(Head(todo[s]))]
      /\ UNCHANGED <<lots, journal, req, todo, held, view, plan>>
  BY DEF Select
<1>2. SessionTypes /\ AtWork(s) /\ Sells(s)
  BY <1>1 DEF StockInv, Own, SaleInv
<1>3. \A t \in Session \ {s} : Same(t)
  BY <1>1, <1>2 DEF SessionTypes, Same
<1>4. pc'[s] = "lock" /\ want'[s] = Candidates(Head(todo[s]))
  BY <1>1, <1>2 DEF SessionTypes
<1>5. ASSUME req[s].op = "credit" PROVE CreditReady(s)'
  <2>1. /\ IsClaim(req[s]) /\ Alike(req[s].sale, plan[s], notes)
        /\ \A j \in DOMAIN todo[s] : todo[s][j].by = "lots"
        /\ GivenBack(req[s]) \subseteq held[s] \cup Ahead(todo[s])
    BY <1>1, <1>2, <1>5 DEF Sells, CreditReady
  <2>2. IsSequence(todo[s])
    BY <1>2, <1>5 DEF AtWork, ManyStatements, AreStatements, IsSequence, Selling
  <2>3. /\ Head(todo[s]) = todo[s][1] /\ 1 \in DOMAIN todo[s]
        /\ Ahead(todo[s]) \subseteq todo[s][1].lots \cup Ahead(Tail(todo[s]))
    BY <1>1, <2>2, AheadIs
  <2>4. want'[s] = todo[s][1].lots
    BY <1>4, <2>1, <2>3 DEF Candidates
  <2>5. GivenBack(req[s]) \subseteq held[s] \cup want'[s] \cup Ahead(Tail(todo[s]))
    BY <2>1, <2>3, <2>4
  <2>6. IsClaim(req[s])' /\ GivenBack(req[s])' = GivenBack(req[s]) /\ Alike(req[s].sale, plan[s], notes)'
    <3>1. sales' = sales /\ notes' = notes /\ req' = req /\ plan' = plan
      BY <1>1 DEF saleVars
    <3>2. IsClaim(req[s])'
      BY <2>1, <3>1 DEF IsClaim
    <3>3. GivenBack(req[s])' = GivenBack(req[s])
      BY <3>1 DEF GivenBack
    <3>4. Alike(req[s].sale, plan[s], notes)'
      BY <2>1, <3>1 DEF Alike, NotesOf
    <3> QED BY <3>2, <3>3, <3>4
  <2>7. Ahead(Tail(todo[s]))' = Ahead(Tail(todo[s]))
    BY <1>1 DEF Ahead
  <2> QED BY <1>1, <1>4, <2>1, <2>5, <2>6, <2>7 DEF CreditReady
<1>6. Sells(s)'
  BY <1>1, <1>2, <1>4, <1>5 DEF Sells
<1> QED BY <1>1, <1>3, <1>6, EndKeeps DEF StockDoes

LEMMA LockRowSells ==
  ASSUME NEW s \in Session, StockInv, StockInv', SaleInv, LockRow(s), UNCHANGED saleVars
  PROVE  SaleInv'
<1>1. /\ pc[s] = "lock" /\ UNCHANGED <<lots, journal, pc, req, todo, plan>>
      /\ \E l : held' = [held EXCEPT ![s] = @ \cup {l}] /\ want' = [want EXCEPT ![s] = @ \ {l}]
      /\ \E v : view' = [view EXCEPT ![s] = v]
  BY DEF LockRow
<1>2. SessionTypes /\ Sells(s)
  BY DEF StockInv, SaleInv
<1>3. \A t \in Session \ {s} : Same(t)
  BY <1>1, <1>2 DEF SessionTypes, Same
<1>4. PICK l : held'[s] = held[s] \cup {l} /\ want'[s] = want[s] \ {l}
  BY <1>1, <1>2 DEF SessionTypes
<1>5. ASSUME req[s].op = "credit" PROVE CreditReady(s)'
  <2>1. /\ IsClaim(req[s]) /\ Alike(req[s].sale, plan[s], notes)
        /\ \A j \in DOMAIN todo[s] : todo[s][j].by = "lots"
        /\ GivenBack(req[s]) \subseteq held[s] \cup want[s] \cup Ahead(Tail(todo[s]))
    BY <1>1, <1>2, <1>5 DEF Sells, CreditReady
  <2>2. GivenBack(req[s]) \subseteq held'[s] \cup want'[s] \cup Ahead(Tail(todo[s]))
    BY <1>4, <2>1
  <2>3. IsClaim(req[s])' /\ GivenBack(req[s])' = GivenBack(req[s]) /\ Alike(req[s].sale, plan[s], notes)'
    <3>1. sales' = sales /\ notes' = notes /\ req' = req /\ plan' = plan
      BY <1>1 DEF saleVars
    <3>2. IsClaim(req[s])'
      BY <2>1, <3>1 DEF IsClaim
    <3>3. GivenBack(req[s])' = GivenBack(req[s])
      BY <3>1 DEF GivenBack
    <3>4. Alike(req[s].sale, plan[s], notes)'
      BY <2>1, <3>1 DEF Alike, NotesOf
    <3> QED BY <3>2, <3>3, <3>4
  <2>4. Ahead(Tail(todo[s]))' = Ahead(Tail(todo[s]))
    BY <1>1 DEF Ahead
  <2> QED BY <1>1, <2>1, <2>2, <2>3, <2>4 DEF CreditReady
<1>6. Sells(s)'
  BY <1>1, <1>2, <1>5 DEF Sells
<1> QED BY <1>1, <1>3, <1>6, EndKeeps DEF StockDoes

LEMMA LockedSells ==
  ASSUME NEW s \in Session, StockInv, StockInv', SaleInv, Locked(s), UNCHANGED saleVars
  PROVE  SaleInv'
<1>1. /\ pc[s] = "lock" /\ want[s] = {}
      /\ todo' = [todo EXCEPT ![s] = Tail(@)]
      /\ pc' = [pc EXCEPT ![s] = IF Tail(todo[s]) = <<>> THEN "write" ELSE "select"]
      /\ UNCHANGED <<lots, journal, req, want, held, view, plan>>
  BY DEF Locked
<1>2. SessionTypes /\ AtWork(s) /\ Sells(s)
  BY <1>1 DEF StockInv, Own, SaleInv
<1>3. \A t \in Session \ {s} : Same(t)
  BY <1>1, <1>2 DEF SessionTypes, Same
<1>4. pc'[s] = (IF Tail(todo[s]) = <<>> THEN "write" ELSE "select") /\ todo'[s] = Tail(todo[s])
  BY <1>1, <1>2 DEF SessionTypes
<1>5. ASSUME req[s].op = "credit" PROVE CreditReady(s)'
  <2>1. /\ IsClaim(req[s]) /\ Alike(req[s].sale, plan[s], notes)
        /\ \A j \in DOMAIN todo[s] : todo[s][j].by = "lots"
        /\ GivenBack(req[s]) \subseteq held[s] \cup Ahead(Tail(todo[s]))
    BY <1>1, <1>2, <1>5 DEF Sells, CreditReady
  <2>2. IsSequence(todo[s]) /\ todo[s] # <<>>
    BY <1>1, <1>2, <1>5 DEF AtWork, ManyStatements, AreStatements, IsSequence, Selling
  <2>3. \A j \in DOMAIN Tail(todo[s]) : Tail(todo[s])[j].by = "lots"
    BY <2>1, <2>2, TailIsSequence
  <2>4. Tail(todo[s]) = <<>> => GivenBack(req[s]) \subseteq held[s]
    BY <2>1 DEF Ahead
  <2>5. IsClaim(req[s])' /\ GivenBack(req[s])' = GivenBack(req[s]) /\ Alike(req[s].sale, plan[s], notes)'
    <3>1. sales' = sales /\ notes' = notes /\ req' = req /\ plan' = plan
      BY <1>1 DEF saleVars
    <3>2. IsClaim(req[s])'
      BY <2>1, <3>1 DEF IsClaim
    <3>3. GivenBack(req[s])' = GivenBack(req[s])
      BY <3>1 DEF GivenBack
    <3>4. Alike(req[s].sale, plan[s], notes)'
      BY <2>1, <3>1 DEF Alike, NotesOf
    <3> QED BY <3>2, <3>3, <3>4
  <2>6. Ahead(todo[s])' = Ahead(Tail(todo[s]))
    BY <1>4 DEF Ahead
  <2> QED BY <1>1, <1>4, <2>1, <2>3, <2>4, <2>5, <2>6 DEF CreditReady
<1>6. Sells(s)'
  BY <1>1, <1>2, <1>4, <1>5 DEF Sells
<1> QED BY <1>1, <1>3, <1>6, EndKeeps DEF StockDoes

LEMMA BeginSells ==
  ASSUME NEW s \in Session, StockInv, StockInv', SaleInv, Begin(s), UNCHANGED saleVars
  PROVE  SaleInv'
<1>1. UNCHANGED <<lots, journal, want, held, view>> /\ pc' = [pc EXCEPT ![s] = "select"]
  BY DEF Begin
<1>2. PICK r \in Request :
        /\ r.op \in {"issue", "writeoff", "return", "charge"} /\ req' = [req EXCEPT ![s] = r]
        /\ todo' = [todo EXCEPT ![s] = Statements(r)]
        /\ plan' = [plan EXCEPT ![s] =
             IF r.op = "charge"
             THEN AllocateCharge([l \in OnShipment(r.shipment) |-> lots[l]], r.amount, r.basis)
             ELSE <<>>]
  BY DEF Begin
<1>3. \A t \in Session \ {s} : Same(t)
  BY <1>1, <1>2 DEF StockInv, SessionTypes, Same
<1>4. req'[s].op \in Locking /\ pc'[s] = "select"
  BY <1>1, <1>2 DEF StockInv, SessionTypes, Locking
<1>5. Sells(s)'
  BY <1>4 DEF Sells, Locking
<1> QED BY <1>1, <1>3, <1>4, <1>5, EndKeeps DEF StockDoes, Locking

LEMMA FinishSells ==
  ASSUME NEW s \in Session, StockInv, StockInv', StockDoes, SaleInv, Finish(s), UNCHANGED saleVars
  PROVE  SaleInv'
<1>1. \A t \in Session \ {s} : Same(t)
  BY FinishFrees DEF StockInv
<1>2. pc'[s] = "idle"
  BY DEF Finish, StockInv, SessionTypes
<1> QED BY <1>1, <1>2, EndKeeps DEF Sells

\* Lots and entries come and go, and the sessions look on.
LEMMA IdleSells ==
  ASSUME StockInv, StockInv', StockDoes, SaleInv, Idle, UNCHANGED saleVars
  PROVE  SaleInv'
<1>1. Documents' /\ Settled' /\ \A l \in Lots' : Covered(l)'
  BY CoveredStands DEF SaleInv
<1>2. \A t \in Session : Same(t)
  BY DEF Idle, Same
<1>3. \A t \in Session : Sells(t)'
  BY <1>2, OthersSell, StillAlike DEF SaleInv
<1>4. SalesExclude'
  BY DEF Idle, SaleInv, SalesExclude, Holds
<1> QED BY <1>1, <1>3, <1>4 DEF SaleInv

\* One statement by item for each item shipped.
LEMMA SaleStatementsAre ==
  ASSUME NEW r \in Orders
  PROVE  /\ IsSequence(SaleStatements(r))
         /\ \A j \in DOMAIN SaleStatements(r) : SaleStatements(r)[j].by = "item"
<1> DEFINE X == {[by |-> "item", item |-> i] : i \in Item}
           q == [n \in DOMAIN r.lines |-> [by |-> "item", item |-> r.lines[n].item]]
           P == {n \in DOMAIN r.lines : \A k \in 1..(n - 1) : r.lines[k].item # r.lines[n].item}
<1>1. SaleStatements(r) = At(q, P)
  BY DEF SaleStatements
<1>2. q \in Seq(X)
  <2>1. r.lines \in Seq(SaleLines)
    BY DEF Orders
  <2>2. /\ DOMAIN r.lines = 1..Len(r.lines) /\ Len(r.lines) \in Nat
        /\ \A n \in DOMAIN r.lines : r.lines[n].item \in Item
    <3>1. \A n \in DOMAIN r.lines : r.lines[n] \in SaleLines
      BY <2>1
    <3>2. DOMAIN r.lines = 1..Len(r.lines) /\ Len(r.lines) \in Nat
      BY <2>1
    <3>3. \A line \in SaleLines : line.item \in Item
      BY DEF SaleLines
    <3> QED BY <3>1, <3>2, <3>3
  <2>3. \A n \in DOMAIN r.lines : [by |-> "item", item |-> r.lines[n].item] \in X
    BY <2>2
  <2> HIDE DEF X
  <2> QED BY <2>2, <2>3
<1>3. \A x \in X : x.by = "item"
  OBVIOUS
<1> HIDE DEF X, q, P
<1>4. At(q, P) \in Seq(X)
  BY <1>2, AtIs
<1>5. \A j \in DOMAIN At(q, P) : At(q, P)[j] \in X
  BY <1>4
<1> QED BY <1>1, <1>3, <1>4, <1>5, SequenceOf

LEMMA BeginSaleKeeps ==
  ASSUME NEW s \in Session, StockInv, SaleInv, BeginSale(s)
  PROVE  StockInv' /\ StockDoes /\ SaleInv'
<1>1. PICK r \in Request : r.op = "sell" /\ Ask(s, r, SaleStatements(r), "select")
  BY DEF BeginSale
<1>2. /\ UNCHANGED <<lots, journal, want, held, view, plan, sales, notes>>
      /\ req' = [req EXCEPT ![s] = r] /\ todo' = [todo EXCEPT ![s] = SaleStatements(r)]
      /\ pc' = [pc EXCEPT ![s] = "select"]
  BY <1>1 DEF Ask
<1>3. r \in Orders
  BY <1>1, SaleAssumption
<1>4. SessionTypes /\ Own(s)
  BY DEF StockInv
<1>5. SessionTypes' /\ \A t \in Session \ {s} : Same(t)
  BY <1>2, <1>4 DEF SessionTypes, Same
<1>6. pc'[s] = "select" /\ req'[s] = r /\ todo'[s] = SaleStatements(r)
  BY <1>2, <1>4 DEF SessionTypes
<1>7. ManyStatements(s)'
  <2>1. AreStatements(todo[s])'
    BY <1>3, <1>6, SaleStatementsAre DEF AreStatements, IsSequence
  <2> QED BY <1>6, <2>1 DEF ManyStatements
<1>8. Own(s)'
  <2>1. AtWork(s)'
    BY <1>1, <1>6, <1>7 DEF AtWork, Locking, Selling
  <2> QED BY <1>2, <1>4, <1>6, <2>1 DEF Own, ViewStands, Lots
<1>9. StockInv'
  BY <1>2, <1>5, <1>8, SessionKeeps
<1>10. Sells(s)'
  BY <1>1, <1>6 DEF Sells
<1> QED BY <1>1, <1>2, <1>5, <1>6, <1>9, <1>10, EndKeeps DEF StockDoes, saleVars

LEMMA BeginCreditKeeps ==
  ASSUME NEW s \in Session, StockInv, SaleInv, BeginCredit(s)
  PROVE  StockInv' /\ StockDoes /\ SaleInv'
<1>1. PICK r \in Request :
        /\ r.op = "credit" /\ r.sale \in DOMAIN sales
        /\ \A i \in DOMAIN Asked(r) : Asked(r)[i].line \in DOMAIN sales[r.sale].lines
        /\ \A i, j \in DOMAIN Asked(r) : Asked(r)[i].line = Asked(r)[j].line => i = j
        /\ Ask(s, [r EXCEPT !.lines = Asked(r)], <<>>, "sale")
  BY DEF BeginCredit
<1> DEFINE c == [r EXCEPT !.lines = Asked(r)]
<1>2. /\ UNCHANGED <<lots, journal, want, held, view, plan, sales, notes>>
      /\ req' = [req EXCEPT ![s] = c] /\ todo' = [todo EXCEPT ![s] = <<>>]
      /\ pc' = [pc EXCEPT ![s] = "sale"]
  BY <1>1 DEF Ask
<1>3. r \in Claims
  BY <1>1, SaleAssumption
<1>4. c.op = "credit" /\ c.sale = r.sale /\ c.lines = Asked(r)
  BY <1>1, <1>3 DEF Claims
<1>5. Asked(r) \in Seq(CreditLines)
  <2>1. r.lines \in Seq(CreditLines)
    BY <1>3 DEF Claims
  <2> QED BY <2>1, AtIs DEF Asked
<1> HIDE DEF c
<1>6. IsClaim(c)
  BY <1>1, <1>4, <1>5 DEF IsClaim
<1>7. SessionTypes /\ Own(s)
  BY DEF StockInv
<1>8. SessionTypes' /\ \A t \in Session \ {s} : Same(t)
  BY <1>2, <1>7 DEF SessionTypes, Same
<1>9. pc'[s] = "sale" /\ req'[s] = c /\ todo'[s] = <<>>
  BY <1>2, <1>7 DEF SessionTypes
<1>10. ManyStatements(s)'
  <2>1. AreStatements(<<>>)'
    BY DEF AreStatements
  <2> QED BY <1>9, <2>1 DEF ManyStatements
<1>11. Own(s)'
  <2>1. AtWork(s)'
    BY <1>4, <1>9, <1>10 DEF AtWork, Locking, Selling
  <2> QED BY <1>2, <1>7, <1>9, <2>1 DEF Own, ViewStands, Lots
<1>12. StockInv'
  BY <1>2, <1>8, <1>11, SessionKeeps
<1>13. IsClaim(req[s])'
  BY <1>2, <1>6, <1>9 DEF IsClaim
<1>14. Sells(s)'
  BY <1>4, <1>9, <1>13 DEF Sells, CreditReady
<1> QED BY <1>2, <1>8, <1>9, <1>12, <1>14, EndKeeps DEF StockDoes, saleVars

\* One statement for each line that takes goods back, of the lots they came from.
LEMMA CreditStatementsAre ==
  ASSUME Documents, NEW r, IsClaim(r)
  PROVE  /\ AreStatements(CreditStatements(r))
         /\ \A j \in DOMAIN CreditStatements(r) : CreditStatements(r)[j].by = "lots"
         /\ GivenBack(r) \subseteq Ahead(CreditStatements(r))
<1> DEFINE Of1(i) == DOMAIN sales[r.sale].lines[r.lines[i].line].draws
           X == {[by |-> "lots", lots |-> L] : L \in SUBSET Lots}
           q == [i \in DOMAIN r.lines |-> [by |-> "lots", lots |-> Of1(i)]]
           P == {i \in DOMAIN r.lines : r.lines[i].quantity > 0}
<1>1. CreditStatements(r) = At(q, P)
  BY DEF CreditStatements
<1>2. \A i \in DOMAIN r.lines : Of1(i) \subseteq Lots
  BY DEF IsClaim, Documents, IsInvoice, IsSold
<1>3. GivenBack(r) = UNION {Of1(i) : i \in P}
  BY DEF GivenBack
<1> HIDE DEF Of1
<1>4. q \in Seq(X)
  <2>1. DOMAIN r.lines = 1..Len(r.lines) /\ Len(r.lines) \in Nat
    BY DEF IsClaim
  <2>2. \A i \in DOMAIN r.lines : [by |-> "lots", lots |-> Of1(i)] \in X
    BY <1>2
  <2> HIDE DEF X
  <2> QED BY <2>1, <2>2
<1>5. \A x \in X : x.by = "lots" /\ x.lots \subseteq Lots
  OBVIOUS
<1>6. \A i \in P : i \in DOMAIN q \cap P /\ q[i].lots = Of1(i)
  OBVIOUS
<1> HIDE DEF X, q, P
<1>7. /\ At(q, P) \in Seq(X)
      /\ \A k \in DOMAIN q \cap P : \E j \in DOMAIN At(q, P) : At(q, P)[j] = q[k]
  BY <1>4, AtIs
<1>8. \A j \in DOMAIN At(q, P) : At(q, P)[j] \in X
  BY <1>7
<1>9. IsSequence(At(q, P))
  BY <1>7, SequenceOf
<1>10. GivenBack(r) \subseteq Ahead(At(q, P))
  BY <1>3, <1>6, <1>7 DEF Ahead
<1> QED BY <1>1, <1>5, <1>8, <1>9, <1>10 DEF AreStatements, IsSequence

LEMMA LockSaleKeeps ==
  ASSUME NEW s \in Session, StockInv, SaleInv, LockSale(s)
  PROVE  StockInv' /\ StockDoes /\ SaleInv'
<1> DEFINE q == CreditStatements(req[s])
<1>1. /\ pc[s] = "sale" /\ FreeSale(s, req[s].sale)
      /\ todo' = [todo EXCEPT ![s] = q] /\ plan' = [plan EXCEPT ![s] = notes]
      /\ pc' = [pc EXCEPT ![s] = IF q = <<>> THEN "write" ELSE "select"]
      /\ UNCHANGED <<lots, journal, req, want, held, view, sales, notes>>
  BY DEF LockSale
<1>2. SessionTypes /\ Own(s) /\ AtWork(s) /\ req[s].op = "credit" /\ IsClaim(req[s]) /\ Documents
  BY <1>1 DEF StockInv, Own, SaleInv, Sells, CreditReady
<1>3. /\ AreStatements(q) /\ \A j \in DOMAIN q : q[j].by = "lots"
      /\ GivenBack(req[s]) \subseteq Ahead(q)
  BY <1>2, CreditStatementsAre
<1> HIDE DEF q
<1>4. SessionTypes' /\ \A t \in Session \ {s} : Same(t)
  BY <1>1, <1>2 DEF SessionTypes, Same
<1>5. pc'[s] = (IF q = <<>> THEN "write" ELSE "select") /\ todo'[s] = q /\ plan'[s] = notes
  BY <1>1, <1>2 DEF SessionTypes
<1>6. Own(s)'
  <2>1. ManyStatements(s)'
    BY <1>1, <1>3, <1>5 DEF ManyStatements, AreStatements, Lots
  <2>2. AtWork(s)'
    BY <1>1, <1>2, <2>1 DEF AtWork, Locking, Selling
  <2> QED BY <1>1, <1>2, <1>5, <2>2 DEF Own, ViewStands, Lots
<1>7. StockInv' /\ StockDoes
  BY <1>1, <1>4, <1>6, SessionKeeps DEF StockDoes
<1>8. Documents' /\ Settled' /\ \A l \in Lots' : Covered(l)'
  BY <1>1, <1>7, CoveredStands DEF SaleInv, saleVars
<1>9. Sells(s)'
  <2>1. IsClaim(req[s])' /\ GivenBack(req[s])' = GivenBack(req[s])
    BY <1>1, <1>2 DEF IsClaim, GivenBack
  <2>2. Alike(req[s].sale, plan[s], notes)'
    BY <1>1, <1>5 DEF Alike, NotesOf
  <2>3. q = <<>> => Ahead(q) = {}
    BY DEF Ahead
  <2>4. Ahead(todo[s])' = Ahead(q)
    BY <1>5 DEF Ahead
  <2>5. CreditReady(s)'
    BY <1>1, <1>3, <1>5, <2>1, <2>2, <2>3, <2>4 DEF CreditReady
  <2> QED BY <1>1, <1>2, <2>5, <1>5 DEF Sells
<1>10. \A t \in Session : Sells(t)'
  BY <1>1, <1>4, <1>9, OthersSell, StillAlike DEF SaleInv, saleVars
<1>11. SalesExclude'
  <2> SUFFICES ASSUME NEW t \in Session, NEW u \in Session, t # u,
                      (Holds(t, req[t].sale) /\ Holds(u, req[t].sale))'
               PROVE  FALSE
    BY DEF SalesExclude
  <2>1. \A v \in Session \ {s} : \A n : Holds(v, n)' => Holds(v, n) /\ req'[v] = req[v]
    BY <1>4 DEF Holds, Same
  <2>2. CASE t # s /\ u # s
    BY <2>1, <2>2 DEF SaleInv, SalesExclude, Holds
  <2>3. CASE t = s
    BY <1>1, <2>1, <2>3 DEF FreeSale, Holds
  <2>4. CASE u = s
    BY <1>1, <2>1, <2>4 DEF FreeSale, Holds
  <2> QED BY <2>2, <2>3, <2>4
<1> QED BY <1>7, <1>8, <1>10, <1>11 DEF SaleInv

(***************************************************************************)
(* A sale is written.                                                      *)
(***************************************************************************)
LEMMA DrawnIsGone ==
  ASSUME Rows, NEW draws, DOMAIN draws \subseteq Lots, IsFiniteSet(DOMAIN draws),
         \A l \in DOMAIN draws : IsDraw(draws[l], lots[l].left), lots' = Drawn(draws)
  PROVE  Gone(draws) /\ \A l \in Lots : lots'[l].refunded = lots[l].refunded
<1>1. /\ lots' \in Seq(LotRow) /\ DOMAIN lots' = Lots
      /\ \A l \in Lots : l \notin DOMAIN draws => lots'[l] = lots[l]
      /\ \A l \in DOMAIN draws :
            lots'[l] = [item |-> lots[l].item, shipment |-> lots[l].shipment, day |-> lots[l].day,
                        rate |-> lots[l].rate, paid |-> lots[l].paid,
                        left |-> Less(lots[l].left, draws[l]), refunded |-> lots[l].refunded]
  BY DrawnAre
<1>2. Lots' = Lots
  BY <1>1 DEF Lots
<1>3. ASSUME NEW l \in Lots
      PROVE  /\ lots'[l].item = lots[l].item /\ lots'[l].shipment = lots[l].shipment
             /\ lots'[l].paid = lots[l].paid /\ lots'[l].refunded = lots[l].refunded
             /\ l \notin DOMAIN draws => lots'[l] = lots[l]
             /\ l \in DOMAIN draws => /\ IsDraw(draws[l], lots[l].left)
                                      /\ lots'[l].left = Less(lots[l].left, draws[l])
  <2>1. CASE l \in DOMAIN draws
    <3>1. lots'[l] = [item |-> lots[l].item, shipment |-> lots[l].shipment, day |-> lots[l].day,
                      rate |-> lots[l].rate, paid |-> lots[l].paid,
                      left |-> Less(lots[l].left, draws[l]), refunded |-> lots[l].refunded]
      BY <1>1, <2>1
    <3>2. IsDraw(draws[l], lots[l].left)
      BY <2>1
    <3> QED BY <2>1, <3>1, <3>2
  <2>2. CASE l \notin DOMAIN draws
    BY <1>1, <2>2
  <2> QED BY <2>1, <2>2
<1> QED BY <1>1, <1>2, <1>3 DEF Gone

\* What a session read under lock are rows whose money runs out when they do.
LEMMA ViewIsRows ==
  ASSUME StockInv, NEW s \in Session
  PROVE  AreRows(view[s])
<1>1. /\ IsOpen(view[s]) /\ DOMAIN view[s] \subseteq Lots
      /\ \A l \in DOMAIN view[s] : view[s][l] = lots[l]
  BY ViewIsOpen
<1>2. Rows /\ LotsAreSound
  BY DEF StockInv
<1>3. ASSUME NEW l \in DOMAIN view[s]
      PROVE  view[s][l] \in LotRow /\ (view[s][l].left.quantity = 0 => view[s][l].left = Nothing)
  <2>1. lots[l] \in LotRow /\ Sound(lots[l]) /\ view[s][l] = lots[l]
    BY <1>1, <1>2, LotsAre DEF LotsAreSound
  <2>2. lots[l].left \in Figures
    BY <2>1 DEF LotRow
  <2>3. lots[l].left.quantity = 0 => lots[l].left.cost = 0 /\ lots[l].left.base = 0
    BY <2>1 DEF Sound
  <2> QED BY <2>1, <2>2, <2>3 DEF Figures, Nothing
<1> QED BY <1>1, <1>3 DEF AreRows, IsOpen

LEMMA ShippingKeeps ==
  ASSUME NEW s \in Session, StockInv, SaleInv, WriteSale(s)
  PROVE  /\ StockInv' /\ Leaves(InAll(Shipped(s)))
         /\ req[s] \in Orders /\ CanShip(s) /\ AreRows(view[s]) /\ DOMAIN view[s] \subseteq Lots
<1> DEFINE draws == InAll(Shipped(s))
<1>1. /\ pc[s] = "write" /\ req[s].op = "sell" /\ CanShip(s)
      /\ lots' = Drawn(draws) /\ journal' = Append(journal, Entry("stock", Leaving(draws)))
      /\ Finish(s)
  BY DEF WriteSale, MaySell
<1>2. req[s] \in Orders
  BY <1>1, SaleAssumption DEF SaleInv, Sells
<1>3. /\ AreRows(view[s]) /\ DOMAIN view[s] \subseteq held[s] /\ DOMAIN view[s] \subseteq Lots
      /\ \A l \in DOMAIN view[s] : view[s][l] = lots[l]
  BY ViewIsOpen, ViewIsRows
<1>4. \A l \in DOMAIN draws : l \in DOMAIN view[s] /\ IsDraw(draws[l], view[s][l].left)
  BY <1>1, <1>2, <1>3, ShippedAre
<1> HIDE DEF draws
<1>5. /\ DOMAIN draws \subseteq DOMAIN view[s] /\ DOMAIN draws \subseteq held[s] /\ DOMAIN draws \subseteq Lots
      /\ \A l \in DOMAIN draws : IsDraw(draws[l], lots[l].left)
  BY <1>3, <1>4
<1>6. IsFiniteSet(DOMAIN draws)
  BY <1>3, <1>5, FS_Subset DEF AreRows
<1>7. Rows /\ RefundsWithinCost
  BY DEF StockInv
<1>8. Gone(draws) /\ \A l \in Lots : lots'[l].refunded = lots[l].refunded
  BY <1>1, <1>5, <1>6, <1>7, DrawnIsGone
<1>9. \A l \in DOMAIN draws : draws[l].base \in Nat /\ draws[l].base \in Int
  BY <1>5 DEF IsDraw, Figures
<1>10. Posted("stock", Leaving(draws))
  <2>1. Leaving(draws) \in [Account -> Int]
    BY <1>6, <1>9, LeavingIs
  <2> QED BY <1>1, <1>7, <2>1, PostingIsPosted
<1>11. RefundsWithinCost'
  BY <1>7, <1>8 DEF RefundsWithinCost, Gone
<1>12. StockInv'
  BY <1>1, <1>5, <1>8, <1>10, <1>11, TakingKeeps
<1> QED BY <1>1, <1>2, <1>3, <1>8, <1>9, <1>10, <1>12 DEF Leaves, draws

\* A field of records, summed.
LEMMA SumOfIs ==
  ASSUME NEW records, NEW field
  PROVE  SumOf(records, field) = SumFunctionOnSet([n \in DOMAIN records |-> records[n][field]], DOMAIN records)
<1> DEFINE f == [n \in DOMAIN records |-> records[n][field]]
<1>1. DOMAIN f = DOMAIN records /\ SumOf(records, field) = SumFunction(f)
  BY DEF SumOf
<1> HIDE DEF f
<1>2. SumFunction(f) = SumFunctionOnSet(f, DOMAIN f)
  BY DEF SumFunction, FoldFunction, SumFunctionOnSet
<1> QED BY <1>1, <1>2 DEF f

LEMMA NothingConverts == \A rate \in Nat : Convert(0, rate) = 0
<1> SUFFICES ASSUME NEW rate \in Nat PROVE Convert(0, rate) = 0
  OBVIOUS
<1>1. 0 * rate = 0 /\ RateScale \in Nat \ {0} /\ 0 <= 0 * RateScale
  BY ScaleAssumption
<1>2. DivideRounding(0, RateScale) \in Nat /\ DivideRounding(0, RateScale) <= 0
  BY <1>1, RoundingIsBounded
<1> QED BY <1>1, <1>2 DEF Convert

\* What a sale is priced at, and what it ships, is an invoice.
LEMMA PricedIs ==
  ASSUME NEW r \in Orders, NEW draws, NEW open, DOMAIN draws = DOMAIN r.lines, DOMAIN open \subseteq Lots,
         \A n \in DOMAIN draws : ShipsLine(draws[n], open, r.lines[n].quantity),
         Priced(r, draws).net > 0
  PROVE  /\ IsInvoice(Priced(r, draws))
         /\ DOMAIN Priced(r, draws).lines = DOMAIN draws
         /\ \A k \in DOMAIN draws : Priced(r, draws).lines[k].draws = draws[k]
<1> DEFINE sale == Priced(r, draws)
           net == SumOf(r.lines, "amount")
           tax == TaxOn(net, r.taxRate)
           line(k) == [item |-> r.lines[k].item, quantity |-> r.lines[k].quantity,
                       amount |-> r.lines[k].amount, revenue |-> Convert(r.lines[k].amount, r.rate),
                       draws |-> draws[k]]
<1>1. r.rate \in Nat /\ r.taxRate \in Nat /\ r.lines \in Seq(SaleLines)
  BY DEF Orders
<1>2. IsFiniteSet(DOMAIN r.lines) /\ \A n \in DOMAIN r.lines : r.lines[n] \in SaleLines
  <2>1. DOMAIN r.lines = 1..Len(r.lines) /\ Len(r.lines) \in Nat /\ \A n \in DOMAIN r.lines : r.lines[n] \in SaleLines
    BY <1>1
  <2> QED BY <2>1, FS_Interval
<1>3. \A n \in DOMAIN r.lines : r.lines[n].quantity \in Nat \ {0} /\ r.lines[n].amount \in Nat
  BY <1>2 DEF SaleLines
<1>4. /\ sale.net = net /\ sale.tax = tax /\ sale.baseTax = Convert(tax, r.rate)
      /\ sale.rate = r.rate /\ sale.taxRate = r.taxRate
      /\ sale.lines = [k \in DOMAIN draws |-> line(k)]
  BY DEF Priced
<1>5. net \in Nat
  <2> DEFINE f == [n \in DOMAIN r.lines |-> r.lines[n]["amount"]]
  <2>1. net = SumFunctionOnSet(f, DOMAIN r.lines)
    BY SumOfIs
  <2>2. \A n \in DOMAIN r.lines : f[n] \in Nat
    BY <1>3
  <2> HIDE DEF f, net
  <2> QED BY <1>2, <2>1, <2>2, SumIsNat
<1> HIDE DEF net
<1>6. tax \in Nat
  <2>1. net * r.taxRate \in Nat /\ TaxScale \in Nat \ {0}
    BY <1>1, <1>5, ProductOfNats, TaxAssumption
  <2> QED BY <2>1, RoundingIsBounded DEF TaxOn
<1> HIDE DEF tax, sale
<1>7. sale.baseTax \in Nat /\ sale.net \in Nat \ {0}
  <2>1. Convert(tax, r.rate) \in Nat
    BY <1>1, <1>6, ConvertIsNat
  <2>2. sale.net > 0
    BY DEF sale
  <2> QED BY <1>4, <1>5, <2>1, <2>2
<1>8. ASSUME NEW k \in DOMAIN draws PROVE IsSold(line(k))
  <2>1. /\ line(k).quantity = r.lines[k].quantity /\ line(k).amount = r.lines[k].amount
        /\ line(k).revenue = Convert(r.lines[k].amount, r.rate) /\ line(k).draws = draws[k]
    OBVIOUS
  <2>2. r.lines[k].quantity \in Nat \ {0} /\ r.lines[k].amount \in Nat
    BY <1>3
  <2>3. Convert(r.lines[k].amount, r.rate) \in Nat /\ Convert(0, r.rate) = 0
    BY <1>1, <2>2, ConvertIsNat, NothingConverts
  <2>4. ShipsLine(draws[k], open, r.lines[k].quantity)
    OBVIOUS
  <2> HIDE DEF line
  <2>5. /\ IsFiniteSet(DOMAIN draws[k]) /\ DOMAIN draws[k] \subseteq Lots
        /\ \A l \in DOMAIN draws[k] : draws[k][l] \in Figures /\ draws[k][l].quantity > 0
        /\ SumOf(draws[k], "quantity") = r.lines[k].quantity
    BY <2>4 DEF ShipsLine, AreDraws
  <2> QED BY <2>1, <2>2, <2>3, <2>5 DEF IsSold
<1>9. \A k \in DOMAIN draws : sale.lines[k] = line(k) /\ line(k).draws = draws[k]
  BY <1>4
<1> HIDE DEF line
<1>10. DOMAIN sale.lines = DOMAIN draws
  BY <1>4
<1>11. IsInvoice(sale)
  BY <1>1, <1>2, <1>4, <1>6, <1>7, <1>8, <1>9, <1>10 DEF IsInvoice
<1> QED BY <1>9, <1>10, <1>11 DEF sale

\* Nothing has been credited yet of an invoice that is not there.
LEMMA NothingCredited ==
  ASSUME Documents, NEW n, n \notin DOMAIN sales
  PROVE  /\ \A f : CreditedInAll(n, f, notes) = 0
         /\ \A k, f : Credited(n, k, f, notes) = 0
         /\ \A k, l : Restored(n, k, l, notes) = Nothing
<1>1. AreNotes(notes)
  BY DocumentsAre
<1>2. \A m \in DOMAIN notes : notes[m].sale # n
  BY DEF Documents, IsNote
<1>3. NotesOf(n, notes) = {} /\ \A k : OnLine(n, k, notes) = {}
  BY <1>2, NoteLineIs DEF NotesOf, OnLine
<1>4. \A f : CreditedInAll(n, f, notes) = 0
  BY <1>1, <1>3, CreditedInAllIs, SumOfNone
<1>5. \A k, f : Credited(n, k, f, notes) = 0
  BY <1>1, <1>3, CreditedIs, SumOfNone
<1>6. ASSUME NEW k, NEW l PROVE Restored(n, k, l, notes) = Nothing
  <2>1. /\ Restored(n, k, l, notes) \in Figures
        /\ \A x \in FigureNames :
             Restored(n, k, l, notes)[x] =
               SumFunctionOnSet([p \in OnLine(n, k, notes) |-> DrawOf(LineAt(p, notes).restored, l)[x]], {})
    <3>1. /\ Restored(n, k, l, notes) \in Figures
          /\ \A x \in FigureNames :
               Restored(n, k, l, notes)[x] =
                 SumFunctionOnSet([p \in OnLine(n, k, notes) |-> DrawOf(LineAt(p, notes).restored, l)[x]], OnLine(n, k, notes))
      BY ONLY <1>1, RestoredIs
    <3>2. OnLine(n, k, notes) = {}
      BY <1>3
    <3> QED BY <3>1, <3>2
  <2>2. \A x \in FigureNames : Restored(n, k, l, notes)[x] = 0
    BY <2>1, SumOfNone
  <2> QED BY <2>1, <2>2 DEF Figures, FigureNames, Nothing
<1> QED BY <1>4, <1>5, <1>6

\* An invoice more.
LEMMA SaleStands ==
  ASSUME Documents, Settled, NEW sale, IsInvoice(sale), Lots' = Lots,
         sales' = Append(sales, sale), notes' = notes
  PROVE  /\ Documents' /\ Settled'
         /\ DOMAIN sales \subseteq DOMAIN sales' /\ \A n \in DOMAIN sales : sales'[n] = sales[n]
         /\ \A l : \A x \in FigureNames :
              OutOf(l, x)' = OutOf(l, x)
                + SumFunctionOnSet([k \in DOMAIN sale.lines |-> DrawOf(sale.lines[k].draws, l)[x]], DOMAIN sale.lines)
<1>0. PICK N : N = Len(sales) + 1
  OBVIOUS
<1> DEFINE K == DOMAIN sale.lines
           New == {<<N, k>> : k \in K}
<1>1. /\ IsSequence(sales') /\ DOMAIN sales' = DOMAIN sales \cup {N} /\ N \notin DOMAIN sales
      /\ sales'[N] = sale /\ \A n \in DOMAIN sales : sales'[n] = sales[n]
  <2>1. IsSequence(sales)
    BY DEF Documents
  <2>2. /\ IsSequence(sales') /\ DOMAIN sales' = 1..N /\ DOMAIN sales = 1..Len(sales) /\ Len(sales) \in Nat
        /\ sales'[N] = sale /\ \A n \in DOMAIN sales : sales'[n] = sales[n]
    BY <1>0, <2>1, AppendIsSequence
  <2>3. DOMAIN sales' = DOMAIN sales \cup {N} /\ N \notin DOMAIN sales
    BY <1>0, <2>2
  <2> QED BY <2>2, <2>3
<1>2. /\ \A f : CreditedInAll(N, f, notes) = 0
      /\ \A k, f : Credited(N, k, f, notes) = 0
      /\ \A k, l : Restored(N, k, l, notes) = Nothing
  BY <1>1, NothingCredited
<1>3. /\ \A n, f : CreditedInAll(n, f, notes)' = CreditedInAll(n, f, notes)
      /\ \A n, k, f : Credited(n, k, f, notes)' = Credited(n, k, f, notes)
      /\ \A n, k, l : Restored(n, k, l, notes)' = Restored(n, k, l, notes)
  <2>1. \A n, f : CreditedInAll(n, f, notes)' = CreditedInAll(n, f, notes)
    BY DEF CreditedInAll, NotesOf, SumOf
  <2>2. \A n, k, f : Credited(n, k, f, notes)' = Credited(n, k, f, notes)
    BY DEF Credited, OnLine, NoteLines, LineAt, SumOf
  <2>3. \A n, k, l : Restored(n, k, l, notes)' = Restored(n, k, l, notes)
    BY DEF Restored, OnLine, NoteLines, LineAt, Total, SumOf, DrawOf, Nothing
  <2> QED BY <2>1, <2>2, <2>3
<1>4. /\ IsFiniteSet(K) /\ \A k \in K : IsSold(sale.lines[k])
      /\ sale.net \in Nat \ {0} /\ sale.tax \in Nat /\ sale.baseTax \in Nat
  BY DEF IsInvoice
<1>5. \A n \in DOMAIN sales : \A k, l : Out(n, k, l)' = Out(n, k, l)
  BY <1>1, <1>3 DEF Out, DrawOf, Less, Nothing
<1>6. ASSUME NEW k \in K, NEW l
      PROVE  Out(N, k, l)' = DrawOf(sale.lines[k].draws, l) /\ DrawOf(sale.lines[k].draws, l) \in Figures
  <2> DEFINE d == DrawOf(sale.lines[k].draws, l)
  <2>1. AreDraws(sale.lines[k].draws)
    BY <1>4 DEF IsSold, AreDraws
  <2>2. d \in Figures
    BY <2>1, DrawOfIs
  <2>3. Out(N, k, l)' = Less(d, Nothing)
    BY <1>1, <1>2, <1>3 DEF Out, DrawOf, Less, Nothing
  <2> HIDE DEF d
  <2>4. Less(d, Nothing) = d
    BY <2>2, LessIsFigures, FigureIs
  <2> QED BY <2>2, <2>3, <2>4 DEF d
<1>7. Sold' = Sold \cup New /\ Sold \cap New = {} /\ IsFiniteSet(Sold) /\ IsFiniteSet(New)
  <2>1. Sold' = Sold \cup ({N} \X K)
    <3>1. \A n \in DOMAIN sales : {n} \X DOMAIN sales'[n].lines = {n} \X DOMAIN sales[n].lines
      BY <1>1
    <3>2. {N} \X DOMAIN sales'[N].lines = {N} \X K
      BY <1>1
    <3> QED BY <1>1, <3>1, <3>2 DEF Sold
  <2>2. {N} \X K = New
    OBVIOUS
  <2>3. Sold \cap New = {}
    BY <1>1, SoldIs
  <2>4. IsFiniteSet({N} \X K)
    BY <1>4, FS_Singleton, FS_Product
  <2>5. IsFiniteSet(Sold)
    BY DEF Documents
  <2> HIDE DEF New
  <2> QED BY <2>1, <2>2, <2>3, <2>4, <2>5
<1>8. Documents'
  <2>1. IsSequence(notes)' /\ IsFiniteSet(NoteLines(notes))'
    BY DEF Documents, IsSequence, NoteLines
  <2>2. IsFiniteSet(Sold')
    BY <1>7, FS_Union
  <2>3. \A it : IsInvoice(it) => IsInvoice(it)'
    <3>1. \A it : IsSold(it) => IsSold(it)'
      BY DEF IsSold, SumOf
    <3> QED BY <3>1 DEF IsInvoice
  <2>4. \A n \in DOMAIN sales' : IsInvoice(sales[n])'
    BY <1>1, <2>3 DEF Documents
  <2>5. \A it : IsNote(it) => IsNote(it)'
    BY <1>1 DEF IsNote, IsCredited
  <2>6. \A m \in DOMAIN notes' : IsNote(notes[m])'
    BY <2>5 DEF Documents
  <2> QED BY <1>1, <2>1, <2>2, <2>4, <2>6 DEF Documents, IsSequence
<1>9. Settled'
  <2>1. ASSUME NEW n \in DOMAIN sales PROVE NetSettled(n)'
    BY <1>1, <1>3 DEF Settled, NetSettled, Settles
  <2>2. NetSettled(N)'
    BY <1>1, <1>2, <1>3, <1>4 DEF NetSettled, Settles
  <2>3. ASSUME NEW n \in DOMAIN sales, NEW k \in DOMAIN sales[n].lines PROVE LineSettled(n, k)'
    <3>1. /\ \A l : Out(n, k, l)' \in Figures <=> Out(n, k, l) \in Figures
          /\ \A l : (Out(n, k, l) = Nothing)' <=> Out(n, k, l) = Nothing
          /\ \A l : Out(n, k, l).quantity' = Out(n, k, l).quantity
      BY <1>5 DEF Nothing
    <3> QED BY <1>1, <1>3, <3>1 DEF Settled, LineSettled, Settles
  <2>4. ASSUME NEW k \in K PROVE LineSettled(N, k)'
    <3> DEFINE sold == sale.lines[k]
               zero == [l \in DOMAIN sold.draws |-> Nothing.quantity]
    <3>1. IsSold(sold)
      BY <1>4
    <3>2. sold.quantity \in Nat /\ sold.amount \in Nat /\ sold.revenue \in Nat /\ (sold.amount = 0 => sold.revenue = 0)
      BY <3>1 DEF IsSold
    <3>3. SumFunction(zero) = 0
      <4>1. IsFiniteSet(DOMAIN zero) /\ \A l \in DOMAIN zero : zero[l] = 0
        BY <3>1 DEF IsSold, Nothing
      <4> HIDE DEF zero
      <4>2. SumFunction(zero) = SumFunctionOnSet(zero, DOMAIN zero)
        BY DEF SumFunction, FoldFunction, SumFunctionOnSet
      <4> QED BY <4>1, <4>2, SumOfZeros
    <3>4. ASSUME NEW l \in DOMAIN sold.draws
          PROVE  Out(N, k, l)' \in Figures /\ Out(N, k, l)'.quantity # 0
      <4>1. Out(N, k, l)' = sold.draws[l] /\ sold.draws[l] \in Figures
        BY <1>6 DEF DrawOf
      <4>2. sold.draws[l].quantity > 0
        BY <3>1 DEF IsSold
      <4> QED BY <4>1, <4>2
    <3>5. \A l : Restored(N, k, l, notes)' = Nothing
      BY <1>2, <1>3
    <3>6. sales'[N].lines[k] = sold
      BY <1>1
    <3>7. \A f : Credited(N, k, f, notes)' = 0
      BY <1>2, <1>3
    <3> HIDE DEF sold
    <3> QED BY <3>2, <3>3, <3>4, <3>5, <3>6, <3>7 DEF LineSettled, Settles
  <2> QED BY <1>1, <2>1, <2>2, <2>3, <2>4 DEF Settled
<1>10. ASSUME NEW l, NEW x \in FigureNames
       PROVE  OutOf(l, x)' = OutOf(l, x)
                + SumFunctionOnSet([k \in DOMAIN sale.lines |-> DrawOf(sale.lines[k].draws, l)[x]], DOMAIN sale.lines)
  <2> DEFINE now == [p \in Sold' |-> Out(p[1], p[2], l)'[x]]
             new == [k \in DOMAIN sale.lines |-> DrawOf(sale.lines[k].draws, l)[x]]
             at == [k \in K |-> <<N, k>>]
  <2>1. OutOf(l, x)' = SumFunctionOnSet(now, Sold')
    BY DEF OutOf
  <2>2. /\ OutOf(l, x) = SumFunctionOnSet(OutAt(l, x), Sold)
        /\ \A p \in Sold : OutAt(l, x)[p] \in Int
    BY OutOfIs
  <2>3. \A p \in Sold : now[p] = OutAt(l, x)[p]
    BY <1>5, <1>7, SoldIs DEF OutAt
  <2>4. \A k \in K : now[at[k]] = new[k] /\ new[k] \in Int
    <3> TAKE k \in K
    <3>1. at[k] \in Sold' /\ at[k][1] = N /\ at[k][2] = k
      BY <1>7
    <3>2. now[at[k]] = Out(N, k, l)'[x]
      BY <3>1
    <3>3. Out(N, k, l)' = DrawOf(sale.lines[k].draws, l) /\ DrawOf(sale.lines[k].draws, l) \in Figures
      BY <1>6
    <3> QED BY <3>2, <3>3, FigureIs
  <2>5. New = {at[k] : k \in K} /\ \A j, k \in K : at[j] = at[k] => j = k
    OBVIOUS
  <2> HIDE DEF now, new, at, New, K
  <2>6. SumFunctionOnSet(now, New) = SumFunctionOnSet(new, K)
    <3>1. /\ IsFiniteSet(K) /\ \A j, k \in K : at[j] = at[k] => j = k
          /\ \A k \in K : now[at[k]] \in Int /\ new[k] = now[at[k]]
      BY <1>4, <2>4, <2>5
    <3>2. SumFunctionOnSet(now, {at[k] : k \in K}) = SumFunctionOnSet(new, K)
      BY ONLY <3>1, SumOfImage
    <3> QED BY <2>5, <3>2
  <2>7. SumFunctionOnSet(now, Sold \cup New) = SumFunctionOnSet(now, Sold) + SumFunctionOnSet(now, New)
    <3>1. IsFiniteSet(Sold \cup New)
      BY <1>7, FS_Union
    <3>2. \A p \in Sold \cup New : now[p] \in Int
      BY <2>2, <2>3, <2>4, <2>5
    <3>3. (Sold \cup New) \ Sold = New /\ Sold \in SUBSET (Sold \cup New)
      BY <1>7
    <3>4. SumFunctionOnSet(now, Sold \cup New)
            = SumFunctionOnSet(now, Sold) + SumFunctionOnSet(now, (Sold \cup New) \ Sold)
      BY ONLY <3>1, <3>2, <3>3, SumOfParts
    <3> QED BY <3>3, <3>4
  <2>8. SumFunctionOnSet(now, Sold) = SumFunctionOnSet(OutAt(l, x), Sold)
    BY <1>7, <2>3, SumsAgree
  <2> QED BY <1>7, <2>1, <2>2, <2>6, <2>7, <2>8 DEF new, K
<1> QED BY <1>1, <1>8, <1>9, <1>10

LEMMA WriteSaleKeeps ==
  ASSUME NEW s \in Session, StockInv, SaleInv, WriteSale(s)
  PROVE  StockInv' /\ StockDoes /\ SaleInv'
<1> DEFINE draws == Shipped(s)
           all == InAll(draws)
           sale == Priced(req[s], draws)
<1>1. /\ StockInv' /\ Leaves(all)
      /\ req[s] \in Orders /\ CanShip(s) /\ AreRows(view[s]) /\ DOMAIN view[s] \subseteq Lots
  BY ShippingKeeps
<1>2. /\ DOMAIN draws = DOMAIN req[s].lines /\ IsFiniteSet(DOMAIN draws)
      /\ \A n \in DOMAIN draws : ShipsLine(draws[n], view[s], req[s].lines[n].quantity)
  BY <1>1, ShippedAre
<1>3. sale.net > 0 /\ sales' = Append(sales, sale) /\ notes' = notes /\ Finish(s)
  BY DEF WriteSale, MaySell
<1> HIDE DEF draws
<1>4. IsInvoice(sale) /\ DOMAIN sale.lines = DOMAIN draws /\ \A k \in DOMAIN draws : sale.lines[k].draws = draws[k]
  BY <1>1, <1>2, <1>3, PricedIs
<1> HIDE DEF sale
<1>5. Gone(all) /\ Lots' = Lots /\ StockDoes
  BY <1>1 DEF Leaves, Gone, StockDoes
<1> HIDE DEF all
<1>6. /\ Documents' /\ Settled'
      /\ DOMAIN sales \subseteq DOMAIN sales' /\ \A n \in DOMAIN sales : sales'[n] = sales[n]
      /\ \A l : \A x \in FigureNames :
           OutOf(l, x)' = OutOf(l, x)
             + SumFunctionOnSet([k \in DOMAIN sale.lines |-> DrawOf(sale.lines[k].draws, l)[x]], DOMAIN sale.lines)
  <2>1. Documents /\ Settled
    BY DEF SaleInv
  <2>2. Documents /\ Settled /\ IsInvoice(sale) /\ Lots' = Lots /\ sales' = Append(sales, sale) /\ notes' = notes
    BY <1>3, <1>4, <1>5, <2>1
  <2> QED BY ONLY <2>2, SaleStands
<1>7. ASSUME NEW l, NEW x \in FigureNames
      PROVE  OutOf(l, x)' = OutOf(l, x) + DrawOf(all, l)[x]
  <2>1. \A k \in DOMAIN draws : AreDraws(draws[k])
    BY <1>2 DEF ShipsLine
  <2>2. IsFiniteSet(DOMAIN draws) /\ \A k \in DOMAIN draws : AreDraws(draws[k])
    BY <1>2, <2>1
  <2>3. \A y \in FigureNames :
          DrawOf(InAll(draws), l)[y] = SumFunctionOnSet(PartsOf(draws, l, y), DOMAIN draws)
    BY ONLY <2>2, InAllIs
  <2>4. [k \in DOMAIN sale.lines |-> DrawOf(sale.lines[k].draws, l)[x]] = PartsOf(draws, l, x)
    BY <1>4 DEF PartsOf
  <2> QED BY <1>4, <1>6, <2>3, <2>4 DEF all
<1>8. ASSUME NEW l \in Lots' PROVE Covered(l)'
  <2>1. ASSUME NEW x \in FigureNames PROVE OutOf(l, x)' <= lots'[l].paid[x] - lots'[l].left[x]
    <3>1. l \in Lots /\ OutOf(l, x) <= lots[l].paid[x] - lots[l].left[x] /\ OutOf(l, x) \in Nat
      BY <1>5, OutOfIs DEF SaleInv, Covered
    <3>2. lots[l].paid[x] \in Nat /\ lots[l].left[x] \in Nat
      <4>1. lots[l].paid \in Figures /\ lots[l].left \in Figures
        BY <3>1, LotFigures DEF StockInv
      <4> QED BY <4>1, FigureIs
    <3>3. DrawOf(all, l)[x] \in Nat /\ lots'[l].paid[x] = lots[l].paid[x]
          /\ lots'[l].left[x] = lots[l].left[x] - DrawOf(all, l)[x]
      <4>1. CASE l \in DOMAIN all
        <5>1. all[l] \in Figures /\ lots'[l].left = Less(lots[l].left, all[l]) /\ lots'[l].paid = lots[l].paid
          BY <1>5, <3>1, <4>1 DEF Gone, IsDraw
        <5>2. DrawOf(all, l) = all[l]
          BY <4>1 DEF DrawOf
        <5> QED BY <5>1, <5>2, FigureIs
      <4>2. CASE l \notin DOMAIN all
        <5>1. lots'[l] = lots[l]
          BY <1>5, <3>1, <4>2 DEF Gone
        <5>2. DrawOf(all, l) = Nothing
          BY <4>2 DEF DrawOf
        <5> QED BY <3>2, <5>1, <5>2, FigureIs
      <4> QED BY <4>1, <4>2
    <3> QED BY <1>7, <3>1, <3>2, <3>3
  <2> QED BY <2>1 DEF Covered
<1>9. /\ \A t \in Session \ {s} : Same(t)
      /\ pc'[s] = "idle"
  BY <1>3, FinishFrees DEF StockInv, Finish, SessionTypes
<1>10. \A n : Alike(n, notes, notes')
  BY <1>3 DEF Alike
<1>11. \A t \in Session : Sells(t)'
  <2>1. \A t \in Session \ {s} : Sells(t)'
    BY <1>6, <1>9, <1>10, OthersSell DEF SaleInv
  <2>2. Sells(s)'
    BY <1>9 DEF Sells
  <2> QED BY <2>1, <2>2
<1>12. SalesExclude'
  BY <1>9, SaleLockStands DEF SaleInv
<1> QED BY <1>1, <1>5, <1>6, <1>8, <1>11, <1>12 DEF SaleInv

(***************************************************************************)
(* A credit note is written.                                               *)
(***************************************************************************)
LEMMA ShareOfIs ==
  ASSUME NEW whole \in Nat, NEW part \in Nat, NEW basis \in Int
  PROVE  /\ ShareOf(whole, part, basis) \in 0..whole
         /\ part > 0 /\ basis > 0 /\ part >= basis => ShareOf(whole, part, basis) = whole
<1>1. CASE part <= 0 \/ basis <= 0 \/ part >= basis
  BY <1>1 DEF ShareOf
<1>2. CASE ~(part <= 0 \/ basis <= 0) /\ ~(part >= basis)
  <2>1. basis \in Nat \ {0} /\ part \in 0..basis
    BY <1>2
  <2>2. DivideRounding(whole * part, basis) \in 0..whole
    BY <2>1, ShareIsPart
  <2> QED BY <1>2, <2>2 DEF ShareOf
<1> QED BY <1>1, <1>2

\* Of what is left of the tax, some; and all of it, with the last of the net.
MayTake(credit, net, netLeft, taxLeft, baseTaxLeft) ==
  /\ credit.tax \in 0..taxLeft /\ credit.baseTax \in 0..baseTaxLeft
  /\ net >= netLeft => credit.tax = taxLeft /\ credit.baseTax = baseTaxLeft

LEMMA CreditTaxIs ==
  ASSUME NEW sale, sale.rate \in Nat, sale.taxRate \in Nat,
         NEW net \in Nat, NEW netLeft \in Int, NEW taxLeft \in Nat, NEW baseTaxLeft \in Nat
  PROVE  MayTake(CreditTax(sale, net, netLeft, taxLeft, baseTaxLeft), net, netLeft, taxLeft, baseTaxLeft)
<1> DEFINE tax == AtMost(TaxOn(net, sale.taxRate), taxLeft)
           baseTax == AtMost(Convert(tax, sale.rate), baseTaxLeft)
<1>1. TaxOn(net, sale.taxRate) \in Nat
  <2>1. net * sale.taxRate \in Nat /\ TaxScale \in Nat \ {0}
    BY ProductOfNats, TaxAssumption
  <2> QED BY <2>1, RoundingIsBounded DEF TaxOn
<1>2. tax \in 0..taxLeft
  BY <1>1 DEF AtMost
<1> HIDE DEF tax
<1>3. Convert(tax, sale.rate) \in Nat
  <2>1. tax \in Nat /\ sale.rate \in Nat
    BY <1>2
  <2> QED BY ONLY <2>1, ConvertIsNat
<1>4. baseTax \in 0..baseTaxLeft
  BY <1>3 DEF AtMost
<1> HIDE DEF baseTax
<1>5. CreditTax(sale, net, netLeft, taxLeft, baseTaxLeft) =
        IF net >= netLeft THEN [tax |-> taxLeft, baseTax |-> baseTaxLeft] ELSE [tax |-> tax, baseTax |-> baseTax]
  BY DEF CreditTax, tax, baseTax
<1> QED BY <1>2, <1>4, <1>5 DEF MayTake

\* Goods put back are out of what is out, as many as were asked for.
LEMMA RestoreIs ==
  ASSUME NEW out, IsOpen(out), NEW quantity \in Nat, quantity <= Available(out, DOMAIN out)
  PROVE  LET back == Restore(out, quantity)
         IN  /\ DOMAIN back \subseteq DOMAIN out /\ IsFiniteSet(DOMAIN back)
             /\ \A l \in DOMAIN back : IsDraw(back[l], out[l].left)
             /\ SumFunctionOnSet(Each(back, "quantity"), DOMAIN back) = quantity
             /\ quantity = 0 => DOMAIN back = {}
<1> DEFINE back == Restore(out, quantity)
           takes == Takes(out, quantity, "lifo", NoLot)
<1>1. CanAllocate(out, quantity, "lifo", NoLot) /\ back = Allocate(out, quantity, "lifo", NoLot)
  BY DEF CanAllocate, Restore
<1>2. IsAllocation(back, takes, out)
  BY <1>1, AllocatedDraws
<1>3. ASSUME quantity = 0 PROVE \A l \in DOMAIN out : takes[l] = 0
  <2> TAKE l \in DOMAIN out
  <2> DEFINE A == AheadOf(out, "lifo", l)
  <2>1. takes[l] = Given(quantity - Available(out, A), out[l].left.quantity)
    <3>1. "lifo" \in InLine
      BY DEF InLine
    <3>2. takes = [k \in DOMAIN out |->
                     Given(quantity - Available(out, AheadOf(out, "lifo", k)), out[k].left.quantity)]
      BY ONLY <3>1, TakesInLine
    <3> HIDE DEF takes
    <3> QED BY <3>2
  <2>2. Available(out, A) \in Nat
    <3>1. A \in SUBSET DOMAIN out
      BY DEF AheadOf
    <3>2. IsFiniteSet(A)
      BY <3>1, FS_Subset DEF IsOpen
    <3>3. \A k \in A : Remaining(out)[k] \in Nat
      BY <3>1 DEF Remaining, IsOpen, Figures
    <3> HIDE DEF A
    <3> QED BY <3>2, <3>3, SumIsNat DEF Available
  <2> QED BY <1>3, <2>1, <2>2 DEF Given
<1> HIDE DEF takes
<1>4. quantity = 0 => DOMAIN back = {}
  BY <1>2, <1>3 DEF IsAllocation
<1>5. quantity # 0 => SumFunction([l \in DOMAIN back |-> back[l].quantity]) = quantity
  BY <1>1, AllocationIsExact
<1> HIDE DEF back
<1>6. DOMAIN back \subseteq DOMAIN out /\ IsFiniteSet(DOMAIN back) /\ \A l \in DOMAIN back : IsDraw(back[l], out[l].left)
  BY <1>2 DEF IsAllocation
<1>7. SumFunctionOnSet(Each(back, "quantity"), DOMAIN back) = quantity
  <2> DEFINE f == [l \in DOMAIN back |-> back[l].quantity]
  <2>1. Each(back, "quantity") = f /\ DOMAIN f = DOMAIN back
    BY DEF Each
  <2> HIDE DEF f
  <2>2. SumFunction(f) = SumFunctionOnSet(f, DOMAIN f)
    BY DEF SumFunction, FoldFunction, SumFunctionOnSet
  <2>3. quantity = 0 => SumFunctionOnSet(f, DOMAIN back) = 0
    BY <1>4, SumOfNone
  <2> QED BY <1>5, <2>1, <2>2, <2>3 DEF f
<1> QED BY <1>4, <1>6, <1>7 DEF back

\* What is still out of a line sold is what it sold less what came back.
LEMMA StillOutIs ==
  ASSUME StockInv, Documents, Settled, NEW n \in DOMAIN sales, NEW k \in DOMAIN sales[n].lines
  PROVE  LET out == StillOut(n, k, notes)
             sold == sales[n].lines[k]
         IN  /\ IsOpen(out) /\ DOMAIN out = DOMAIN sold.draws
             /\ \A l \in DOMAIN out : out[l].left = Out(n, k, l)
             /\ Available(out, DOMAIN out) = sold.quantity - Credited(n, k, "quantity", notes)
<1> DEFINE out == StillOut(n, k, notes)
           sold == sales[n].lines[k]
           D == DOMAIN sold.draws
           there == [l \in D |-> sold.draws[l].quantity]
           back == [l \in D |-> Restored(n, k, l, notes).quantity]
<1>1. /\ IsFiniteSet(D) /\ D \subseteq Lots /\ \A l \in D : sold.draws[l] \in Figures
      /\ SumOf(sold.draws, "quantity") = sold.quantity /\ sold.quantity \in Nat
  BY DEF Documents, IsInvoice, IsSold
<1>2. /\ LineSettled(n, k)
      /\ SumFunction(back) = Credited(n, k, "quantity", notes)
      /\ \A l \in D : Out(n, k, l) \in Figures
  BY DEF Settled, LineSettled
<1>3. /\ DOMAIN out = D
      /\ \A l \in D : out[l].day = lots[l].day /\ out[l].left = Out(n, k, l)
  BY DEF StillOut, Out, DrawOf
<1>4. IsOpen(out)
  <2>1. Rows /\ LotsAreSound /\ D \subseteq Nat
    BY <1>1, LotsAre DEF StockInv
  <2>2. \A l \in D : lots[l].day \in Nat
    BY <1>1, <2>1, LotFigures
  <2> QED BY <1>1, <1>2, <1>3, <2>1, <2>2 DEF IsOpen
<1>5. Available(out, D) = sold.quantity - Credited(n, k, "quantity", notes)
  <2> DEFINE f == Remaining(out)
  <2>1. \A l \in D : back[l] \in Nat /\ there[l] \in Nat
    <3>1. AreNotes(notes)
      BY DocumentsAre
    <3>2. \A l \in D : Restored(n, k, l, notes) \in Figures
      BY <3>1, RestoredIs
    <3> QED BY <1>1, <3>2 DEF Figures
  <2>2. \A l \in D : there[l] = back[l] + f[l] /\ f[l] \in Int
    <3> TAKE l \in D
    <3>1. f[l] = Out(n, k, l).quantity
      BY <1>3 DEF Remaining
    <3>2. Out(n, k, l).quantity = sold.draws[l].quantity - Restored(n, k, l, notes).quantity
      BY DEF Out, Less, DrawOf
    <3>3. there[l] = sold.draws[l].quantity /\ back[l] = Restored(n, k, l, notes).quantity
      OBVIOUS
    <3> HIDE DEF f, there, back
    <3> QED BY <2>1, <3>1, <3>2, <3>3
  <2>3. SumFunctionOnSet(there, D) = sold.quantity
    BY <1>1, SumOfIs
  <2>4. DOMAIN back = D
    OBVIOUS
  <2> HIDE DEF f, there, back, D
  <2>5. SumFunctionOnSet(there, D) = SumFunctionOnSet(back, D) + SumFunctionOnSet(f, D)
    <3>1. \A l \in D : back[l] \in Int /\ f[l] \in Int /\ there[l] = back[l] + f[l]
      BY <2>1, <2>2
    <3> QED BY <1>1, <3>1, SumOfPairs
  <2>6. SumFunctionOnSet(back, D) = Credited(n, k, "quantity", notes)
    BY <1>2, <2>4 DEF SumFunction, FoldFunction, SumFunctionOnSet
  <2>7. SumFunctionOnSet(f, D) \in Int /\ SumFunctionOnSet(back, D) \in Int
    BY <1>1, <2>1, <2>2, SumIsInt
  <2> QED BY <1>1, <2>3, <2>5, <2>6, <2>7 DEF Available, f
<1> QED BY <1>3, <1>4, <1>5

\* What a line of a note against the invoice n may take of it.
IsDue(n, line) ==
  LET sold == sales[n].lines[line.line]
      credited(f) == Credited(n, line.line, f, notes)
  IN  /\ line.line \in DOMAIN sales[n].lines
      /\ line.quantity \in Nat /\ line.quantity <= sold.quantity - credited("quantity")
      /\ line.amount \in Nat /\ line.amount <= sold.amount - credited("amount")
      /\ line.revenue \in 0..(sold.revenue - credited("revenue"))
      /\ line.amount = sold.amount - credited("amount") => line.revenue = sold.revenue - credited("revenue")
      /\ DOMAIN line.restored \subseteq DOMAIN sold.draws /\ IsFiniteSet(DOMAIN line.restored)
      /\ \A l \in DOMAIN line.restored : IsDraw(line.restored[l], Out(n, line.line, l))
      /\ SumFunctionOnSet(Each(line.restored, "quantity"), DOMAIN line.restored) = line.quantity
      /\ line.quantity = 0 => DOMAIN line.restored = {}

LEMMA NoteLineIsDue ==
  ASSUME StockInv, Documents, Settled, NEW n \in DOMAIN sales, NEW asked \in CreditLines,
         asked.line \in DOMAIN sales[n].lines, NEW ns, Alike(n, ns, notes),
         asked.quantity <= sales[n].lines[asked.line].quantity - Credited(n, asked.line, "quantity", ns),
         asked.amount <= sales[n].lines[asked.line].amount - Credited(n, asked.line, "amount", ns)
  PROVE  LET line == NoteLine(n, asked, ns)
         IN  /\ IsDue(n, line) /\ line.line = asked.line
             /\ line.quantity = asked.quantity /\ line.amount = asked.amount
<1> DEFINE k == asked.line
           sold == sales[n].lines[k]
           C(f) == Credited(n, k, f, notes)
           out == StillOut(n, k, notes)
           line == NoteLine(n, asked, ns)
<1>1. asked.quantity \in Nat /\ asked.amount \in Nat
  BY DEF CreditLines
<1>2. /\ \A f : Credited(n, k, f, ns) = C(f)
      /\ \A l : Restored(n, k, l, ns) = Restored(n, k, l, notes)
  BY AlikeCredits
<1>3. StillOut(n, k, ns) = out
  BY <1>2 DEF StillOut
<1>4. /\ line.line = k /\ line.quantity = asked.quantity /\ line.amount = asked.amount
      /\ line.revenue = ShareOf(sold.revenue - C("revenue"), asked.amount, sold.amount - C("amount"))
      /\ line.restored = Restore(out, asked.quantity)
  BY <1>2, <1>3 DEF NoteLine
<1>5. /\ sold.quantity \in Nat /\ sold.amount \in Nat /\ sold.revenue \in Nat
      /\ C("quantity") \in Int /\ C("amount") \in Int /\ C("revenue") \in Int
  <2>1. IsSold(sold)
    BY DEF Documents, IsInvoice
  <2>2. AreNotes(notes)
    BY DocumentsAre
  <2>3. \A f \in LineFields : C(f) \in Int
    BY <2>2, CreditedIs
  <2> HIDE DEF C, sold
  <2> QED BY <2>1, <2>3 DEF IsSold, LineFields
<1>6. C("revenue") <= sold.revenue /\ (C("amount") = sold.amount => C("revenue") = sold.revenue)
  BY DEF Settled, LineSettled, Settles
<1>7. asked.quantity <= sold.quantity - C("quantity") /\ asked.amount <= sold.amount - C("amount")
  BY <1>2
<1>8. /\ IsOpen(out) /\ DOMAIN out = DOMAIN sold.draws
      /\ \A l \in DOMAIN out : out[l].left = Out(n, k, l)
      /\ Available(out, DOMAIN out) = sold.quantity - C("quantity")
  BY StillOutIs
<1> HIDE DEF C, sold, out, line
<1>9. /\ line.revenue \in 0..(sold.revenue - C("revenue"))
      /\ asked.amount = sold.amount - C("amount") => line.revenue = sold.revenue - C("revenue")
  <2> DEFINE whole == sold.revenue - C("revenue")
             basis == sold.amount - C("amount")
  <2>1. whole \in Nat /\ basis \in Int
    BY <1>5, <1>6
  <2>2. basis = 0 => whole = 0
    BY <1>5, <1>6
  <2>3. line.revenue = ShareOf(whole, asked.amount, basis)
    BY <1>4
  <2> HIDE DEF whole, basis
  <2>4. /\ line.revenue \in 0..whole
        /\ asked.amount > 0 /\ basis > 0 /\ asked.amount >= basis => line.revenue = whole
    BY <1>1, <2>1, <2>3, ShareOfIs
  <2>5. asked.amount = basis => line.revenue = whole
    BY <1>1, <2>1, <2>2, <2>4
  <2> QED BY <2>4, <2>5 DEF whole, basis
<1>10. /\ DOMAIN line.restored \subseteq DOMAIN out /\ IsFiniteSet(DOMAIN line.restored)
       /\ \A l \in DOMAIN line.restored : IsDraw(line.restored[l], out[l].left)
       /\ SumFunctionOnSet(Each(line.restored, "quantity"), DOMAIN line.restored) = asked.quantity
       /\ asked.quantity = 0 => DOMAIN line.restored = {}
  <2>1. IsOpen(out) /\ asked.quantity \in Nat /\ asked.quantity <= Available(out, DOMAIN out)
    BY <1>1, <1>7, <1>8
  <2> DEFINE back == Restore(out, asked.quantity)
  <2>2. /\ DOMAIN back \subseteq DOMAIN out /\ IsFiniteSet(DOMAIN back)
        /\ \A l \in DOMAIN back : IsDraw(back[l], out[l].left)
        /\ SumFunctionOnSet(Each(back, "quantity"), DOMAIN back) = asked.quantity
        /\ asked.quantity = 0 => DOMAIN back = {}
    BY ONLY <2>1, RestoreIs
  <2> QED BY <1>4, <2>2
<1>11. \A l \in DOMAIN line.restored : IsDraw(line.restored[l], Out(n, k, l))
  BY <1>8, <1>10
<1>12. IsDue(n, line)
  BY <1>1, <1>4, <1>7, <1>8, <1>9, <1>10, <1>11 DEF IsDue, C, sold
<1> QED BY <1>4, <1>12 DEF line

\* What a note may take of its invoice, line by line and of the tax.
IsDueNote(note) ==
  LET n == note.sale
      credited(f) == CreditedInAll(n, f, notes)
  IN  /\ n \in DOMAIN sales /\ IsFiniteSet(DOMAIN note.lines) /\ OneEach(note)
      /\ \A i \in DOMAIN note.lines : IsDue(n, note.lines[i])
      /\ note.net \in Nat /\ note.net <= sales[n].net - credited("net")
      /\ note.tax \in 0..(sales[n].tax - credited("tax"))
      /\ note.baseTax \in 0..(sales[n].baseTax - credited("baseTax"))
      /\ note.net = sales[n].net - credited("net") =>
           note.tax = sales[n].tax - credited("tax") /\ note.baseTax = sales[n].baseTax - credited("baseTax")

LEMMA DueIsNumbered ==
  ASSUME NEW note, IsDueNote(note), Documents
  PROVE  IsNumberedNote(note) /\ IsNote(note)
<1> DEFINE n == note.sale
<1>1. /\ n \in DOMAIN sales /\ IsFiniteSet(DOMAIN note.lines)
      /\ \A i \in DOMAIN note.lines : IsDue(n, note.lines[i])
  BY DEF IsDueNote
<1>2. note.net \in Int /\ note.tax \in Int /\ note.baseTax \in Int
  <2>1. /\ note.net \in Nat /\ note.tax \in 0..(sales[n].tax - CreditedInAll(n, "tax", notes))
        /\ note.baseTax \in 0..(sales[n].baseTax - CreditedInAll(n, "baseTax", notes))
    BY DEF IsDueNote
  <2> QED BY <2>1
<1> HIDE DEF n
<1>3. ASSUME NEW i \in DOMAIN note.lines
      PROVE  IsNumbered(note.lines[i]) /\ IsCredited(n, note.lines[i])
  <2> DEFINE line == note.lines[i]
  <2>1. IsDue(n, line)
    BY <1>1
  <2> HIDE DEF line
  <2>2. /\ line.quantity \in Int /\ line.amount \in Int
        /\ line.line \in DOMAIN sales[n].lines
        /\ DOMAIN line.restored \subseteq DOMAIN sales[n].lines[line.line].draws
        /\ \A l \in DOMAIN line.restored : line.restored[l] \in Figures
    BY <2>1 DEF IsDue, IsDraw
  <2>3. line.revenue \in Int
    <3>1. line.revenue \in 0..(sales[n].lines[line.line].revenue - Credited(n, line.line, "revenue", notes))
      BY <2>1 DEF IsDue
    <3> QED BY <3>1
  <2>4. IsNumbered(line)
    BY <2>2, <2>3 DEF IsNumbered, LineFields, AreDraws
  <2>5. IsCredited(n, line)
    BY <2>2, <2>3 DEF IsCredited
  <2> QED BY <2>4, <2>5 DEF line
<1>4. IsNumberedNote(note)
  BY <1>1, <1>2, <1>3 DEF IsNumberedNote, NetFields
<1>5. IsNote(note)
  BY <1>1, <1>2, <1>3 DEF IsNote, n
<1> QED BY <1>4, <1>5

LEMMA NotedIsDue ==
  ASSUME StockInv, SaleInv, NEW s \in Session, pc[s] = "write", req[s].op = "credit", MayCredit(s, Noted(s))
  PROVE  LET note == Noted(s)
             r == req[s]
         IN  /\ IsDueNote(note) /\ note.sale = r.sale
             /\ DOMAIN note.lines = DOMAIN r.lines
             /\ \A i \in DOMAIN r.lines : /\ note.lines[i].line = r.lines[i].line
                                          /\ note.lines[i].quantity = r.lines[i].quantity
<1> DEFINE note == Noted(s)
           r == req[s]
           n == r.sale
           ns == plan[s]
           C(f) == CreditedInAll(n, f, notes)
           sale == sales[n]
           tax == CreditTax(sale, note.net, sale.net - C("net"), sale.tax - C("tax"), sale.baseTax - C("baseTax"))
<1>1. IsClaim(r) /\ Alike(n, ns, notes) /\ Documents /\ Settled
  BY DEF SaleInv, Sells, CreditReady
<1>2. /\ n \in DOMAIN sales /\ r.lines \in Seq(CreditLines)
      /\ \A i \in DOMAIN r.lines : r.lines[i].line \in DOMAIN sales[n].lines
      /\ \A i, j \in DOMAIN r.lines : r.lines[i].line = r.lines[j].line => i = j
  BY <1>1 DEF IsClaim
<1>3. \A f : CreditedInAll(n, f, ns) = C(f)
  BY <1>1, AlikeCredits
<1>4. /\ note.sale = n /\ note.lines = [i \in DOMAIN r.lines |-> NoteLine(n, r.lines[i], ns)]
      /\ note.net = SumOf(note.lines, "amount") /\ note.tax = tax.tax /\ note.baseTax = tax.baseTax
  <2> DEFINE paid == CreditTax(sale, note.net, sale.net - CreditedInAll(n, "net", ns),
                               sale.tax - CreditedInAll(n, "tax", ns),
                               sale.baseTax - CreditedInAll(n, "baseTax", ns))
  <2>1. note.sale = n /\ note.lines = [i \in DOMAIN r.lines |-> NoteLine(n, r.lines[i], ns)]
    BY DEF Noted
  <2>2. note.net = SumOf(note.lines, "amount")
    BY DEF Noted
  <2>3. note.tax = paid.tax /\ note.baseTax = paid.baseTax
    BY DEF Noted
  <2>4. paid = tax
    <3>1. CreditedInAll(n, "net", ns) = C("net") /\ CreditedInAll(n, "tax", ns) = C("tax")
          /\ CreditedInAll(n, "baseTax", ns) = C("baseTax")
      BY <1>3
    <3> HIDE DEF C, sale, note, n, ns
    <3> QED BY <3>1
  <2> HIDE DEF paid, tax, note
  <2> QED BY <2>1, <2>2, <2>3, <2>4
<1>5. WithinCaps(s, note) /\ Accepted(n, Append(notes, note))
  BY <1>4 DEF MayCredit
<1> HIDE DEF note
<1>6. \A i \in DOMAIN r.lines : r.lines[i] \in CreditLines
  BY <1>2
<1>7. IsFiniteSet(DOMAIN r.lines)
  <2>1. DOMAIN r.lines = 1..Len(r.lines) /\ Len(r.lines) \in Nat
    BY <1>2
  <2> QED BY <2>1, FS_Interval
<1>8. \A i \in DOMAIN r.lines :
        /\ r.lines[i].quantity <= sales[n].lines[r.lines[i].line].quantity - Credited(n, r.lines[i].line, "quantity", ns)
        /\ r.lines[i].amount <= sales[n].lines[r.lines[i].line].amount - Credited(n, r.lines[i].line, "amount", ns)
  BY <1>5 DEF WithinCaps
<1> HIDE DEF r, n, ns, sale, tax, C
<1>9. ASSUME NEW i \in DOMAIN r.lines
      PROVE  /\ IsDue(n, note.lines[i]) /\ note.lines[i].line = r.lines[i].line
             /\ note.lines[i].quantity = r.lines[i].quantity /\ note.lines[i].amount = r.lines[i].amount
  <2> DEFINE asked == r.lines[i]
  <2>1. /\ StockInv /\ Documents /\ Settled /\ n \in DOMAIN sales /\ asked \in CreditLines
        /\ asked.line \in DOMAIN sales[n].lines /\ Alike(n, ns, notes)
        /\ asked.quantity <= sales[n].lines[asked.line].quantity - Credited(n, asked.line, "quantity", ns)
        /\ asked.amount <= sales[n].lines[asked.line].amount - Credited(n, asked.line, "amount", ns)
    BY <1>1, <1>2, <1>6, <1>8
  <2> HIDE DEF asked
  <2> DEFINE line == NoteLine(n, asked, ns)
  <2>2. IsDue(n, line) /\ line.line = asked.line /\ line.quantity = asked.quantity /\ line.amount = asked.amount
    BY ONLY <2>1, NoteLineIsDue
  <2> QED BY <1>4, <2>2 DEF asked
<1>10. DOMAIN note.lines = DOMAIN r.lines
  BY <1>4
<1>11. OneEach(note)
  BY <1>2, <1>9, <1>10 DEF OneEach
<1>12. note.net \in Nat
  <2> DEFINE f == [i \in DOMAIN note.lines |-> note.lines[i]["amount"]]
  <2>1. note.net = SumFunctionOnSet(f, DOMAIN note.lines)
    BY <1>4, SumOfIs
  <2>2. \A i \in DOMAIN note.lines : f[i] \in Nat
    BY <1>9, <1>10 DEF IsDue
  <2> HIDE DEF f
  <2>3. IsFiniteSet(DOMAIN note.lines)
    BY <1>7, <1>10
  <2> QED BY <2>1, <2>2, <2>3, SumIsNat
<1>13. /\ sale.net \in Nat /\ sale.tax \in Nat /\ sale.baseTax \in Nat /\ sale.rate \in Nat /\ sale.taxRate \in Nat
       /\ C("net") \in Int /\ C("tax") \in Int /\ C("baseTax") \in Int
       /\ C("tax") <= sale.tax /\ C("baseTax") <= sale.baseTax
  <2>1. IsInvoice(sale) /\ NetSettled(n)
    BY <1>1, <1>2 DEF Documents, Settled, sale
  <2>2. \A f \in NetFields : C(f) \in Int
    <3>1. AreNotes(notes)
      BY <1>1, DocumentsAre
    <3> QED BY <3>1, CreditedInAllIs DEF C
  <2> QED BY <2>1, <2>2 DEF IsInvoice, NetSettled, Settles, NetFields, C, sale
<1>14. /\ tax.tax \in 0..(sale.tax - C("tax")) /\ tax.baseTax \in 0..(sale.baseTax - C("baseTax"))
       /\ note.net >= sale.net - C("net") =>
            tax.tax = sale.tax - C("tax") /\ tax.baseTax = sale.baseTax - C("baseTax")
  <2> DEFINE netLeft == sale.net - C("net")
             taxLeft == sale.tax - C("tax")
             baseTaxLeft == sale.baseTax - C("baseTax")
  <2>1. netLeft \in Int /\ taxLeft \in Nat /\ baseTaxLeft \in Nat
    BY <1>13
  <2>2. tax = CreditTax(sale, note.net, netLeft, taxLeft, baseTaxLeft)
    BY DEF tax
  <2> HIDE DEF netLeft, taxLeft, baseTaxLeft
  <2> DEFINE credit == CreditTax(sale, note.net, netLeft, taxLeft, baseTaxLeft)
  <2>3. /\ credit.tax \in 0..taxLeft /\ credit.baseTax \in 0..baseTaxLeft
        /\ note.net >= netLeft => credit.tax = taxLeft /\ credit.baseTax = baseTaxLeft
    <3>1. /\ sale.rate \in Nat /\ sale.taxRate \in Nat /\ note.net \in Nat
          /\ netLeft \in Int /\ taxLeft \in Nat /\ baseTaxLeft \in Nat
      BY <1>12, <1>13, <2>1
    <3>2. MayTake(credit, note.net, netLeft, taxLeft, baseTaxLeft)
      BY ONLY <3>1, CreditTaxIs
    <3> QED BY <3>2 DEF MayTake
  <2> HIDE DEF credit
  <2>4. tax = credit
    BY <2>2 DEF credit
  <2> QED BY <2>3, <2>4 DEF netLeft, taxLeft, baseTaxLeft
<1>15. IsNumberedNote(note)
  <2>1. note.net \in Int /\ note.tax \in Int /\ note.baseTax \in Int
    BY <1>4, <1>12, <1>14
  <2>2. ASSUME NEW i \in DOMAIN note.lines PROVE IsNumbered(note.lines[i])
    <3> DEFINE line == note.lines[i]
    <3>1. IsDue(n, line)
      BY <1>9, <1>10
    <3> HIDE DEF line
    <3>2. /\ line.quantity \in Int /\ line.amount \in Int
          /\ \A l \in DOMAIN line.restored : line.restored[l] \in Figures
          /\ line.revenue \in 0..(sales[n].lines[line.line].revenue - Credited(n, line.line, "revenue", notes))
      BY <3>1 DEF IsDue, IsDraw
    <3> QED BY <3>2 DEF IsNumbered, LineFields, AreDraws, line
  <2> QED BY <1>7, <1>10, <2>1, <2>2 DEF IsNumberedNote, NetFields
<1>16. note.net <= sale.net - C("net")
  <2>1. AreNotes(notes) /\ "net" \in NetFields
    BY <1>1, DocumentsAre DEF NetFields
  <2>2. CreditedInAll(n, "net", Append(notes, note)) = C("net") + note.net
    BY <1>4, <1>15, <2>1, InvoiceCredited DEF C
  <2>3. CreditedInAll(n, "net", Append(notes, note)) <= sale.net
    BY <1>5 DEF Accepted, sale
  <2> QED BY <1>12, <1>13, <2>2, <2>3
<1>17. IsDueNote(note)
  <2>1. \A i \in DOMAIN note.lines : IsDue(n, note.lines[i])
    BY <1>9, <1>10
  <2>2. note.net = sale.net - C("net") => tax.tax = sale.tax - C("tax") /\ tax.baseTax = sale.baseTax - C("baseTax")
    BY <1>12, <1>14
  <2> QED BY <1>2, <1>4, <1>7, <1>10, <1>11, <1>12, <1>14, <1>16, <2>1, <2>2 DEF IsDueNote, C, sale
<1> QED BY <1>4, <1>9, <1>10, <1>17 DEF note, r, n

\* What is out by some notes.
OutBy(n, k, l, ns) == Less(DrawOf(sales[n].lines[k].draws, l), Restored(n, k, l, ns))

LEMMA LessTwice ==
  ASSUME NEW a \in Figures, NEW b \in Figures, NEW c \in Figures
  PROVE  Less(a, Plus(b, c)) = Less(Less(a, b), c)
<1>1. /\ a.quantity \in Nat /\ a.cost \in Nat /\ a.base \in Nat
      /\ b.quantity \in Nat /\ b.cost \in Nat /\ b.base \in Nat
      /\ c.quantity \in Nat /\ c.cost \in Nat /\ c.base \in Nat
  BY DEF Figures
<1>2. \A x, y, z \in Nat : x - (y + z) = (x - y) - z
  OBVIOUS
<1> QED BY <1>1, <1>2 DEF Less, Plus

\* The line a note credits has less out, by what the note brings back.
LineAfter(note, i, l) ==
  LET n == note.sale
      k == note.lines[i].line
      back == DrawOf(note.lines[i].restored, l)
      after == OutBy(n, k, l, Append(notes, note))
  IN  /\ back \in Figures /\ after \in Figures
      /\ \A x \in FigureNames : after[x] = Out(n, k, l)[x] - back[x]
      /\ l \in DOMAIN sales[n].lines[k].draws /\ after.quantity = 0 => after = Nothing
      /\ back.quantity = 0 => back = Nothing

LEMMA LineAfterNote ==
  ASSUME Documents, Settled, NEW note, IsDueNote(note), NEW i \in DOMAIN note.lines, NEW l
  PROVE  LineAfter(note, i, l)
<1> DEFINE n == note.sale
           line == note.lines[i]
           k == line.line
           draws == sales[n].lines[k].draws
           back == DrawOf(line.restored, l)
           was == Restored(n, k, l, notes)
           out == Out(n, k, l)
           after == OutBy(n, k, l, Append(notes, note))
<1>1. IsDue(n, line) /\ n \in DOMAIN sales /\ k \in DOMAIN sales[n].lines
  BY DEF IsDueNote, IsDue
<1>2. out \in Figures /\ (l \in DOMAIN draws /\ out.quantity = 0 => out = Nothing)
  BY <1>1, OutIs DEF Settled, LineSettled
<1>3. was \in Figures /\ AreNotes(notes)
  BY DocumentsAre, RestoredIs
<1>4. DrawOf(draws, l) \in Figures
  <2>1. AreDraws(draws)
    BY <1>1 DEF Documents, IsInvoice, IsSold, AreDraws
  <2> HIDE DEF draws
  <2> QED BY <2>1, DrawOfIs
<1>5. Restored(n, k, l, Append(notes, note)) = Plus(was, back)
  <2>1. AreNotes(notes) /\ IsNumberedNote(note) /\ OneEach(note) /\ i \in DOMAIN note.lines
    BY <1>3, DueIsNumbered DEF IsDueNote
  <2>2. \A j : Restored(note.sale, note.lines[i].line, j, Append(notes, note))
                = Plus(Restored(note.sale, note.lines[i].line, j, notes), DrawOf(note.lines[i].restored, j))
    BY ONLY <2>1, LineCredited
  <2> QED BY <2>2
<1>6. out = Less(DrawOf(draws, l), was) /\ after = Less(DrawOf(draws, l), Plus(was, back))
  BY <1>5 DEF Out, OutBy
<1>7. /\ \A j \in DOMAIN line.restored : IsDraw(line.restored[j], Out(n, k, j))
      /\ DOMAIN line.restored \subseteq DOMAIN draws
  BY <1>1 DEF IsDue
<1>8. l \in DOMAIN line.restored => IsDraw(back, out)
  BY <1>7 DEF DrawOf
<1>9. l \notin DOMAIN line.restored => back = Nothing
  BY DEF DrawOf
<1> HIDE DEF n, k, draws, back, was, out, after, line
<1>10. back \in Figures /\ (back.quantity = 0 => back = Nothing)
  BY <1>8, <1>9, FigureIs DEF IsDraw
<1>11. after = Less(out, back)
  BY <1>3, <1>4, <1>6, <1>10, LessTwice
<1>12. /\ after \in Figures
       /\ l \in DOMAIN draws /\ after.quantity = 0 => after = Nothing
  <2>1. CASE l \in DOMAIN line.restored
    <3>1. back \in Figures /\ after \in Figures /\ (back.quantity = out.quantity => after = Nothing)
      BY <1>8, <1>11, <2>1 DEF IsDraw
    <3>2. after.quantity = out.quantity - back.quantity
      BY <1>11, FigureIs DEF FigureNames
    <3>3. out.quantity \in Nat /\ back.quantity \in Nat
      BY <1>2, <3>1 DEF Figures
    <3> QED BY <3>1, <3>2, <3>3
  <2>2. CASE l \notin DOMAIN line.restored
    <3>1. after = out
      BY <1>2, <1>9, <1>11, <2>2, LessIsFigures, FigureIs
    <3> QED BY <1>2, <3>1
  <2> QED BY <2>1, <2>2
<1>13. \A x \in FigureNames : after[x] = out[x] - back[x]
  BY <1>11, FigureIs
<1> QED BY <1>10, <1>12, <1>13 DEF n, k, draws, back, out, after, line, LineAfter

\* A line that no line of the note credits is as it was.
LEMMA LineAside ==
  ASSUME Documents, NEW note, NEW n, NEW k,
         \A i \in DOMAIN note.lines : ~(note.sale = n /\ note.lines[i].line = k)
  PROVE  /\ \A f : Credited(n, k, f, Append(notes, note)) = Credited(n, k, f, notes)
         /\ \A l : Restored(n, k, l, Append(notes, note)) = Restored(n, k, l, notes)
         /\ \A l : OutBy(n, k, l, Append(notes, note)) = Out(n, k, l)
<1>1. AreNotes(notes) /\ LinesOn(note, n, k) = {}
  BY DocumentsAre DEF LinesOn
<1>2. /\ \A f : Credited(n, k, f, Append(notes, note)) = Credited(n, k, f, notes)
      /\ \A l : Restored(n, k, l, Append(notes, note)) = Restored(n, k, l, notes)
  BY <1>1, LineUntouched
<1> QED BY <1>2 DEF OutBy, Out

\* The accounts of a line, by some notes.
SettledBy(n, k, ns) ==
  LET sold == sales[n].lines[k]
      back == [l \in DOMAIN sold.draws |-> Restored(n, k, l, ns).quantity]
  IN  /\ Credited(n, k, "quantity", ns) <= sold.quantity
      /\ Settles(Credited(n, k, "revenue", ns), sold.revenue, Credited(n, k, "amount", ns), sold.amount)
      /\ SumFunction(back) = Credited(n, k, "quantity", ns)
      /\ \A l \in DOMAIN sold.draws :
           OutBy(n, k, l, ns) \in Figures /\ (OutBy(n, k, l, ns).quantity = 0 => OutBy(n, k, l, ns) = Nothing)

LEMMA CreditedLineSettles ==
  ASSUME Documents, Settled, NEW note, IsDueNote(note), NEW i \in DOMAIN note.lines
  PROVE  SettledBy(note.sale, note.lines[i].line, Append(notes, note))
<1> DEFINE n == note.sale
           line == note.lines[i]
           k == line.line
           sold == sales[n].lines[k]
           D == DOMAIN sold.draws
           more == Append(notes, note)
           C(f) == Credited(n, k, f, notes)
           was == [l \in D |-> Restored(n, k, l, notes).quantity]
           now == [l \in D |-> Restored(n, k, l, more).quantity]
           back == Each(line.restored, "quantity")
<1>1. IsDue(n, line) /\ n \in DOMAIN sales /\ k \in DOMAIN sales[n].lines
  BY DEF IsDueNote, IsDue
<1>2. AreNotes(notes) /\ IsNumberedNote(note) /\ OneEach(note)
  BY DocumentsAre, DueIsNumbered DEF IsDueNote
<1>3. /\ \A f \in LineFields : Credited(n, k, f, more) = C(f) + line[f]
      /\ \A l : \A x \in FigureNames : Restored(n, k, l, more)[x] = Restored(n, k, l, notes)[x] + DrawOf(line.restored, l)[x]
  BY <1>2, LineCredited
<1>4. /\ Credited(n, k, "quantity", more) = C("quantity") + line.quantity
      /\ Credited(n, k, "amount", more) = C("amount") + line.amount
      /\ Credited(n, k, "revenue", more) = C("revenue") + line.revenue
  BY <1>3 DEF LineFields
<1>5. /\ LineSettled(n, k) /\ IsSold(sold)
      /\ \A f \in LineFields : C(f) \in Int
  BY <1>1, <1>2, CreditedIs DEF Settled, Documents, IsInvoice
<1>6. /\ C("quantity") \in Int /\ C("amount") \in Int /\ C("revenue") \in Int
      /\ sold.quantity \in Nat /\ sold.amount \in Nat /\ sold.revenue \in Nat
      /\ C("revenue") <= sold.revenue /\ SumFunction(was) = C("quantity")
      /\ IsFiniteSet(D) /\ \A l \in D : sold.draws[l] \in Figures
  BY <1>5 DEF LineFields, IsSold, LineSettled, Settles
<1>7. /\ line.quantity \in Nat /\ line.quantity <= sold.quantity - C("quantity")
      /\ line.amount \in Nat /\ line.amount <= sold.amount - C("amount")
      /\ line.revenue \in 0..(sold.revenue - C("revenue"))
      /\ line.amount = sold.amount - C("amount") => line.revenue = sold.revenue - C("revenue")
      /\ DOMAIN line.restored \subseteq D /\ IsFiniteSet(DOMAIN line.restored)
      /\ \A l \in DOMAIN line.restored : line.restored[l] \in Figures
      /\ SumFunctionOnSet(back, DOMAIN line.restored) = line.quantity
  BY <1>1 DEF IsDue, IsDraw
<1>8. SumFunction(now) = C("quantity") + line.quantity
  <2>1. \A l \in D : was[l] \in Nat
    <3>1. \A l \in D : Restored(n, k, l, notes) \in Figures
      BY <1>2, RestoredIs
    <3> QED BY <3>1 DEF Figures
  <2>2. \A l \in DOMAIN line.restored : back[l] \in Nat /\ now[l] = was[l] + back[l]
    <3> TAKE l \in DOMAIN line.restored
    <3>1. back[l] = line.restored[l].quantity /\ DrawOf(line.restored, l) = line.restored[l]
      BY DEF Each, DrawOf
    <3>2. l \in D /\ line.restored[l].quantity \in Nat
      BY <1>7 DEF Figures
    <3>3. Restored(n, k, l, more).quantity = Restored(n, k, l, notes).quantity + line.restored[l].quantity
      BY <1>3, <3>1 DEF FigureNames
    <3> QED BY <3>1, <3>2, <3>3
  <2>3. \A l \in D \ DOMAIN line.restored : now[l] = was[l]
    <3> TAKE l \in D \ DOMAIN line.restored
    <3>1. DrawOf(line.restored, l).quantity = 0
      BY DEF DrawOf, Nothing
    <3>2. now[l] = was[l] + 0
      BY <1>3, <3>1 DEF FigureNames
    <3> HIDE DEF was, now, D
    <3> QED BY <2>1, <3>2
  <2>4. DOMAIN was = D /\ DOMAIN now = D
    OBVIOUS
  <2> HIDE DEF was, now, back, D, C
  <2>5. SumFunctionOnSet(now, D) = SumFunctionOnSet(was, D) + SumFunctionOnSet(back, DOMAIN line.restored)
    <3>1. /\ IsFiniteSet(D) /\ DOMAIN line.restored \in SUBSET D
          /\ \A l \in D : was[l] \in Int
          /\ \A l \in DOMAIN line.restored : back[l] \in Int /\ now[l] = was[l] + back[l]
          /\ \A l \in D \ DOMAIN line.restored : now[l] = was[l]
      <4>1. IsFiniteSet(D) /\ DOMAIN line.restored \in SUBSET D
        BY <1>6, <1>7
      <4>2. \A l \in D : was[l] \in Int
        BY <2>1
      <4>3. \A l \in DOMAIN line.restored : back[l] \in Int /\ now[l] = was[l] + back[l]
        BY <2>2
      <4> QED BY <2>3, <4>1, <4>2, <4>3
    <3> QED BY ONLY <3>1, SumShifts
  <2>6. SumFunction(was) = SumFunctionOnSet(was, D) /\ SumFunction(now) = SumFunctionOnSet(now, D)
    BY <2>4 DEF SumFunction, FoldFunction, SumFunctionOnSet
  <2> QED BY <1>6, <1>7, <2>5, <2>6
<1>9. \A l \in D : OutBy(n, k, l, more) \in Figures /\ (OutBy(n, k, l, more).quantity = 0 => OutBy(n, k, l, more) = Nothing)
  <2> TAKE l \in D
  <2>1. LineAfter(note, i, l)
    BY LineAfterNote
  <2> QED BY <2>1 DEF LineAfter
<1>10. /\ Credited(n, k, "quantity", more) <= sold.quantity
       /\ Settles(Credited(n, k, "revenue", more), sold.revenue, Credited(n, k, "amount", more), sold.amount)
  <2> HIDE DEF C, sold, more, k, n, line
  <2> QED BY <1>4, <1>6, <1>7 DEF Settles
<1>11. SumFunction(now) = Credited(n, k, "quantity", more)
  BY <1>4, <1>8
<1> HIDE DEF more
<1> QED BY <1>9, <1>10, <1>11 DEF SettledBy, more

OutOfBy(l, x, ns) == SumFunctionOnSet([p \in Sold |-> OutBy(p[1], p[2], l, ns)[x]], Sold)

\* All its lines together: of each lot, as much less is out as the note brings back.
LEMMA OutOfAfterNote ==
  ASSUME Documents, Settled, NEW note, IsDueNote(note), NEW l, NEW x \in FigureNames
  PROVE  /\ OutOfBy(l, x, Append(notes, note)) = OutOf(l, x) - DrawOf(BackIn(note), l)[x]
         /\ OutOfBy(l, x, Append(notes, note)) \in Nat /\ DrawOf(BackIn(note), l)[x] \in Nat
<1> DEFINE I == DOMAIN note.lines
           many == [i \in I |-> note.lines[i].restored]
           part == PartsOf(many, l, x)
           neg == [i \in I |-> -part[i]]
           at == [i \in I |-> <<note.sale, note.lines[i].line>>]
           S == {at[i] : i \in I}
           f == OutAt(l, x)
           g == [p \in Sold |-> OutBy(p[1], p[2], l, Append(notes, note))[x]]
           d == [p \in S |-> g[p] - f[p]]
<1>1. /\ OutOf(l, x) = SumFunctionOnSet(f, Sold) /\ OutOf(l, x) \in Nat /\ IsFiniteSet(Sold)
      /\ \A p \in Sold : f[p] \in Nat /\ f[p] \in Int
  BY OutOfIs
<1>2. IsFiniteSet(I) /\ (\A i \in I : IsDue(note.sale, note.lines[i])) /\ note.sale \in DOMAIN sales /\ OneEach(note)
  BY DEF IsDueNote
<1>3. ASSUME NEW i \in I PROVE AreDraws(many[i])
  <2>1. IsDue(note.sale, note.lines[i])
    BY <1>2
  <2> QED BY <2>1 DEF IsDue, IsDraw, AreDraws
<1>4. /\ DrawOf(BackIn(note), l)[x] = SumFunctionOnSet(part, I)
      /\ DrawOf(BackIn(note), l)[x] \in Nat
  <2>1. IsFiniteSet(DOMAIN many) /\ \A i \in DOMAIN many : AreDraws(many[i])
    BY <1>2, <1>3
  <2>2. BackIn(note) = InAll(many) /\ DOMAIN many = I
    BY DEF BackIn
  <2> HIDE DEF many, I
  <2>3. /\ \A y \in FigureNames : DrawOf(InAll(many), l)[y] = SumFunctionOnSet(PartsOf(many, l, y), DOMAIN many)
        /\ AreDraws(InAll(many))
    BY ONLY <2>1, InAllIs
  <2>4. DrawOf(InAll(many), l) \in Figures
    BY <2>3, DrawOfIs
  <2>5. DrawOf(InAll(many), l)[x] \in Nat
    BY <2>4, FigureIs
  <2> QED BY <2>2, <2>3, <2>5
<1>5. ASSUME NEW i \in I
      PROVE  /\ at[i] \in Sold /\ d[at[i]] = neg[i] /\ part[i] \in Int
             /\ f[at[i]] \in Int /\ g[at[i]] \in Nat
  <2> DEFINE k == note.lines[i].line
             p == <<note.sale, k>>
             after == OutBy(note.sale, k, l, Append(notes, note))
             back == DrawOf(note.lines[i].restored, l)
  <2>1. k \in DOMAIN sales[note.sale].lines
    BY <1>2 DEF IsDue
  <2>2. p \in Sold /\ at[i] = p /\ p \in S
    BY <1>2, <2>1, SoldIs
  <2>3. /\ back \in Figures /\ after \in Figures
        /\ after[x] = Out(note.sale, k, l)[x] - back[x]
    <3>1. LineAfter(note, i, l)
      BY LineAfterNote
    <3> QED BY <3>1 DEF LineAfter
  <2>4. part[i] = back[x]
    BY DEF PartsOf
  <2>5. f[p] = Out(note.sale, k, l)[x] /\ g[p] = after[x]
    BY <2>2 DEF OutAt
  <2>6. d[p] = g[p] - f[p]
    BY <2>2
  <2>7. back[x] \in Nat /\ after[x] \in Nat /\ f[p] \in Nat
    BY <1>1, <2>2, <2>3, FigureIs
  <2>8. neg[i] = -part[i]
    OBVIOUS
  <2> HIDE DEF k, p, after, back, d, neg, part, f, g, at, I
  <2> QED BY <2>2, <2>3, <2>4, <2>5, <2>6, <2>7, <2>8
<1>6. ASSUME NEW p \in Sold, p \notin S PROVE g[p] = f[p]
  <2>1. p = <<p[1], p[2]>>
    BY SoldIs
  <2>2. \A i \in DOMAIN note.lines : ~(note.sale = p[1] /\ note.lines[i].line = p[2])
    BY <1>6, <2>1
  <2>3. OutBy(p[1], p[2], l, Append(notes, note)) = Out(p[1], p[2], l)
    BY <2>2, LineAside
  <2> QED BY <2>3 DEF OutAt
<1>7. OutOfBy(l, x, Append(notes, note)) = SumFunctionOnSet(g, Sold)
  BY DEF OutOfBy
<1>8. \A i, j \in I : at[i] = at[j] => i = j
  BY <1>2 DEF OneEach
<1>9. \A i \in I : neg[i] = -part[i]
  OBVIOUS
<1>10. \A p \in S : \E i \in I : p = at[i]
  OBVIOUS
<1>11. \A p \in S : d[p] = g[p] - f[p]
  OBVIOUS
<1>12. S = {at[i] : i \in I}
  OBVIOUS
<1> HIDE DEF I, many, part, neg, at, S, f, g, d
<1>13. S \in SUBSET Sold /\ \A p \in S : d[p] \in Int /\ g[p] = f[p] + d[p]
  <2>1. ASSUME NEW p \in S PROVE p \in Sold /\ d[p] \in Int /\ g[p] = f[p] + d[p]
    <3>1. p \in Sold /\ f[p] \in Int /\ g[p] \in Nat
      BY <1>5, <1>10
    <3> QED BY <1>11, <3>1
  <2> QED BY <2>1
<1>14. SumFunctionOnSet(g, Sold) = SumFunctionOnSet(f, Sold) + SumFunctionOnSet(d, S)
  <2>1. /\ IsFiniteSet(Sold) /\ S \in SUBSET Sold /\ \A p \in Sold : f[p] \in Int
        /\ \A p \in S : d[p] \in Int /\ g[p] = f[p] + d[p]
        /\ \A p \in Sold \ S : g[p] = f[p]
    BY <1>1, <1>6, <1>13
  <2> QED BY ONLY <2>1, SumShifts
<1>15. SumFunctionOnSet(d, S) = SumFunctionOnSet(neg, I)
  <2>1. /\ IsFiniteSet(I) /\ \A i, j \in I : at[i] = at[j] => i = j
        /\ \A i \in I : d[at[i]] \in Int /\ neg[i] = d[at[i]]
    BY <1>2, <1>5, <1>8, <1>9 DEF I
  <2>2. SumFunctionOnSet(d, {at[i] : i \in I}) = SumFunctionOnSet(neg, I)
    BY ONLY <2>1, SumOfImage
  <2> QED BY <1>12, <2>2
<1>16. SumFunctionOnSet(neg, I) = -SumFunctionOnSet(part, I)
  <2>1. IsFiniteSet(I) /\ \A i \in I : part[i] \in Int /\ neg[i] = -part[i]
    BY <1>2, <1>5, <1>9 DEF I
  <2> QED BY ONLY <2>1, SumNegates
<1>17. SumFunctionOnSet(g, Sold) \in Nat
  <2>1. ASSUME NEW p \in Sold PROVE g[p] \in Nat
    <3>1. CASE p \in S
      BY <1>5, <1>10, <3>1
    <3>2. CASE p \notin S
      BY <1>1, <1>6, <3>2
    <3> QED BY <3>1, <3>2
  <2> QED BY <1>1, <2>1, SumIsNat
<1> QED BY <1>1, <1>4, <1>7, <1>14, <1>15, <1>16, <1>17

\* A note more.
LEMMA NoteStands ==
  ASSUME Documents, Settled, NEW note, IsDueNote(note), sales' = sales, Lots' = Lots, notes' = Append(notes, note)
  PROVE  /\ Documents' /\ Settled'
         /\ \A l, x : OutOf(l, x)' = OutOfBy(l, x, Append(notes, note))
<1> DEFINE more == Append(notes, note)
<1>1. AreNotes(notes) /\ IsNumberedNote(note) /\ IsNote(note)
  BY DocumentsAre, DueIsNumbered
<1>2. AreNotes(more)
  BY <1>1, MoreNotes
<1>3. /\ DOMAIN more = DOMAIN notes \cup {Len(notes) + 1} /\ more[Len(notes) + 1] = note
      /\ \A m \in DOMAIN notes : more[m] = notes[m]
  BY <1>1, AppendIsSequence DEF AreNotes
<1>4. /\ \A n, f : CreditedInAll(n, f, notes)' = CreditedInAll(n, f, more)
      /\ \A n, k, f : Credited(n, k, f, notes)' = Credited(n, k, f, more)
      /\ \A n, k, l : Restored(n, k, l, notes)' = Restored(n, k, l, more)
  <2> HIDE DEF more
  <2>1. notes' = more
    BY DEF more
  <2>2. \A n, f : CreditedInAll(n, f, notes)' = CreditedInAll(n, f, more)
    BY <2>1 DEF CreditedInAll, NotesOf, SumOf
  <2>3. \A n, k, f : Credited(n, k, f, notes)' = Credited(n, k, f, more)
    BY <2>1 DEF Credited, OnLine, NoteLines, LineAt, SumOf
  <2>4. \A n, k, l : Restored(n, k, l, notes)' = Restored(n, k, l, more)
    BY <2>1 DEF Restored, OnLine, NoteLines, LineAt, Total, SumOf, DrawOf, Nothing
  <2> QED BY <2>2, <2>3, <2>4
<1>5. \A n, k, l : Out(n, k, l)' = OutBy(n, k, l, more)
  BY <1>4 DEF Out, OutBy, DrawOf, Less, Nothing
<1>6. notes' = more
  OBVIOUS
<1> HIDE DEF more
<1>7. Documents'
  <2>1. Sold' = Sold
    BY DEF Sold
  <2>2. NoteLines(notes)' = NoteLines(more) /\ IsSequence(notes)'
    BY <1>2, <1>6 DEF NoteLines, AreNotes, IsSequence
  <2>3. \A sale : IsInvoice(sale) => IsInvoice(sale)'
    <3>1. \A sold : IsSold(sold) => IsSold(sold)'
      BY DEF IsSold, SumOf
    <3> QED BY <3>1 DEF IsInvoice
  <2>4. \A it : IsNote(it) => IsNote(it)'
    BY DEF IsNote, IsCredited
  <2>5. \A m \in DOMAIN notes' : IsNote(notes[m])'
    BY <1>1, <1>3, <1>6, <2>4 DEF Documents
  <2> QED BY <1>2, <2>1, <2>2, <2>3, <2>5 DEF Documents, AreNotes, IsSequence
<1>8. ASSUME NEW n \in DOMAIN sales PROVE NetSettled(n)'
  <2> DEFINE sale == sales[n]
             C(f) == CreditedInAll(n, f, notes)
             D(f) == CreditedInAll(n, f, more)
  <2>1. \A f \in NetFields : D(f) = C(f) + (IF note.sale = n THEN note[f] ELSE 0) /\ C(f) \in Int
    BY <1>1, InvoiceCredited, CreditedInAllIs DEF more
  <2>2. /\ C("net") <= sale.net
        /\ Settles(C("tax"), sale.tax, C("net"), sale.net)
        /\ Settles(C("baseTax"), sale.baseTax, C("net"), sale.net)
    BY DEF Settled, NetSettled
  <2>3. sale.net \in Nat /\ sale.tax \in Nat /\ sale.baseTax \in Nat
    BY DEF Documents, IsInvoice
  <2>4. CASE note.sale # n
    <3>1. D("net") = C("net") /\ D("tax") = C("tax") /\ D("baseTax") = C("baseTax")
      <4> HIDE DEF C, D
      <4> QED BY <2>1, <2>4 DEF NetFields
    <3> QED BY <1>4, <2>2, <3>1 DEF NetSettled, Settles
  <2>5. CASE note.sale = n
    <3>1. /\ note.net \in Nat /\ note.net <= sale.net - C("net")
          /\ note.tax \in 0..(sale.tax - C("tax")) /\ note.baseTax \in 0..(sale.baseTax - C("baseTax"))
          /\ note.net = sale.net - C("net") => note.tax = sale.tax - C("tax") /\ note.baseTax = sale.baseTax - C("baseTax")
      BY <2>5 DEF IsDueNote
    <3>2. /\ D("net") = C("net") + note.net /\ D("tax") = C("tax") + note.tax /\ D("baseTax") = C("baseTax") + note.baseTax
          /\ C("net") \in Int /\ C("tax") \in Int /\ C("baseTax") \in Int
      <4> HIDE DEF C, D
      <4> QED BY <2>1, <2>5 DEF NetFields
    <3>3. /\ D("net") <= sale.net
          /\ Settles(D("tax"), sale.tax, D("net"), sale.net)
          /\ Settles(D("baseTax"), sale.baseTax, D("net"), sale.net)
      <4>1. D("net") <= sale.net
        <5> HIDE DEF C, D, sale
        <5> QED BY <2>3, <3>1, <3>2
      <4>2. Settles(D("tax"), sale.tax, D("net"), sale.net)
        <5>1. note.tax \in Int /\ note.tax <= sale.tax - C("tax")
          <6> HIDE DEF C, D, sale
          <6> QED BY <2>3, <3>1, <3>2
        <5>2. note.net \in Int /\ (note.net = sale.net - C("net") => note.tax = sale.tax - C("tax"))
          BY <3>1
        <5>3. ASSUME D("net") = sale.net PROVE D("tax") = sale.tax
          <6>1. note.net = sale.net - C("net")
            <7> HIDE DEF C, D, sale
            <7> QED BY <2>3, <3>2, <5>2, <5>3
          <6> HIDE DEF C, D, sale
          <6> QED BY <2>3, <3>2, <5>1, <5>2, <6>1
        <5>4. D("tax") <= sale.tax
          <6> HIDE DEF C, D, sale
          <6> QED BY <2>3, <3>2, <5>1
        <5> HIDE DEF C, D, sale
        <5> QED BY <5>3, <5>4 DEF Settles
      <4>3. Settles(D("baseTax"), sale.baseTax, D("net"), sale.net)
        <5>1. note.baseTax \in Int /\ note.baseTax <= sale.baseTax - C("baseTax")
          <6> HIDE DEF C, D, sale
          <6> QED BY <2>3, <3>1, <3>2
        <5>2. note.net \in Int /\ (note.net = sale.net - C("net") => note.baseTax = sale.baseTax - C("baseTax"))
          BY <3>1
        <5>3. ASSUME D("net") = sale.net PROVE D("baseTax") = sale.baseTax
          <6>1. note.net = sale.net - C("net")
            <7> HIDE DEF C, D, sale
            <7> QED BY <2>3, <3>2, <5>2, <5>3
          <6> HIDE DEF C, D, sale
          <6> QED BY <2>3, <3>2, <5>1, <5>2, <6>1
        <5>4. D("baseTax") <= sale.baseTax
          <6> HIDE DEF C, D, sale
          <6> QED BY <2>3, <3>2, <5>1
        <5> HIDE DEF C, D, sale
        <5> QED BY <5>3, <5>4 DEF Settles
      <4> QED BY <4>1, <4>2, <4>3
    <3> QED BY <1>4, <3>3 DEF NetSettled, Settles
  <2> QED BY <2>4, <2>5
<1>9. ASSUME NEW n \in DOMAIN sales, NEW k \in DOMAIN sales[n].lines PROVE LineSettled(n, k)'
  <2>1. SettledBy(n, k, more)
    <3>1. CASE \E i \in DOMAIN note.lines : note.sale = n /\ note.lines[i].line = k
      BY <3>1, CreditedLineSettles DEF more
    <3>2. CASE \A i \in DOMAIN note.lines : ~(note.sale = n /\ note.lines[i].line = k)
      <4>1. /\ \A f : Credited(n, k, f, more) = Credited(n, k, f, notes)
            /\ \A l : Restored(n, k, l, more) = Restored(n, k, l, notes)
            /\ \A l : OutBy(n, k, l, more) = Out(n, k, l)
        BY <3>2, LineAside DEF more
      <4>2. LineSettled(n, k)
        BY DEF Settled
      <4> QED BY <4>1, <4>2 DEF LineSettled, SettledBy
    <3> QED BY <3>1, <3>2
  <2>2. /\ \A f : Credited(n, k, f, notes)' = Credited(n, k, f, more)
        /\ \A l : Restored(n, k, l, notes)' = Restored(n, k, l, more)
        /\ \A l : Out(n, k, l)' = OutBy(n, k, l, more)
    BY <1>4, <1>5
  <2> QED BY <2>1, <2>2 DEF LineSettled, SettledBy, Settles, Nothing
<1>10. Settled'
  BY <1>8, <1>9 DEF Settled
<1>11. \A l, x : OutOf(l, x)' = OutOfBy(l, x, more)
  BY <1>5 DEF OutOf, OutOfBy, Sold
<1> QED BY <1>7, <1>10, <1>11 DEF more

(***************************************************************************)
(* Goods that come back.                                                   *)
(***************************************************************************)
\* Draws are back in the lots they were made of.
ComesBack(back) ==
  /\ DOMAIN back \subseteq Lots /\ IsFiniteSet(DOMAIN back) /\ AreDraws(back)
  /\ lots' \in Seq(LotRow) /\ Lots' = Lots
  /\ \A l \in Lots :
       /\ lots'[l].item = lots[l].item /\ lots'[l].shipment = lots[l].shipment
       /\ lots'[l].paid = lots[l].paid /\ lots'[l].refunded = lots[l].refunded
       /\ lots'[l].left = Plus(lots[l].left, DrawOf(back, l))
       /\ l \notin DOMAIN back => lots'[l] = lots[l]

LEMMA RefilledComesBack ==
  ASSUME StockInv, NEW back, DOMAIN back \subseteq Lots, AreDraws(back), lots' = Refilled(back)
  PROVE  ComesBack(back)
<1> DEFINE row(l) == [lots[l] EXCEPT !.left = Plus(lots[l].left, DrawOf(back, l))]
           D == Refilled(back)
<1>1. Lots = 1..Len(lots) /\ Len(lots) \in Nat /\ IsFiniteSet(Lots) /\ \A l \in Lots : lots[l] \in LotRow
  BY LotsAre DEF StockInv
<1>2. D = [l \in Lots |-> row(l)]
  BY DEF Refilled
<1>3. ASSUME NEW l \in Lots
      PROVE  /\ row(l) \in LotRow
             /\ row(l) = [item |-> lots[l].item, shipment |-> lots[l].shipment, day |-> lots[l].day,
                          rate |-> lots[l].rate, paid |-> lots[l].paid,
                          left |-> Plus(lots[l].left, DrawOf(back, l)), refunded |-> lots[l].refunded]
             /\ l \notin DOMAIN back => row(l) = lots[l]
  <2>1. lots[l] \in LotRow /\ lots[l].left \in Figures
    BY <1>1 DEF LotRow
  <2>2. DrawOf(back, l) \in Figures /\ (l \notin DOMAIN back => DrawOf(back, l) = Nothing)
    BY DrawOfIs
  <2>3. Plus(lots[l].left, DrawOf(back, l)) \in Figures
    BY <2>1, <2>2, LessIsFigures
  <2>4. l \notin DOMAIN back => Plus(lots[l].left, DrawOf(back, l)) = lots[l].left
    BY <2>1, <2>2, LessIsFigures
  <2>5. [lots[l] EXCEPT !.left = lots[l].left] = lots[l]
    BY <2>1 DEF LotRow
  <2> QED BY <2>1, <2>3, <2>4, <2>5, LotChanges
<1> HIDE DEF row, D
<1>4. D \in Seq(LotRow) /\ DOMAIN D = Lots
  <2>1. D = [l \in 1..Len(lots) |-> D[l]] /\ \A l \in 1..Len(lots) : D[l] \in LotRow
    BY <1>1, <1>2, <1>3
  <2> QED BY <1>1, <1>2, <2>1
<1>5. lots' = D /\ Lots' = Lots
  BY <1>4 DEF D, Lots
<1>6. IsFiniteSet(DOMAIN back)
  BY <1>1, FS_Subset
<1>7. ASSUME NEW l \in Lots
      PROVE  /\ lots'[l].item = lots[l].item /\ lots'[l].shipment = lots[l].shipment
             /\ lots'[l].paid = lots[l].paid /\ lots'[l].refunded = lots[l].refunded
             /\ lots'[l].left = Plus(lots[l].left, DrawOf(back, l))
             /\ l \notin DOMAIN back => lots'[l] = lots[l]
  <2>1. lots'[l] = row(l)
    BY <1>2, <1>5
  <2> QED BY <1>3, <2>1
<1> QED BY <1>4, <1>5, <1>6, <1>7 DEF ComesBack

\* What comes back of a lot is out of it, and nothing of it where no goods come.
LEMMA BackIsSound ==
  ASSUME Rows, LotsAreSound, NEW back, ComesBack(back),
         \A l \in Lots : /\ \A x \in FigureNames : DrawOf(back, l)[x] <= lots[l].paid[x] - lots[l].left[x]
                         /\ DrawOf(back, l).quantity = 0 => DrawOf(back, l) = Nothing
  PROVE  LotsAreSound'
<1> SUFFICES ASSUME NEW l \in Lots PROVE Sound(lots'[l])
  BY DEF ComesBack, LotsAreSound
<1> DEFINE b == DrawOf(back, l)
           left == lots[l].left
           paid == lots[l].paid
           then == lots'[l].left
<1>1. b \in Figures
  BY DrawOfIs DEF ComesBack
<1>2. /\ b.quantity <= paid.quantity - left.quantity /\ b.cost <= paid.cost - left.cost
      /\ b.base <= paid.base - left.base /\ (b.quantity = 0 => b = Nothing)
  BY DEF FigureNames
<1>3. /\ left \in Figures /\ paid \in Figures /\ Sound(lots[l])
  BY LotFigures DEF LotsAreSound
<1>4. then = Plus(left, b) /\ lots'[l].paid = paid
  BY DEF ComesBack
<1>5. /\ then.quantity = left.quantity + b.quantity /\ then.cost = left.cost + b.cost
      /\ then.base = left.base + b.base
  BY <1>4 DEF Plus
<1>6. Nothing.quantity = 0 /\ Nothing.cost = 0 /\ Nothing.base = 0
  BY DEF Nothing
<1>7. left.quantity = 0 => left.cost = 0 /\ left.base = 0
  BY <1>3 DEF Sound
<1> HIDE DEF b, left, paid, then
<1>8. /\ b.quantity \in Nat /\ b.cost \in Nat /\ b.base \in Nat
      /\ left.quantity \in Nat /\ left.cost \in Nat /\ left.base \in Nat
      /\ paid.quantity \in Nat /\ paid.cost \in Nat /\ paid.base \in Nat
  BY <1>1, <1>3 DEF Figures
<1>9. /\ then.quantity \in 0..paid.quantity /\ then.cost \in 0..paid.cost /\ then.base \in 0..paid.base
  BY <1>2, <1>5, <1>8
<1>10. then.quantity = 0 => then.cost = 0 /\ then.base = 0
  BY <1>2, <1>5, <1>6, <1>7, <1>8
<1> QED BY <1>4, <1>9, <1>10 DEF Sound, then

\* Goods that are back: the account gains what they left at.
Returned(back) == ComesBack(back) /\ Posted("stock", Returning(back))

LEMMA ReturningIs ==
  ASSUME NEW back, IsFiniteSet(DOMAIN back), AreDraws(back)
  PROVE  /\ Returning(back) \in [Account -> Int]
         /\ \A a \in Account : Returning(back)[a] = SumFunctionOnSet(Bases(back), Of(DOMAIN back, a))
<1>1. \A l \in DOMAIN back : back[l].base \in Int
  BY DEF AreDraws, Figures
<1>2. \A a \in Account : Leaving(back)[a] \in Int
                         /\ Leaving(back)[a] = -SumFunctionOnSet(Bases(back), Of(DOMAIN back, a))
  BY <1>1, LeavingIs
<1>3. ASSUME NEW a \in Account
      PROVE  SumFunctionOnSet(Bases(back), Of(DOMAIN back, a)) \in Int
  <2>1. Of(DOMAIN back, a) \subseteq DOMAIN back /\ IsFiniteSet(Of(DOMAIN back, a))
    BY FS_Subset DEF Of
  <2>2. \A l \in Of(DOMAIN back, a) : Bases(back)[l] \in Int
    BY <1>1, <2>1 DEF Bases
  <2> QED BY <2>1, <2>2, SumIsInt
<1>4. \A a \in Account : Returning(back)[a] = -Leaving(back)[a]
  BY DEF Returning
<1>5. Returning(back) \in [Account -> Int]
  BY <1>2 DEF Returning
<1>6. \A m \in Int : -(-m) = m
  OBVIOUS
<1> QED BY <1>2, <1>3, <1>4, <1>5, <1>6

\* What a note brings back is out, of lots its session holds.
LEMMA BackInIs ==
  ASSUME StockInv, SaleInv, NEW s \in Session, pc[s] = "write", req[s].op = "credit", MayCredit(s, Noted(s))
  PROVE  LET note == Noted(s)
             back == BackIn(note)
         IN  /\ IsDueNote(note) /\ note.sale = req[s].sale
             /\ DOMAIN back \subseteq held[s] /\ DOMAIN back \subseteq Lots /\ AreDraws(back)
             /\ \A l : \A x \in FigureNames :
                  /\ DrawOf(back, l)[x] \in Nat
                  /\ OutOfBy(l, x, Append(notes, note)) = OutOf(l, x) - DrawOf(back, l)[x]
                  /\ OutOfBy(l, x, Append(notes, note)) \in Nat /\ OutOf(l, x) \in Nat
             /\ \A l : DrawOf(back, l).quantity = 0 => DrawOf(back, l) = Nothing
<1> DEFINE note == Noted(s)
           many == [i \in DOMAIN note.lines |-> note.lines[i].restored]
           back == BackIn(note)
<1>1. /\ IsDueNote(note) /\ note.sale = req[s].sale /\ DOMAIN note.lines = DOMAIN req[s].lines
      /\ \A i \in DOMAIN req[s].lines : /\ note.lines[i].line = req[s].lines[i].line
                                        /\ note.lines[i].quantity = req[s].lines[i].quantity
  BY NotedIsDue
<1>2. Documents /\ Settled /\ CreditReady(s) /\ Own(s)
  BY DEF SaleInv, Sells, StockInv
<1>3. back = InAll(many) /\ DOMAIN many = DOMAIN note.lines
  BY DEF BackIn
<1> HIDE DEF back, note
<1>4. /\ IsFiniteSet(DOMAIN note.lines) /\ OneEach(note)
      /\ \A i \in DOMAIN note.lines : IsDue(note.sale, note.lines[i])
  BY <1>1 DEF IsDueNote
<1>5. ASSUME NEW i \in DOMAIN note.lines
      PROVE  /\ AreDraws(many[i])
             /\ DOMAIN many[i] \subseteq GivenBack(req[s])
  <2> DEFINE line == note.lines[i]
             asked == req[s].lines[i]
  <2>1. /\ DOMAIN line.restored \subseteq DOMAIN sales[note.sale].lines[line.line].draws
        /\ \A l \in DOMAIN line.restored : IsDraw(line.restored[l], Out(note.sale, line.line, l))
        /\ line.quantity \in Nat /\ (line.quantity = 0 => DOMAIN line.restored = {})
    BY <1>4 DEF IsDue
  <2>2. many[i] = line.restored
    OBVIOUS
  <2>3. AreDraws(many[i])
    BY <2>1, <2>2 DEF AreDraws, IsDraw
  <2>4. i \in DOMAIN req[s].lines /\ asked.line = line.line /\ asked.quantity = line.quantity
    BY <1>1
  <2> HIDE DEF line, many
  <2>5. ASSUME NEW l \in DOMAIN line.restored PROVE l \in GivenBack(req[s])
    <3>1. asked.quantity > 0 /\ l \in DOMAIN sales[req[s].sale].lines[asked.line].draws
      BY <1>1, <2>1, <2>4
    <3> QED BY <2>4, <3>1 DEF GivenBack
  <2> QED BY <2>2, <2>3, <2>5
<1>6. /\ DOMAIN back = UNION {DOMAIN many[i] : i \in DOMAIN many}
      /\ AreDraws(back)
      /\ \A l : \A x \in FigureNames : DrawOf(back, l)[x] = SumFunctionOnSet(PartsOf(many, l, x), DOMAIN many)
  <2>1. IsFiniteSet(DOMAIN many) /\ \A i \in DOMAIN many : AreDraws(many[i])
    BY <1>3, <1>4, <1>5
  <2> HIDE DEF many
  <2>2. /\ DOMAIN InAll(many) = UNION {DOMAIN many[i] : i \in DOMAIN many}
        /\ AreDraws(InAll(many))
        /\ \A l : \A x \in FigureNames :
             DrawOf(InAll(many), l)[x] = SumFunctionOnSet(PartsOf(many, l, x), DOMAIN many)
    BY ONLY <2>1, InAllIs
  <2> QED BY <1>3, <2>2
<1>7. DOMAIN back \subseteq held[s] /\ DOMAIN back \subseteq Lots
  <2>1. GivenBack(req[s]) \subseteq held[s] /\ held[s] \subseteq Lots
    BY <1>2 DEF CreditReady, Own
  <2>2. \A i \in DOMAIN many : DOMAIN many[i] \subseteq GivenBack(req[s])
    BY <1>3, <1>5
  <2> HIDE DEF many
  <2> QED BY <1>6, <2>1, <2>2
<1>8. ASSUME NEW l, NEW x \in FigureNames
      PROVE  /\ DrawOf(back, l)[x] \in Nat
             /\ OutOfBy(l, x, Append(notes, note)) = OutOf(l, x) - DrawOf(back, l)[x]
             /\ OutOfBy(l, x, Append(notes, note)) \in Nat /\ OutOf(l, x) \in Nat
  <2>1. /\ OutOfBy(l, x, Append(notes, note)) = OutOf(l, x) - DrawOf(BackIn(note), l)[x]
        /\ OutOfBy(l, x, Append(notes, note)) \in Nat /\ DrawOf(BackIn(note), l)[x] \in Nat
    BY <1>1, <1>2, OutOfAfterNote
  <2>2. OutOf(l, x) \in Nat
    BY <1>2, OutOfIs
  <2> QED BY <2>1, <2>2 DEF back
<1>9. ASSUME NEW l, DrawOf(back, l).quantity = 0
      PROVE  DrawOf(back, l) = Nothing
  <2> DEFINE P(x) == PartsOf(many, l, x)
             I == DOMAIN note.lines
  <2>1. ASSUME NEW i \in I
        PROVE  /\ P("quantity")[i] \in Nat /\ (P("quantity")[i] = 0 => \A x \in FigureNames : P(x)[i] = 0)
    <3>1. /\ DrawOf(note.lines[i].restored, l) \in Figures
          /\ DrawOf(note.lines[i].restored, l).quantity = 0 => DrawOf(note.lines[i].restored, l) = Nothing
      <4>1. LineAfter(note, i, l)
        BY <1>1, <1>2, LineAfterNote
      <4> QED BY <4>1 DEF LineAfter
    <3>2. \A x : P(x)[i] = DrawOf(note.lines[i].restored, l)[x]
      BY DEF PartsOf
    <3> HIDE DEF P
    <3> QED BY <3>1, <3>2, FigureIs DEF FigureNames
  <2>2. SumFunctionOnSet(P("quantity"), I) = 0 /\ IsFiniteSet(I)
    BY <1>3, <1>4, <1>6, <1>9 DEF FigureNames
  <2>3. \A i \in I : P("quantity")[i] = 0
    <3>1. IsFiniteSet(I) /\ (\A i \in I : P("quantity")[i] \in Nat) /\ SumFunctionOnSet(P("quantity"), I) = 0
      BY <2>1, <2>2
    <3> HIDE DEF P, I
    <3> QED BY ONLY <3>1, SumIsNothing
  <2>4. ASSUME NEW x \in FigureNames PROVE DrawOf(back, l)[x] = 0
    <3>1. IsFiniteSet(I) /\ \A i \in I : P(x)[i] = 0
      BY <2>1, <2>2, <2>3
    <3>2. DrawOf(back, l)[x] = SumFunctionOnSet(P(x), I)
      BY <1>3, <1>6
    <3> HIDE DEF P, I
    <3>3. SumFunctionOnSet(P(x), I) = 0
      BY ONLY <3>1, SumOfZeros
    <3> QED BY <3>2, <3>3
  <2>5. DrawOf(back, l) \in Figures
    BY <1>6, DrawOfIs
  <2> HIDE DEF P, I
  <2> QED BY <2>4, <2>5 DEF Figures, Nothing, FigureNames
<1> QED BY <1>1, <1>6, <1>7, <1>8, <1>9 DEF back, note

\* The note of one invoice is not among those of another.
LEMMA AlikeElsewhere ==
  ASSUME NEW ns, IsSequence(ns), NEW note, NEW n, note.sale # n
  PROVE  Alike(n, ns, Append(ns, note))
<1>1. /\ DOMAIN Append(ns, note) = DOMAIN ns \cup {Len(ns) + 1} /\ Append(ns, note)[Len(ns) + 1] = note
      /\ \A m \in DOMAIN ns : Append(ns, note)[m] = ns[m]
  BY AppendIsSequence
<1> QED BY <1>1 DEF Alike, NotesOf

LEMMA WriteNoteKeeps ==
  ASSUME NEW s \in Session, StockInv, SaleInv, WriteNote(s)
  PROVE  StockInv' /\ SaleInv' /\ \E back : Returned(back)
<1> DEFINE note == Noted(s)
           back == BackIn(note)
           more == Append(notes, note)
<1>1. /\ pc[s] = "write" /\ req[s].op = "credit" /\ MayCredit(s, note)
      /\ notes' = more /\ lots' = Refilled(back)
      /\ journal' = Append(journal, Entry("stock", Returning(back)))
      /\ Finish(s) /\ sales' = sales
  BY DEF WriteNote
<1>2. /\ IsDueNote(note) /\ note.sale = req[s].sale
      /\ DOMAIN back \subseteq held[s] /\ DOMAIN back \subseteq Lots /\ AreDraws(back)
      /\ \A l : \A x \in FigureNames :
                  /\ DrawOf(back, l)[x] \in Nat
                  /\ OutOfBy(l, x, more) = OutOf(l, x) - DrawOf(back, l)[x]
                  /\ OutOfBy(l, x, more) \in Nat /\ OutOf(l, x) \in Nat
      /\ \A l : DrawOf(back, l).quantity = 0 => DrawOf(back, l) = Nothing
  BY <1>1, BackInIs
<1> HIDE DEF note, back
<1>3. Documents /\ Settled /\ Rows /\ LotsAreSound /\ RefundsWithinCost
  BY DEF SaleInv, StockInv
<1>4. ComesBack(back) /\ Lots' = Lots
  <2>1. ComesBack(back)
    BY <1>1, <1>2, RefilledComesBack
  <2> QED BY <2>1 DEF ComesBack
<1>5. Posted("stock", Returning(back))
  <2>1. Returning(back) \in [Account -> Int]
    BY <1>2, <1>4, ReturningIs DEF ComesBack
  <2> QED BY <1>1, <1>3, <2>1, PostingIsPosted
<1>6. ASSUME NEW l \in Lots, NEW x \in FigureNames
      PROVE  /\ OutOf(l, x) <= lots[l].paid[x] - lots[l].left[x]
             /\ lots[l].paid[x] \in Nat /\ lots[l].left[x] \in Nat
             /\ lots'[l].paid[x] = lots[l].paid[x] /\ lots'[l].left[x] = lots[l].left[x] + DrawOf(back, l)[x]
  <2>1. lots[l].paid \in Figures /\ lots[l].left \in Figures
    BY <1>3, LotFigures
  <2>2. lots'[l].paid = lots[l].paid /\ lots'[l].left = Plus(lots[l].left, DrawOf(back, l))
    BY <1>4 DEF ComesBack
  <2>3. OutOf(l, x) <= lots[l].paid[x] - lots[l].left[x]
    BY DEF SaleInv, Covered
  <2> QED BY <2>1, <2>2, <2>3, FigureIs
<1>7. LotsAreSound'
  <2>1. \A l \in Lots : /\ \A x \in FigureNames : DrawOf(back, l)[x] <= lots[l].paid[x] - lots[l].left[x]
                        /\ DrawOf(back, l).quantity = 0 => DrawOf(back, l) = Nothing
    <3>1. ASSUME NEW l \in Lots, NEW x \in FigureNames
          PROVE  DrawOf(back, l)[x] <= lots[l].paid[x] - lots[l].left[x]
      <4>1. /\ DrawOf(back, l)[x] \in Nat /\ OutOf(l, x) - DrawOf(back, l)[x] \in Nat /\ OutOf(l, x) \in Nat
        BY <1>2
      <4> QED BY <1>6, <4>1
    <3> QED BY <1>2, <3>1
  <2> QED BY <1>3, <1>4, <2>1, BackIsSound
<1>8. RefundsWithinCost'
  BY <1>3, <1>4 DEF RefundsWithinCost, ComesBack
<1>9. StockInv'
  <2>1. LotsGrow /\ \A l \in Lots \ held[s] : lots'[l] = lots[l]
    BY <1>2, <1>4 DEF LotsGrow, ComesBack
  <2>2. SessionTypes' /\ LocksExclude' /\ \A t \in Session : Own(t)'
    BY <1>1, <2>1, FinishKeeps
  <2>3. Rows'
    BY <1>3, <1>4, <1>5, PostedKeeps DEF ComesBack
  <2> QED BY <1>7, <1>8, <2>2, <2>3 DEF StockInv
<1>10. Documents' /\ Settled' /\ \A l, x : OutOf(l, x)' = OutOfBy(l, x, more)
  <2>1. Documents /\ Settled /\ IsDueNote(note) /\ sales' = sales /\ Lots' = Lots /\ notes' = Append(notes, note)
    BY <1>1, <1>2, <1>3, <1>4
  <2>2. Documents' /\ Settled' /\ \A l, x : OutOf(l, x)' = OutOfBy(l, x, Append(notes, note))
    BY ONLY <2>1, NoteStands
  <2> QED BY <2>2
<1>11. ASSUME NEW l \in Lots' PROVE Covered(l)'
  <2>1. ASSUME NEW x \in FigureNames PROVE OutOf(l, x)' <= lots'[l].paid[x] - lots'[l].left[x]
    <3>1. /\ OutOf(l, x)' = OutOf(l, x) - DrawOf(back, l)[x]
          /\ DrawOf(back, l)[x] \in Nat /\ OutOf(l, x) \in Nat
      BY <1>2, <1>10
    <3>2. l \in Lots
      BY <1>4
    <3> QED BY <1>6, <3>1, <3>2
  <2> QED BY <2>1 DEF Covered
<1>12. pc'[s] = "idle" /\ \A t \in Session \ {s} : Same(t)
  BY <1>1, FinishFrees DEF StockInv, Finish, SessionTypes
<1>13. ASSUME NEW t \in Session PROVE Sells(t)'
  <2>1. CASE t = s
    BY <1>12, <2>1 DEF Sells
  <2>2. CASE t # s
    <3>1. ASSUME pc[t] \notin {"idle", "sale"}, req[t].op = "credit"
          PROVE  Alike(req[t].sale, notes, notes')
      <4>1. Holds(t, req[t].sale) /\ Holds(s, req[s].sale)
        BY <1>1, <3>1 DEF Holds
      <4>2. req[t].sale # note.sale
        BY <1>2, <2>2, <4>1 DEF SaleInv, SalesExclude, Holds
      <4> QED BY <1>1, <1>3, <4>2, AlikeElsewhere DEF Documents
    <3>2. DOMAIN sales \subseteq DOMAIN sales' /\ \A n \in DOMAIN sales : sales'[n] = sales[n]
      BY <1>1
    <3> QED BY <1>12, <2>2, <3>1, <3>2, OthersSell DEF SaleInv
  <2> QED BY <2>1, <2>2
<1>14. SalesExclude'
  BY <1>12, SaleLockStands DEF SaleInv
<1> QED BY <1>4, <1>5, <1>9, <1>10, <1>11, <1>13, <1>14 DEF SaleInv, Returned

(***************************************************************************)
(* Every step of Sales.                                                    *)
(***************************************************************************)
LEMMA SalesInitIs == SalesInit => StockInv /\ SaleInv
<1> SUFFICES ASSUME SalesInit PROVE StockInv /\ SaleInv
  OBVIOUS
<1>1. StockInv /\ sales = <<>> /\ notes = <<>> /\ \A s \in Session : pc[s] = "idle"
  BY StockInitIs DEF SalesInit, StockInit
<1>2. DOMAIN sales = {} /\ DOMAIN notes = {} /\ IsSequence(sales) /\ IsSequence(notes)
  BY <1>1 DEF IsSequence
<1>3. Sold = {} /\ NoteLines(notes) = {}
  BY <1>2 DEF Sold, NoteLines
<1>4. Documents /\ Settled
  BY <1>2, <1>3, FS_EmptySet DEF Documents, Settled
<1>5. ASSUME NEW l \in Lots, NEW x \in FigureNames PROVE OutOf(l, x) <= lots[l].paid[x] - lots[l].left[x]
  <2>1. OutOf(l, x) = 0
    BY <1>3, SumOfNone DEF OutOf
  <2>2. /\ lots[l].paid.quantity \in Nat /\ lots[l].paid.cost \in Nat /\ lots[l].paid.base \in Nat
        /\ lots[l].left.quantity \in Nat /\ lots[l].left.cost \in Nat /\ lots[l].left.base \in Nat
        /\ lots[l].left.quantity <= lots[l].paid.quantity
        /\ lots[l].left.cost <= lots[l].paid.cost /\ lots[l].left.base <= lots[l].paid.base
    BY <1>1, LotFigures DEF StockInv
  <2> QED BY <2>1, <2>2 DEF FigureNames
<1>6. (\A l \in Lots : Covered(l)) /\ (\A s \in Session : Sells(s)) /\ SalesExclude
  BY <1>1, <1>5 DEF Covered, Sells, SalesExclude, Holds
<1> QED BY <1>1, <1>4, <1>6 DEF SaleInv

SalesDoes == StockDoes \/ \E back : Returned(back)

\* A session that ends without a word leaves the books as they are.
LEMMA RefusedKeeps ==
  ASSUME NEW s \in Session, StockInv, SaleInv, Rollback(s), UNCHANGED saleVars
  PROVE  StockInv' /\ StockDoes /\ SaleInv'
<1>1. StockInv' /\ StockDoes /\ Finish(s)
  BY RollbackKeeps DEF Rollback, StockDoes
<1> QED BY <1>1, FinishSells

\* A step of Stock, while no document changes.
LEMMA StockStepSells ==
  ASSUME NEW s \in Session, StockInv, SaleInv, StockStep(s), UNCHANGED saleVars
  PROVE  StockInv' /\ StockDoes /\ SaleInv'
<1>1. StockInv' /\ StockDoes
  BY StockStepIs DEF StockNext
<1>2. CASE Begin(s)
  BY <1>1, <1>2, BeginSells
<1>3. CASE Select(s)
  BY <1>1, <1>3, SelectSells
<1>4. CASE LockRow(s)
  BY <1>1, <1>4, LockRowSells
<1>5. CASE Locked(s)
  BY <1>1, <1>5, LockedSells
<1>6. CASE Finish(s)
  BY <1>1, <1>6, FinishSells
<1> QED BY <1>1, <1>2, <1>3, <1>4, <1>5, <1>6
        DEF StockStep, WriteIssue, IssueRefused, WriteReturn, ReturnRefused, WriteCharge, ChargeRefused, Abort, Rollback

LEMMA SalesStepIs ==
  ASSUME StockInv, SaleInv, [SalesNext]_salesVars
  PROVE  StockInv' /\ SaleInv' /\ SalesDoes
<1>1. CASE (Receive \/ PostByHand \/ ReverseEntry) /\ UNCHANGED saleVars
  <2>1. StockInv' /\ StockDoes
    BY <1>1, StockStepIs DEF StockNext
  <2>2. Idle
    BY <1>1 DEF Receive, PostByHand, ReverseEntry
  <2> QED BY <1>1, <2>1, <2>2, IdleSells DEF SalesDoes
<1>2. ASSUME NEW s \in Session, SalesStep(s)
      PROVE  StockInv' /\ SaleInv' /\ SalesDoes
  <2>1. CASE BeginSale(s)
    BY <2>1, BeginSaleKeeps DEF SalesDoes
  <2>2. CASE BeginCredit(s)
    BY <2>2, BeginCreditKeeps DEF SalesDoes
  <2>3. CASE LockSale(s)
    BY <2>3, LockSaleKeeps DEF SalesDoes
  <2>4. CASE WriteSale(s)
    BY <2>4, WriteSaleKeeps DEF SalesDoes
  <2>5. CASE WriteNote(s)
    BY <2>5, WriteNoteKeeps DEF SalesDoes
  <2>6. CASE SaleRefused(s) \/ NoteRefused(s) \/ Victim(s)
    BY <2>6, RefusedKeeps DEF SaleRefused, NoteRefused, Victim, SalesDoes
  <2>7. CASE StockStep(s) /\ UNCHANGED saleVars
    BY <2>7, StockStepSells DEF SalesDoes
  <2> QED BY <1>2, <2>1, <2>2, <2>3, <2>4, <2>5, <2>6, <2>7 DEF SalesStep, LockLot, StockStep
<1>3. CASE UNCHANGED salesVars
  <2>1. StockInv' /\ StockDoes
    BY <1>3, StockStepIs DEF salesVars, stockVars
  <2>2. Idle /\ UNCHANGED saleVars
    BY <1>3 DEF salesVars, saleVars, Idle
  <2> QED BY <2>1, <2>2, IdleSells DEF SalesDoes
<1> QED BY <1>1, <1>2, <1>3 DEF SalesNext

LEMMA SalesInvariant == SalesSpec => [](StockInv /\ SaleInv)
<1>1. SalesInit => StockInv /\ SaleInv
  BY SalesInitIs
<1>2. (StockInv /\ SaleInv) /\ [SalesNext]_salesVars => (StockInv /\ SaleInv)'
  BY SalesStepIs
<1> QED BY <1>1, <1>2, PTL DEF SalesSpec

(***************************************************************************)
(* What holds of invoices and credit notes, and of the lots beside them.   *)
(***************************************************************************)
\* A line whose goods are all back has none of its cost left out.
LEMMA CostComesBack ==
  ASSUME StockInv, Documents, Settled, NEW n \in DOMAIN sales, NEW k \in DOMAIN sales[n].lines,
         NEW l \in DOMAIN sales[n].lines[k].draws
  PROVE  Settles(Restored(n, k, l, notes).base, sales[n].lines[k].draws[l].base,
                 Credited(n, k, "quantity", notes), sales[n].lines[k].quantity)
<1> DEFINE out == StillOut(n, k, notes)
           sold == sales[n].lines[k]
           D == DOMAIN sold.draws
           was == Restored(n, k, l, notes)
           C == Credited(n, k, "quantity", notes)
<1>1. /\ IsOpen(out) /\ DOMAIN out = D /\ \A j \in DOMAIN out : out[j].left = Out(n, k, j)
      /\ Available(out, DOMAIN out) = sold.quantity - C
  BY StillOutIs
<1>2. Out(n, k, l) \in Figures /\ (Out(n, k, l).quantity = 0 => Out(n, k, l) = Nothing)
  BY DEF Settled, LineSettled
<1>3. Out(n, k, l) = Less(sold.draws[l], was)
  BY DEF Out, DrawOf
<1>4. sold.draws[l].base \in Nat /\ was.base \in Nat /\ sold.quantity \in Nat
  <2>1. sold.draws[l] \in Figures /\ sold.quantity \in Nat
    BY DEF Documents, IsInvoice, IsSold
  <2>2. was \in Figures
    BY DocumentsAre, RestoredIs
  <2> HIDE DEF was, sold
  <2> QED BY <2>1, <2>2 DEF Figures
<1>5. Out(n, k, l).base = sold.draws[l].base - was.base
  BY <1>3 DEF Less
<1>6. Out(n, k, l).base \in Nat /\ Nothing.base = 0
  BY <1>2 DEF Figures, Nothing
<1>7. ASSUME C = sold.quantity PROVE Out(n, k, l).quantity = 0
  <2> DEFINE f == Remaining(out)
  <2>1. \A j \in DOMAIN out : f[j] = Out(n, k, j).quantity /\ f[j] \in Nat
    <3>1. \A j \in DOMAIN out : f[j] = out[j].left.quantity
      BY DEF Remaining
    <3>2. \A j \in DOMAIN out : out[j].left.quantity \in Nat
      BY <1>1 DEF IsOpen, Figures
    <3> HIDE DEF f, out
    <3> QED BY <1>1, <3>1, <3>2
  <2>2. SumFunctionOnSet(f, DOMAIN out) = 0
    <3> HIDE DEF out, sold, C
    <3> QED BY <1>1, <1>4, <1>7 DEF Available
  <2>3. IsFiniteSet(DOMAIN out)
    BY <1>1 DEF IsOpen
  <2>4. \A j \in DOMAIN out : f[j] = 0
    <3>1. IsFiniteSet(DOMAIN out) /\ (\A j \in DOMAIN out : f[j] \in Nat) /\ SumFunctionOnSet(f, DOMAIN out) = 0
      BY <2>1, <2>2, <2>3
    <3> HIDE DEF f, out
    <3> QED BY ONLY <3>1, SumIsNothing
  <2> HIDE DEF f, out
  <2> QED BY <1>1, <2>1, <2>4
<1> HIDE DEF was, C
<1>8. was.base <= sold.draws[l].base
  BY <1>4, <1>5, <1>6
<1>9. C = sold.quantity => was.base = sold.draws[l].base
  BY <1>2, <1>4, <1>5, <1>6, <1>7
<1> QED BY <1>8, <1>9 DEF Settles, was, C

\* An invoice credited for all of something has nothing of it left, and is never
\* credited for more: not of its tax, nor of the revenue or the cost of a line, in
\* however many notes (credit-note.ts, and the triggers of 0030), although two of
\* them race for the last of it.  Each works from what it read once it had locked
\* the invoice, and that lock makes what it read true until it ends.
THEOREM CreditsAlwaysSettle == SalesSpec => []CreditsSettle
<1>1. StockInv /\ SaleInv => CreditsSettle
  <2> SUFFICES ASSUME StockInv, SaleInv, NEW n \in DOMAIN sales
               PROVE  /\ NetSettled(n)
                      /\ \A k \in DOMAIN sales[n].lines :
                           /\ LineSettled(n, k)
                           /\ \A l \in DOMAIN sales[n].lines[k].draws :
                                Settles(Restored(n, k, l, notes).base, sales[n].lines[k].draws[l].base,
                                        Credited(n, k, "quantity", notes), sales[n].lines[k].quantity)
    BY DEF CreditsSettle, NetSettled, LineSettled
  <2>1. Documents /\ Settled
    BY DEF SaleInv
  <2> QED BY <2>1, CostComesBack DEF Settled
<1> QED BY <1>1, SalesInvariant, PTL

\* Goods that come back from customers leave the CHECKs of a lot (0017) as true as
\* everything else does: no note puts more into a lot than was sold out of it.
THEOREM SaleLotsAlwaysSound == SalesSpec => []LotsAreSound
<1>1. StockInv => LotsAreSound
  BY DEF StockInv
<1> QED BY <1>1, SalesInvariant, PTL

\* What an account holds when goods come back.
LEMMA HeldReturns ==
  ASSUME StockInv, NEW a \in Account, NEW back, Returned(back)
  PROVE  HeldOn(a)' = HeldOn(a) + Returning(back)[a]
<1> DEFINE f == LeftOf("base")
           g == LeftOf("base")'
           T == OnAccount(a)
           S == Of(DOMAIN back, a)
           b == Bases(back)
<1>1. /\ DOMAIN back \subseteq Lots /\ IsFiniteSet(DOMAIN back) /\ Lots' = Lots /\ AreDraws(back)
      /\ \A l \in Lots : /\ lots'[l].item = lots[l].item
                         /\ l \notin DOMAIN back => lots'[l] = lots[l]
                         /\ lots'[l].left = Plus(lots[l].left, DrawOf(back, l))
      /\ \A l \in DOMAIN back : back[l].base \in Int
  BY DEF Returned, ComesBack, AreDraws, Figures
<1>2. IsFiniteSet(T) /\ T \in SUBSET Lots
  BY HeldIs DEF StockInv
<1>3. S \in SUBSET T /\ (\A l \in T \ S : l \notin DOMAIN back) /\ S \subseteq DOMAIN back
  BY <1>1 DEF Of, OnAccount
<1>4. OnAccount(a)' = T
  BY <1>1 DEF OnAccount
<1>5. \A l \in Lots : f[l] = lots[l].left.base /\ f[l] \in Int /\ g[l] = lots'[l].left.base
  <2>1. \A l \in Lots : f[l] \in Int /\ f[l] = lots[l].left.base
    BY LeftAre DEF StockInv
  <2>2. \A l \in Lots' : g[l] = lots'[l].left.base
    BY DEF LeftOf, Lots
  <2> HIDE DEF f, g
  <2> QED BY <1>1, <2>1, <2>2
<1>6. \A l \in S : b[l] = back[l].base /\ b[l] \in Int
  BY <1>1, <1>3 DEF Bases
<1>7. \A l \in DOMAIN back : lots'[l].left.base = lots[l].left.base + back[l].base
  <2>1. \A x, y : Plus(x, y).base = x.base + y.base
    BY DEF Plus
  <2>2. \A l \in DOMAIN back : lots'[l].left = Plus(lots[l].left, back[l])
    BY <1>1 DEF DrawOf
  <2> QED BY <2>1, <2>2
<1>8. HeldOn(a) = SumFunctionOnSet(f, T) /\ HeldOn(a)' = SumFunctionOnSet(g, T)
  BY <1>4 DEF HeldOn
<1>9. Returning(back)[a] = SumFunctionOnSet(b, S)
  BY <1>1, ReturningIs
<1> HIDE DEF f, g, T, S, b
<1>10. SumFunctionOnSet(g, T) = SumFunctionOnSet(f, T) + SumFunctionOnSet(b, S)
  <2>1. /\ IsFiniteSet(T) /\ S \in SUBSET T /\ \A l \in T : f[l] \in Int
        /\ \A l \in S : b[l] \in Int /\ g[l] = f[l] + b[l]
        /\ \A l \in T \ S : g[l] = f[l]
    <3>1. \A l \in S : g[l] = f[l] + b[l]
      BY <1>2, <1>3, <1>5, <1>6, <1>7
    <3>2. \A l \in T \ S : g[l] = f[l]
      BY <1>1, <1>2, <1>3, <1>5
    <3> QED BY <1>2, <1>3, <1>5, <1>6, <3>1, <3>2
  <2> QED BY ONLY <2>1, SumShifts
<1> QED BY <1>8, <1>9, <1>10

LEMMA ReturnAgrees ==
  ASSUME StockInv, NEW a \in Account, Agrees(a), NEW back, Returned(back)
  PROVE  Agrees(a)'
<1> DEFINE all == Balance(a, DOMAIN journal)
           hand == Balance(a, HandMade)
           there == HeldOn(a)
           more == Returning(back)
<1>1. Rows /\ there \in Int /\ all - there = hand
  BY HeldIs DEF StockInv, Agrees
<1>2. Posted("stock", more) /\ more \in [Account -> Int]
  BY ReturningIs DEF Returned, ComesBack
<1>3. there' = there + more[a]
  BY HeldReturns
<1>4. SUFFICES all' - there' = hand'
  BY DEF Agrees
<1> HIDE DEF all, hand, there, more
<1>5. all' = all + more[a] /\ hand' = hand + 0 /\ all \in Int /\ hand \in Int /\ more[a] \in Int
  BY <1>1, <1>2, BalanceMoves DEF all, hand
<1> QED BY <1>1, <1>3, <1>5

\* The account and the lots agree (reconcile, of inventory.ts) when goods are sold
\* and come back as well: a note gives the account what it puts into the lots,
\* which is what the sale took out of both.
THEOREM SalesMatchStock == SalesSpec => []StockAgrees
<1> DEFINE I == StockInv /\ SaleInv /\ StockAgrees
<1>1. SalesInit => I
  BY SalesInitIs, AgreeInit, StockAgreesIs DEF SalesInit
<1>2. I /\ [SalesNext]_salesVars => I'
  <2> SUFFICES ASSUME I, [SalesNext]_salesVars PROVE I'
    OBVIOUS
  <2>1. StockInv' /\ SaleInv' /\ SalesDoes /\ StockInv
    BY SalesStepIs
  <2>2. \A a \in Account : Agrees(a)'
    BY <2>1, StepAgrees, ReturnAgrees, StockAgreesIs DEF SalesDoes
  <2>3. StockAgrees' <=> \A a \in Account : Agrees(a)'
    BY DEF StockAgrees, Agrees, HeldOn, HandMade
  <2> QED BY <2>1, <2>2, <2>3
<1>3. I => StockAgrees
  OBVIOUS
<1> QED BY <1>1, <1>2, <1>3, PTL DEF SalesSpec

=============================================================================
