-------------------------------- MODULE Money -------------------------------
(***************************************************************************)
(* The arithmetic of amounts: fx.ts and apportion.ts.  Amounts are whole   *)
(* minor units; a rate is an integer over RateScale.                       *)
(***************************************************************************)
EXTENDS Integers, FiniteSets, Functions

CONSTANT RateScale        \* RATE_FACTOR, and the two currencies' exponents with it

ASSUME ScaleAssumption == RateScale \in Nat \ {0}

\* Half away from zero; `d` is positive in every call modelled here.
DivideRounding(n, d) ==
  IF n < 0 THEN -((2 * (-n) + d) \div (2 * d)) ELSE (2 * n + d) \div (2 * d)

Convert(amount, rate) == DivideRounding(amount * rate, RateScale)

\* `total` over the shares of `weight`, by largest remainder; a tie goes to the
\* share `rank` puts first.  Nothing to be proportional to: the first has it all.
Apportion(total, weight, rank) ==
  LET all == SumFunction(weight)
      floor == [i \in DOMAIN weight |-> (total * weight[i]) \div all]
      short == total - SumFunction(floor)
      rest == [i \in DOMAIN weight |-> total * weight[i] - floor[i] * all]
      before(i) == {j \in DOMAIN weight : rest[j] > rest[i] \/ (rest[j] = rest[i] /\ rank[j] < rank[i])}
  IN  IF all = 0
      THEN [i \in DOMAIN weight |->
              IF \A j \in DOMAIN weight : rank[i] <= rank[j] THEN total ELSE 0]
      ELSE [i \in DOMAIN weight |->
              IF weight[i] > 0 /\ Cardinality(before(i)) < short THEN floor[i] + 1 ELSE floor[i]]

=============================================================================
