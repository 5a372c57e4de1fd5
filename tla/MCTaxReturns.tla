---------------------------- MODULE MCTaxReturns ----------------------------
\* Small instances of TaxReturns: two or three months, any period of them typed in or only
\* the months the page offers; a month of credits beyond its sales, and a purchase
\* under reverse charge.
EXTENDS TaxReturns, TLC

CONSTANTS s1, s2

SessionSymmetry == Permutations(Session)

Supply(sides, tax) == [sides |-> sides, tax |-> tax]
Supplies ==
  {Supply({"sale"}, 2), Supply({"sale"}, -1), Supply({"purchase"}, 3), Supply(Side, 1)}

Lines == {Moves(1, 0, 0)}
NoLines == {}

AnyPeriod == {p \in (1..LastMonth) \X (1..LastMonth) : p[1] <= p[2]}
AsOffered == {}
=============================================================================
