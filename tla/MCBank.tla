-------------------------------- MODULE MCBank ------------------------------
\* A statement of two receipts of the same amount on one day and a fee, in two files
\* that overlap, in either order.
EXTENDS Reconciliation

CONSTANTS s1, s2

SessionSymmetry == Permutations(Session)

Amounts == [l \in Line |-> IF l = "fee" THEN -1 ELSE 5]
Days == [l \in Line |-> IF l = "fee" THEN 4 ELSE 3]
OneDay == [l \in Line |-> 3]
Balances == [l \in Line |-> CASE l = "first" -> {5} [] l = "second" -> {10} [] OTHER -> {9}]
Files == {<<"first", "second">>, <<"second", "first", "fee">>}
Whole == {<<"first", "second", "fee">>}

\* A receipt booked the day before, and a fee that is not final yet.
Bookings == {[amount |-> 5, day |-> 2, status |-> "posted"],
             [amount |-> -1, day |-> 3, status |-> "pending"]}
=============================================================================
