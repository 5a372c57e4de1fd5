------------------------------- MODULE Costing ------------------------------
(***************************************************************************)
(* Which lots a movement draws from and what it costs (costing.ts), and    *)
(* what landing a charge adds to them (domain/landed-cost.ts).  `open` is  *)
(* a function from the ids of lots to their rows.                          *)
(***************************************************************************)
EXTENDS Money

\* A quantity, what it cost in the supplier's currency, and in the books' own.
Figures == [quantity : Nat, cost : Nat, base : Nat]
Nothing == [quantity |-> 0, cost |-> 0, base |-> 0]

Plus(a, b) == [quantity |-> a.quantity + b.quantity, cost |-> a.cost + b.cost, base |-> a.base + b.base]
Less(a, b) == [quantity |-> a.quantity - b.quantity, cost |-> a.cost - b.cost, base |-> a.base - b.base]

\* By arrival, then by id, which is time-ordered.
Before(open, k, l) == open[k].day < open[l].day \/ (open[k].day = open[l].day /\ k < l)
Rank(open) == [l \in DOMAIN open |-> Cardinality({k \in DOMAIN open : Before(open, k, l)})]

Remaining(open) == [l \in DOMAIN open |-> open[l].left.quantity]
Available(open, S) == SumFunctionOnSet(Remaining(open), S)

\* Mutant: the last draw is a share like the others, at a unit price.
DrawByShare(left, quantity) ==
  [quantity |-> quantity,
   cost |-> quantity * DivideRounding(left.cost, left.quantity),
   base |-> quantity * DivideRounding(left.base, left.quantity)]

\* The cost of one draw: all that is left with the last of the quantity, and
\* otherwise a share of what is left.
Draw(left, quantity) ==
  IF quantity = left.quantity THEN left
  ELSE [quantity |-> quantity,
        cost |-> DivideRounding(left.cost * quantity, left.quantity),
        base |-> DivideRounding(left.base * quantity, left.quantity)]

\* Walking the lots in order: each gives what the ones ahead of it could not.
Sequential(open, quantity, Ahead(_, _)) ==
  [l \in DOMAIN open |->
     LET still == quantity - Available(open, {k \in DOMAIN open : Ahead(k, l)})
     IN  IF still <= 0 THEN 0
         ELSE IF still < open[l].left.quantity THEN still ELSE open[l].left.quantity]

\* How much each lot gives, by method.
Takes(open, quantity, method, chosen) ==
  CASE method = "fifo" -> Sequential(open, quantity, LAMBDA k, l : Before(open, k, l))
    [] method = "lifo" -> Sequential(open, quantity, LAMBDA k, l : Before(open, l, k))
    [] method = "specific" -> [l \in DOMAIN open |-> IF l = chosen THEN quantity ELSE 0]
    [] OTHER -> Apportion(quantity, Remaining(open), Rank(open))

\* insufficient_stock, layer_required, layer_not_found.
CanAllocate(open, quantity, method, chosen) ==
  IF method = "specific"
  THEN chosen \in DOMAIN open /\ quantity <= open[chosen].left.quantity
  ELSE quantity <= Available(open, DOMAIN open)

\* The draws: a lot that gives nothing has none.
Allocate(open, quantity, method, chosen) ==
  LET takes == Takes(open, quantity, method, chosen)
  IN  [l \in {k \in DOMAIN open : takes[k] > 0} |-> Draw(open[l].left, takes[l])]

\* The lots once the draws are out of them.
AfterDraws(open, draws) ==
  [l \in DOMAIN open |-> IF l \in DOMAIN draws
                         THEN [open[l] EXCEPT !.left = Less(@, draws[l])] ELSE open[l]]

CostOf(draws) == SumFunction([l \in DOMAIN draws |-> draws[l].base])

\* What a charge adds: each lot's share, and the part of it still held.
WeightBy(open, basis) ==
  [l \in DOMAIN open |-> IF basis = "quantity" THEN open[l].paid.quantity ELSE open[l].paid.base]

AllocateCharge(open, amount, basis) ==
  LET share == Apportion(amount, WeightBy(open, basis), Rank(open))
      held(l) == Apportion(share[l], <<open[l].left.quantity,
                                       open[l].paid.quantity - open[l].left.quantity>>, <<1, 2>>)[1]
  IN  [l \in DOMAIN open |-> [amount |-> share[l], toInventory |-> held(l)]]

=============================================================================
