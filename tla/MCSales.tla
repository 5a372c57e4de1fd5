------------------------------- MODULE MCSales ------------------------------
\* Small instances of Sales: two lots of pavers and one of slabs; invoices that
\* ship both, in crossing orders; and credit notes that come to all of a line,
\* in pieces of which the tax rounds to nothing one at a time.  A rate is in
\* halves, a tax rate in fifths.
EXTENDS Sales

CONSTANTS s1, s2, h1

Accounts == [i \in Item |-> "156"]
Methods == [i \in Item |-> IF i = "paver" THEN "fifo" ELSE "average"]

Got(i, h, d, q, c, r) ==
  [op |-> "receive", item |-> i, shipment |-> h, day |-> d, quantity |-> q, cost |-> c, rate |-> r]
Line(i, q, n) == [item |-> i, quantity |-> q, amount |-> n, lot |-> NoLot]
Sell(ref, lines) ==
  [op |-> "sell", reference |-> ref, day |-> 2, rate |-> 3, taxRate |-> 2, lines |-> lines]
Of(k, q, n) == [line |-> k, quantity |-> q, amount |-> n]
Credit(ref, n, lines) ==
  [op |-> "credit", reference |-> ref, sale |-> n, day |-> 2, lines |-> lines]

Yard == <<Got("paver", NoShipment, 1, 3, 5, 3), Got("paver", h1, 2, 1, 2, 2),
          Got("slab", h1, 1, 2, 3, 3)>>

YardRequests ==
  {Sell("INV-1", <<Line("paver", 2, 2), Line("slab", 1, 1)>>),
   Sell("INV-2", <<Line("slab", 1, 0), Line("paver", 1, 1), Line("paver", 1, 2)>>),
   Credit("CN-1", 1, <<Of(1, 1, 1)>>),
   Credit("CN-2", 1, <<Of(2, 1, 1), Of(1, 1, 0)>>),
   Credit("CN-3", 1, <<Of(1, 0, 1)>>),
   [op |-> "issue", item |-> "paver", quantity |-> 1, lot |-> NoLot],
   [op |-> "return", lot |-> 1, quantity |-> 1, refund |-> Default, day |-> 2],
   [op |-> "charge", shipment |-> h1, amount |-> 3, basis |-> "value"],
   Got("paver", h1, 2, 1, 1, 2), [op |-> "line", item |-> "slab", amount |-> 1], [op |-> "reverse"]}
=============================================================================
