------------------------------- MODULE MCStock ------------------------------
\* Small instances of Stock: lots of three and two that cost amounts a third
\* and a half of which has to be rounded.  The second to arrive was recorded
\* first.  A rate is in halves.
EXTENDS Stock, TLC

CONSTANTS s1, s2, h1

SessionSymmetry == Permutations(Session)

Accounts == [i \in Item |-> IF i = "block" THEN "1562" ELSE "1561"]
Methods == [i \in Item |-> CASE i = "paver" -> "average" [] i = "slab" -> "lifo"
                             [] i = "tile" -> "fifo" [] OTHER -> "specific"]

Got(i, h, d, q, c, r) ==
  [op |-> "receive", item |-> i, shipment |-> h, day |-> d, quantity |-> q, cost |-> c, rate |-> r]
Take(op, i, q, l) == [op |-> op, item |-> i, quantity |-> q, lot |-> l]
Back(l, q, x) == [op |-> "return", lot |-> l, quantity |-> q, refund |-> x, day |-> 2]
Charge(n, by) == [op |-> "charge", shipment |-> h1, amount |-> n, basis |-> by]

\* Two lots of pavers and two of slabs, one of each on the shipment, and a block.
Yard == <<Got("paver", h1, 2, 3, 5, 3), Got("paver", NoShipment, 1, 2, 3, 2),
          Got("slab", h1, 1, 2, 3, 2), Got("slab", NoShipment, 1, 2, 4, 3),
          Got("block", NoShipment, 3, 1, 2, 2)>>

YardRequests ==
  {Take("issue", "paver", 2, NoLot), Take("writeoff", "paver", 3, NoLot), Take("issue", "slab", 3, NoLot),
   Take("issue", "tile", 1, NoLot), Take("writeoff", "block", 1, 5), Take("issue", "block", 1, 1),
   Back(1, 2, Default), Back(1, 1, 5), Back(5, 1, Default), Charge(5, "value"), Charge(3, "quantity"),
   Got("paver", h1, 1, 1, 1, 2), Got("tile", NoShipment, 1, 2, 3, 2),
   [op |-> "line", item |-> "slab", amount |-> 1], [op |-> "reverse"]}

\* Stock that one session sells while another lands a charge on it.
HarbourRequests == {Take("issue", "paver", 2, NoLot), Charge(5, "value")}
=============================================================================
