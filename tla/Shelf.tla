-------------------------------- MODULE Shelf -------------------------------
(***************************************************************************)
(* What stock keeping promises: how many of each item are there and what   *)
(* they are worth, with no lots, methods, locks or journal.                *)
(***************************************************************************)
EXTENDS Integers

CONSTANT Item
VARIABLES onHand, value

shelf == <<onHand, value>>

Init == onHand \in [Item -> Nat] /\ value \in [Item -> Nat]

\* Goods arrive, or come back, and bring what they cost.
Arrive ==
  /\ \A i \in Item : onHand'[i] >= onHand[i] /\ value'[i] >= value[i]
  /\ \A i \in Item : onHand'[i] = onHand[i] => value'[i] = value[i]

\* Goods that are there leave: the last of them take all the value with them.
Leave ==
  /\ \A i \in Item : onHand'[i] \in 0..onHand[i] /\ value'[i] \in 0..value[i]
  /\ \A i \in Item : onHand'[i] = onHand[i] => value'[i] = value[i]
  /\ \A i \in Item : onHand'[i] = 0 => value'[i] = 0

\* A charge makes what is there worth more; what is not there is worth nothing.
Land ==
  /\ onHand' = onHand
  /\ \A i \in Item : value'[i] >= value[i] /\ (onHand[i] = 0 => value'[i] = value[i])

Next == (Arrive \/ Leave \/ Land) /\ DOMAIN onHand' = Item /\ DOMAIN value' = Item

Spec == Init /\ [][Next]_shelf

=============================================================================
