-------------------------------- MODULE Stock -------------------------------
(***************************************************************************)
(* Lots of stock and what takes from them or adds to them: receiving,      *)
(* issuing and writing off (inventory.ts), landing a charge                *)
(* (landed-cost.ts) and returning goods to a supplier                      *)
(* (supplier-returns.ts).  A session is one READ COMMITTED transaction: it *)
(* locks rows of cost_layers one by one with SELECT ... FOR UPDATE, works  *)
(* from what it read, and commits its entry, its movement and the lots     *)
(* together.  Of an entry, what it does to the inventory accounts is kept. *)
(***************************************************************************)
EXTENDS Costing, Sequences

CONSTANTS Item, Account,
          AccountOf,       \* [Item -> Account]: its inventory account
          MethodOf,        \* [Item -> costing method]
          Shipment, NoShipment,
          Session, Request,
          Opening,         \* the receipts the run starts from
          MaxLots, MaxEntries

NoLot == 0
Default == -1             \* a refund nobody stated

ASSUME StockAssumption ==
  /\ AccountOf \in [Item -> Account]
  /\ MethodOf \in [Item -> {"fifo", "lifo", "average", "specific"}]
  /\ NoShipment \notin Shipment
  /\ MaxLots \in Nat /\ MaxEntries \in Nat

\* What the schemas and CHECKs let through: a quantity and a charge above zero, and
\* nothing below.
Receipts == [op : {"receive"}, item : Item, shipment : Shipment \cup {NoShipment}, day : Nat,
             quantity : Nat \ {0}, cost : Nat, rate : Nat]
Removals == [op : {"issue", "writeoff"}, item : Item, quantity : Nat \ {0}, lot : Nat]
Returns == [op : {"return"}, lot : Nat, quantity : Nat \ {0}, refund : Nat \cup {Default}, day : Nat]
Charges == [op : {"charge"}, shipment : Shipment, amount : Nat \ {0}, basis : {"value", "quantity"}]
Lines == [op : {"line"}, item : Item, amount : Int]

ASSUME RequestAssumption ==
  /\ Opening \in Seq(Receipts)
  /\ \A r \in Request :
       /\ r.op = "receive" => r \in Receipts
       /\ r.op \in {"issue", "writeoff"} => r \in Removals
       /\ r.op = "return" => r \in Returns
       /\ r.op = "charge" => r \in Charges
       /\ r.op = "line" => r \in Lines

VARIABLES lots,       \* cost_layers, by the order they were opened in
          journal,    \* committed entries that touch an inventory account
          pc, req,
          todo,       \* the SELECT ... FOR UPDATE statements still to run
          want,       \* the rows the running statement has still to lock
          held,       \* the rows of cost_layers locked
          view,       \* the rows read under lock
          plan        \* what was computed or read before the lots were locked

stockVars == <<lots, journal, pc, req, todo, want, held, view, plan>>

LotRow == [item : Item, shipment : Shipment \cup {NoShipment}, day : Nat, rate : Nat,
           paid : Figures, left : Figures, refunded : Nat]

NoRequest == [op |-> "none"]

NoAmounts == [a \in Account |-> 0]
To(i, amount) == [NoAmounts EXCEPT ![AccountOf[i]] = amount]

\* Who wrote an entry, what it does to the inventory accounts, and whether it
\* has been reversed.
Entry(owner, amounts) == [owner |-> owner, amounts |-> amounts, reversed |-> FALSE]

\* The lot a receipt opens.
Opened(r) ==
  LET all == [quantity |-> r.quantity, cost |-> r.cost, base |-> Convert(r.cost, r.rate)]
  IN  [item |-> r.item, shipment |-> r.shipment, day |-> r.day, rate |-> r.rate,
       paid |-> all, left |-> all, refunded |-> 0]

StockInit ==
  /\ lots = [n \in DOMAIN Opening |-> Opened(Opening[n])]
  /\ journal = [n \in DOMAIN Opening |->
                  Entry("stock", To(Opening[n].item, Convert(Opening[n].cost, Opening[n].rate)))]
  /\ pc = [s \in Session |-> "idle"]
  /\ req = [s \in Session |-> NoRequest]
  /\ todo = [s \in Session |-> <<>>]
  /\ want = [s \in Session |-> {}]
  /\ held = [s \in Session |-> {}]
  /\ view = [s \in Session |-> <<>>]
  /\ plan = [s \in Session |-> <<>>]

(***************************************************************************)
(* The lots.                                                               *)
(***************************************************************************)
Lots == DOMAIN lots
OpenLots(i) == {l \in Lots : lots[l].item = i /\ lots[l].left.quantity > 0}
OnShipment(h) == {l \in Lots : lots[l].shipment = h}

\* Mutant: SELECT without FOR UPDATE.
Unlocked(l) == TRUE

Free(l) == \A t \in Session : l \notin held[t]

\* recordDraws: decrements, in the order of the draws.
Drawn(draws) == AfterDraws(lots, draws)

\* The amounts an entry takes from the inventory accounts for these draws.
Leaving(draws) ==
  [a \in Account |-> -CostOf([l \in {k \in DOMAIN draws : AccountOf[lots[k].item] = a} |-> draws[l]])]

\* The figures of a lot its CHECK constraints accept.
Sound(lot) ==
  /\ lot.left.quantity \in 0..lot.paid.quantity
  /\ lot.left.cost \in 0..lot.paid.cost
  /\ lot.left.base \in 0..lot.paid.base
  /\ lot.left.quantity = 0 => lot.left.cost = 0 /\ lot.left.base = 0

(***************************************************************************)
(* Sessions.                                                               *)
(***************************************************************************)
Room == Len(journal) + Cardinality({t \in Session : pc[t] # "idle"}) < MaxEntries

Finish(s) ==
  /\ pc' = [pc EXCEPT ![s] = "idle"]
  /\ req' = [req EXCEPT ![s] = NoRequest]
  /\ todo' = [todo EXCEPT ![s] = <<>>]
  /\ want' = [want EXCEPT ![s] = {}]
  /\ held' = [held EXCEPT ![s] = {}]
  /\ view' = [view EXCEPT ![s] = <<>>]
  /\ plan' = [plan EXCEPT ![s] = <<>>]

\* A refusal, an error or a crash: nothing is kept and the rows are let go.
Rollback(s) == Finish(s) /\ UNCHANGED <<lots, journal>>

Idle == UNCHANGED <<pc, req, todo, want, held, view, plan>>

\* receive: the entry and the lot it opens.
Receive ==
  /\ Room /\ Len(lots) < MaxLots
  /\ \E r \in Request :
       /\ r.op = "receive" /\ Convert(r.cost, r.rate) > 0
       /\ lots' = Append(lots, Opened(r))
       /\ journal' = Append(journal, Entry("stock", To(r.item, Convert(r.cost, r.rate))))
  /\ Idle

\* A journal line straight to an inventory account.
PostByHand ==
  /\ Room
  /\ \E r \in Request : /\ r.op = "line"
                        /\ journal' = Append(journal, Entry("hand", To(r.item, r.amount)))
  /\ UNCHANGED lots
  /\ Idle

\* stockOwnerOf, and the trigger behind it: an entry with a movement or a charge
\* is not the journal's to reverse.
Reversible(n) == ~journal[n].reversed /\ journal[n].owner = "hand"

\* A reversal is itself an entry that can be reversed.
ReverseEntry ==
  /\ Room
  /\ \E r \in Request : r.op = "reverse"
  /\ \E n \in DOMAIN journal :
       /\ Reversible(n)
       /\ journal' = Append([journal EXCEPT ![n].reversed = TRUE],
                            Entry(journal[n].owner, [a \in Account |-> -journal[n].amounts[a]]))
  /\ UNCHANGED lots
  /\ Idle

\* The rows a request locks, statement by statement.
Statements(r) ==
  CASE r.op \in {"issue", "writeoff"} -> <<[by |-> "item", item |-> r.item]>>
    [] r.op = "return" -> <<[by |-> "lots", lots |-> {r.lot}]>>
    [] OTHER -> <<[by |-> "shipment", shipment |-> r.shipment]>>

\* A request arrives; addCharge computes its preview, with no lock on the lots.
Begin(s) ==
  /\ pc[s] = "idle" /\ Room
  /\ \E r \in Request :
       /\ r.op \in {"issue", "writeoff", "return", "charge"}
       /\ r.op = "return" => r.lot \in Lots
       /\ r.op = "charge" => OnShipment(r.shipment) # {}
       /\ req' = [req EXCEPT ![s] = r]
       /\ todo' = [todo EXCEPT ![s] = Statements(r)]
       /\ plan' = [plan EXCEPT ![s] =
            IF r.op = "charge"
            THEN AllocateCharge([l \in OnShipment(r.shipment) |-> lots[l]], r.amount, r.basis)
            ELSE <<>>]
  /\ pc' = [pc EXCEPT ![s] = "select"]
  /\ UNCHANGED <<lots, journal, want, held, view>>

\* The rows of a statement as of its start.
Candidates(q) ==
  CASE q.by = "item" -> OpenLots(q.item)
    [] q.by = "lots" -> q.lots
    [] OTHER -> OnShipment(q.shipment)

Select(s) ==
  /\ pc[s] = "select" /\ todo[s] # <<>>
  /\ want' = [want EXCEPT ![s] = Candidates(Head(todo[s]))]
  /\ pc' = [pc EXCEPT ![s] = "lock"]
  /\ UNCHANGED <<lots, journal, req, todo, held, view, plan>>

\* The rows are taken in the statement's order, where it states one.
NextRow(s) ==
  {l \in want[s] : Head(todo[s]).by = "lots" \/ \A k \in want[s] \ {l} : Before(lots, l, k)}

\* Once the lock is granted the row is read again, and left out if it no longer
\* satisfies the query.
Qualifies(s, l) ==
  Head(todo[s]).by = "item" => lots[l].left.quantity > 0

LockRow(s) ==
  /\ pc[s] = "lock"
  /\ \E l \in NextRow(s) :
       /\ Free(l) \/ l \in held[s]
       /\ held' = [held EXCEPT ![s] = @ \cup {l}]
       /\ view' = [view EXCEPT ![s] =
            IF Qualifies(s, l) THEN [k \in DOMAIN @ \cup {l} |-> IF k = l THEN lots[l] ELSE @[k]]
            ELSE @]
       /\ want' = [want EXCEPT ![s] = @ \ {l}]
  /\ UNCHANGED <<lots, journal, pc, req, todo, plan>>

\* The statement is over; the next one, or the writing.
Locked(s) ==
  /\ pc[s] = "lock" /\ want[s] = {}
  /\ todo' = [todo EXCEPT ![s] = Tail(@)]
  /\ pc' = [pc EXCEPT ![s] = IF Tail(todo[s]) = <<>> THEN "write" ELSE "select"]
  /\ UNCHANGED <<lots, journal, req, want, held, view, plan>>

(***************************************************************************)
(* issue and writeOff.                                                     *)
(***************************************************************************)
IssueDraws(s) == Allocate(view[s], req[s].quantity, MethodOf[req[s].item], req[s].lot)

\* postEntry refuses a leg of zero; a write-off drops its legs, and an entry of
\* none is refused as well.
MayIssue(s) ==
  /\ CanAllocate(view[s], req[s].quantity, MethodOf[req[s].item], req[s].lot)
  /\ CostOf(IssueDraws(s)) > 0

WriteIssue(s) ==
  /\ pc[s] = "write" /\ req[s].op \in {"issue", "writeoff"}
  /\ MayIssue(s)
  /\ lots' = Drawn(IssueDraws(s))
  /\ journal' = Append(journal, Entry("stock", Leaving(IssueDraws(s))))
  /\ Finish(s)

IssueRefused(s) ==
  /\ pc[s] = "write" /\ req[s].op \in {"issue", "writeoff"}
  /\ ~MayIssue(s)
  /\ Rollback(s)

(***************************************************************************)
(* returnToSupplier: out of one lot, at what it carries the goods at.      *)
(***************************************************************************)
ReturnDraw(s) == Draw(view[s][req[s].lot].left, req[s].quantity)

\* Mutant: what earlier returns took back is forgotten.
RefundableInFull(lot) == lot.paid.cost

Refundable(lot) == lot.paid.cost - lot.refunded

\* The refund asked for, or the supplier's price of what goes back.
Refund(s) ==
  LET price == ReturnDraw(s).cost
      most == Refundable(view[s][req[s].lot])
  IN  IF req[s].refund # Default THEN req[s].refund ELSE IF price > most THEN most ELSE price

MayReturn(s) ==
  LET lot == view[s][req[s].lot]
  IN  /\ lot.day <= req[s].day
      /\ req[s].quantity <= lot.left.quantity
      /\ req[s].refund <= Refundable(lot)
      /\ Refund(s) > 0 \/ ReturnDraw(s).base > 0

WriteReturn(s) ==
  /\ pc[s] = "write" /\ req[s].op = "return"
  /\ MayReturn(s)
  /\ LET draws == [l \in {req[s].lot} |-> ReturnDraw(s)]
     IN  /\ lots' = [Drawn(draws) EXCEPT ![req[s].lot].refunded = @ + Refund(s)]
         /\ journal' = Append(journal, Entry("stock", Leaving(draws)))
  /\ Finish(s)

ReturnRefused(s) ==
  /\ pc[s] = "write" /\ req[s].op = "return"
  /\ ~MayReturn(s)
  /\ Rollback(s)

(***************************************************************************)
(* addCharge: what the preview said, on the lots as they are now.          *)
(***************************************************************************)
\* Mutant: the whole share is added to what is left of the lot.
ChargedInFull(s) ==
  [l \in Lots |-> IF l \in DOMAIN plan[s]
                  THEN [lots[l] EXCEPT !.paid.base = @ + plan[s][l].amount,
                                       !.left.base = @ + plan[s][l].amount]
                  ELSE lots[l]]

Charged(s) ==
  [l \in Lots |-> IF l \in DOMAIN plan[s]
                  THEN [lots[l] EXCEPT !.paid.base = @ + plan[s][l].amount,
                                       !.left.base = @ + plan[s][l].toInventory]
                  ELSE lots[l]]

\* The part of a charge that goes to the inventory accounts.
Landing(s) ==
  [a \in Account |->
     SumFunction([l \in {k \in DOMAIN plan[s] : AccountOf[lots[k].item] = a} |->
                    plan[s][l].toInventory])]

WriteCharge(s) ==
  /\ pc[s] = "write" /\ req[s].op = "charge"
  /\ \A l \in Lots : Sound(Charged(s)[l])
  /\ lots' = Charged(s)
  /\ journal' = Append(journal, Entry("stock", Landing(s)))
  /\ Finish(s)

\* The CHECK on a lot that was emptied after the preview.
ChargeRefused(s) ==
  /\ pc[s] = "write" /\ req[s].op = "charge"
  /\ \E l \in Lots : ~Sound(Charged(s)[l])
  /\ Rollback(s)

\* The process dies, or the journal refuses the entry: a closed month, a closed
\* account, an overdraft.
Abort(s) == pc[s] # "idle" /\ Rollback(s)

StockStep(s) ==
  \/ Begin(s) \/ Select(s) \/ LockRow(s) \/ Locked(s)
  \/ WriteIssue(s) \/ IssueRefused(s)
  \/ WriteReturn(s) \/ ReturnRefused(s)
  \/ WriteCharge(s) \/ ChargeRefused(s)
  \/ Abort(s)

StockNext == Receive \/ PostByHand \/ ReverseEntry \/ \E s \in Session : StockStep(s)

StockSpec == StockInit /\ [][StockNext]_stockVars

(***************************************************************************)
(* Properties.                                                             *)
(***************************************************************************)
TypeOK ==
  /\ lots \in Seq(LotRow)
  /\ \A n \in DOMAIN journal : journal[n].amounts \in [Account -> Int]
  /\ pc \in [Session -> {"idle", "select", "lock", "write"}]
  /\ want \in [Session -> SUBSET Lots]
  /\ held \in [Session -> SUBSET Lots]
  /\ \A s \in Session : DOMAIN view[s] \subseteq held[s]

\* "What is left is a part of what arrived. Not more, and not less than nothing"
\* and "When a lot runs out, its money runs out with it" (0017): the CHECK never
\* has anything to refuse in a receipt, an issue, a write-off or a return, however
\* their draws are rounded and interleaved.
LotsAreSound == \A l \in Lots : Sound(lots[l])

LeftOf(figure) == [l \in Lots |-> lots[l].left[figure]]

LotsOf(i) == {l \in Lots : lots[l].item = i}
OnHand == [i \in Item |-> SumFunctionOnSet(LeftOf("quantity"), LotsOf(i))]
Value == [i \in Item |-> SumFunctionOnSet(LeftOf("base"), LotsOf(i))]

OnAccount(a) == {l \in Lots : AccountOf[lots[l].item] = a}
Balance(a, entries) == SumFunctionOnSet([n \in DOMAIN journal |-> journal[n].amounts[a]], entries)

\* reconcile: the inventory account and its lots differ by what people posted to
\* the account by hand, and by nothing else, whatever was received, drawn,
\* charged, returned or reversed, and in whatever order.
StockAgrees ==
  \A a \in Account :
    Balance(a, DOMAIN journal) - SumFunctionOnSet(LeftOf("base"), OnAccount(a))
      = Balance(a, {n \in DOMAIN journal : journal[n].owner = "hand"})

\* "A lot gives back no more money than was paid for it" (0033), though two
\* debit notes against one delivery race each other.
RefundsWithinCost == \A l \in Lots : lots[l].refunded <= lots[l].paid.cost

\* Stock keeping keeps its promise whatever the lots, the methods and the order
\* of the locks: nothing leaves that is not there, the last of an item takes all
\* its value, and a charge adds value to what is there alone.
Promise == INSTANCE Shelf WITH onHand <- OnHand, value <- Value
ShelfSpec == Promise!Spec

\* "The part that lands on stock still held, raising its carrying amount"
\* (domain/landed-cost.ts): a charge is split by what is held when it is posted.
ChargesLandOnWhatIsHeld ==
  [][\A s \in Session :
       (pc[s] = "write" /\ req[s].op = "charge" /\ lots' # lots /\ pc'[s] = "idle") =>
         plan[s] = AllocateCharge([l \in DOMAIN plan[s] |-> lots[l]], req[s].amount, req[s].basis)]_stockVars

=============================================================================
