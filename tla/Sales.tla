-------------------------------- MODULE Sales -------------------------------
(***************************************************************************)
(* Invoices that ship goods (sales.ts, sale.ts) and the credit notes that  *)
(* take parts of them back (credit-notes.ts, credit-note.ts), beside every *)
(* other use of the lots in Stock.  Lines record their amounts, as all     *)
(* have since 0030.  Early refusals are an Abort: what a request would be  *)
(* refused for is judged when it has all its locks.                        *)
(***************************************************************************)
EXTENDS Stock

CONSTANTS TaxScale,      \* a tax rate is an integer over it
          Reference

ASSUME TaxAssumption == TaxScale \in Nat \ {0}

\* What the schemas let through: goods that ship are some, and what is charged,
\* credited or taken back is never below zero.
SaleLines == [item : Item, quantity : Nat \ {0}, amount : Nat, lot : Nat]
CreditLines == [line : Nat, quantity : Nat, amount : Nat]
Orders == [op : {"sell"}, reference : Reference, day : Nat, rate : Nat, taxRate : Nat,
           lines : Seq(SaleLines)]
Claims == [op : {"credit"}, reference : Reference, sale : Nat, day : Nat, lines : Seq(CreditLines)]

ASSUME SaleAssumption ==
  \A r \in Request : (r.op = "sell" => r \in Orders) /\ (r.op = "credit" => r \in Claims)

VARIABLES sales,         \* committed invoices
          notes          \* committed credit notes

saleVars == <<sales, notes>>
salesVars == <<lots, journal, pc, req, todo, want, held, view, plan, sales, notes>>

SalesInit == StockInit /\ sales = <<>> /\ notes = <<>>

\* fromNet; a code of no rate charges nothing.
TaxOn(net, taxRate) == DivideRounding(net * taxRate, TaxScale)

\* A field summed over records, and draws summed figure by figure.
SumOf(records, field) == SumFunction([n \in DOMAIN records |-> records[n][field]])
Total(figures) ==
  [quantity |-> SumOf(figures, "quantity"), cost |-> SumOf(figures, "cost"), base |-> SumOf(figures, "base")]

\* What some draws take from a lot; and many draws made one after another, the
\* decrements of one lot being as good as one.
DrawOf(draws, l) == IF l \in DOMAIN draws THEN draws[l] ELSE Nothing
InAll(many) ==
  [l \in UNION {DOMAIN many[k] : k \in DOMAIN many} |->
     Total([k \in DOMAIN many |-> DrawOf(many[k], l)])]

\* The elements of a sequence at some of its positions, in order.
At(seq, positions) ==
  LET kept[n \in 0..Len(seq)] ==
        IF n = 0 THEN <<>>
        ELSE IF n \in positions THEN Append(kept[n - 1], seq[n]) ELSE kept[n - 1]
  IN  kept[Len(seq)]

\* The pre-check and the unique index behind it.
Taken(reference, records) == \E n \in DOMAIN records : records[n].reference = reference

(***************************************************************************)
(* sell.                                                                   *)
(***************************************************************************)
\* One statement per item, at the first line that ships it.
SaleStatements(r) ==
  LET firsts == {n \in DOMAIN r.lines : \A k \in 1..(n - 1) : r.lines[k].item # r.lines[n].item}
  IN  At([n \in DOMAIN r.lines |-> [by |-> "item", item |-> r.lines[n].item]], firsts)

Ask(s, r, statements, where) ==
  /\ req' = [req EXCEPT ![s] = r]
  /\ todo' = [todo EXCEPT ![s] = statements]
  /\ pc' = [pc EXCEPT ![s] = where]
  /\ UNCHANGED <<lots, journal, want, held, view, plan, sales, notes>>

BeginSale(s) ==
  /\ pc[s] = "idle" /\ Room
  /\ \E r \in Request : /\ r.op = "sell" /\ ~Taken(r.reference, sales)
                        /\ Ask(s, r, SaleStatements(r), "select")

\* What a line ships of the lots that are open to it.
OfItem(open, i) == [l \in {k \in DOMAIN open : open[k].item = i} |-> open[l]]
LineDraws(open, line) ==
  Allocate(OfItem(open, line.item), line.quantity, MethodOf[line.item], line.lot)

\* Each line sees what the ones before it took: the lots after each of them.
Opens(open, lines) ==
  LET after[n \in 0..Len(lines)] ==
        IF n = 0 THEN open ELSE AfterDraws(after[n - 1], LineDraws(after[n - 1], lines[n]))
  IN  after

OpenTo(s, n) == Opens(view[s], req[s].lines)[n - 1]
Shipped(s) == [n \in DOMAIN req[s].lines |-> LineDraws(OpenTo(s, n), req[s].lines[n])]

CanShip(s) ==
  \A n \in DOMAIN req[s].lines :
    LET line == req[s].lines[n]
    IN  CanAllocate(OfItem(OpenTo(s, n), line.item), line.quantity, MethodOf[line.item], line.lot)

\* priceSale: each line is converted on its own, and the tax on the whole net.
Priced(r, draws) ==
  LET net == SumOf(r.lines, "amount")
      tax == TaxOn(net, r.taxRate)
  IN  [reference |-> r.reference, day |-> r.day, rate |-> r.rate, taxRate |-> r.taxRate,
       net |-> net, tax |-> tax, baseTax |-> Convert(tax, r.rate),
       lines |-> [k \in DOMAIN draws |->
                    [item |-> r.lines[k].item, quantity |-> r.lines[k].quantity,
                     amount |-> r.lines[k].amount, revenue |-> Convert(r.lines[k].amount, r.rate),
                     draws |-> draws[k]]]]

\* What the customer's leg is worth: net revenue plus the tax.
Owed(sale) == SumOf(sale.lines, "revenue") + sale.baseTax

\* The journal refuses a customer leg of zero.
MaySell(s) ==
  /\ CanShip(s)
  /\ LET sale == Priced(req[s], Shipped(s))
     IN  sale.net > 0 /\ Owed(sale) > 0 /\ ~Taken(sale.reference, sales)

WriteSale(s) ==
  /\ pc[s] = "write" /\ req[s].op = "sell"
  /\ MaySell(s)
  /\ sales' = Append(sales, Priced(req[s], Shipped(s)))
  /\ lots' = Drawn(InAll(Shipped(s)))
  /\ journal' = Append(journal, Entry("stock", Leaving(InAll(Shipped(s)))))
  /\ Finish(s)
  /\ UNCHANGED notes

\* Mutant: a sale that finds too little waits for more, its lots locked.
SaleWaits(s) ==
  /\ pc[s] = "write" /\ req[s].op = "sell"
  /\ ~MaySell(s)
  /\ pc' = [pc EXCEPT ![s] = "select"]
  /\ todo' = [todo EXCEPT ![s] = SaleStatements(req[s])]
  /\ UNCHANGED <<lots, journal, req, want, held, view, plan, sales, notes>>

SaleRefused(s) ==
  /\ pc[s] = "write" /\ req[s].op = "sell"
  /\ ~MaySell(s)
  /\ Rollback(s)
  /\ UNCHANGED saleVars

(***************************************************************************)
(* What earlier notes took from an invoice.                                *)
(***************************************************************************)
NotesOf(n, ns) == {m \in DOMAIN ns : ns[m].sale = n}
CreditedInAll(n, field, ns) == SumOf([m \in NotesOf(n, ns) |-> ns[m]], field)

\* The lines of notes, as <<note, line>>; of a line k of the invoice n, by the
\* notes `ns`: the lines that credit it, a field of them, and a draw.
NoteLines(ns) == UNION {{m} \X DOMAIN ns[m].lines : m \in DOMAIN ns}
LineAt(p, ns) == ns[p[1]].lines[p[2]]
OnLine(n, k, ns) == {p \in NoteLines(ns) : ns[p[1]].sale = n /\ LineAt(p, ns).line = k}
Credited(n, k, field, ns) == SumOf([p \in OnLine(n, k, ns) |-> LineAt(p, ns)], field)
Restored(n, k, l, ns) == Total([p \in OnLine(n, k, ns) |-> DrawOf(LineAt(p, ns).restored, l)])

\* What of each draw of a line is still out.
StillOut(n, k, ns) ==
  [l \in DOMAIN sales[n].lines[k].draws |->
     [day |-> lots[l].day, left |-> Less(sales[n].lines[k].draws[l], Restored(n, k, l, ns))]]

(***************************************************************************)
(* issue, of a credit note.                                                *)
(***************************************************************************)
\* Mutant: the invoice is read without FOR UPDATE.
AnyTime(s, n) == TRUE

\* The credit note that locked an invoice holds it until it ends.
Holds(t, n) == req[t].op = "credit" /\ pc[t] \notin {"idle", "sale"} /\ req[t].sale = n
FreeSale(s, n) == \A t \in Session \ {s} : ~Holds(t, n)

\* Lines that credit nothing are dropped; the rest are the invoice's, each once.
Asked(r) == At(r.lines, {i \in DOMAIN r.lines : r.lines[i].quantity # 0 \/ r.lines[i].amount # 0})

BeginCredit(s) ==
  /\ pc[s] = "idle" /\ Room
  /\ \E r \in Request :
       /\ r.op = "credit" /\ r.sale \in DOMAIN sales
       /\ Asked(r) # <<>> /\ ~Taken(r.reference, notes)
       /\ \A i \in DOMAIN Asked(r) : Asked(r)[i].line \in DOMAIN sales[r.sale].lines
       /\ \A i, j \in DOMAIN Asked(r) : Asked(r)[i].line = Asked(r)[j].line => i = j
       /\ Ask(s, [r EXCEPT !.lines = Asked(r)], <<>>, "sale")

\* The lots of each returned line, in the note's order.
CreditStatements(r) ==
  At([i \in DOMAIN r.lines |-> [by |-> "lots", lots |-> DOMAIN sales[r.sale].lines[r.lines[i].line].draws]],
     {i \in DOMAIN r.lines : r.lines[i].quantity > 0})

\* The invoice's lock is granted, and the notes against it so far are read.
LockSale(s) ==
  /\ pc[s] = "sale" /\ FreeSale(s, req[s].sale)
  /\ todo' = [todo EXCEPT ![s] = CreditStatements(req[s])]
  /\ plan' = [plan EXCEPT ![s] = notes]
  /\ pc' = [pc EXCEPT ![s] = IF CreditStatements(req[s]) = <<>> THEN "write" ELSE "select"]
  /\ UNCHANGED <<lots, journal, req, want, held, view, sales, notes>>

\* The share of `whole` that goes with `part` of what is left of its basis: all
\* that is left, when that is.
ShareOf(whole, part, basis) ==
  IF part <= 0 \/ basis <= 0 THEN 0
  ELSE IF part >= basis THEN whole
  ELSE DivideRounding(whole * part, basis)

\* The goods go back where they came from, newest lot first, at what they left at.
Restore(out, quantity) == Allocate(out, quantity, "lifo", NoLot)

AtMost(value, ceiling) == IF value > ceiling THEN ceiling ELSE value

\* creditTax: the credit that takes the last of the net takes the last of the tax.
CreditTax(sale, net, netLeft, taxLeft, baseTaxLeft) ==
  LET tax == AtMost(TaxOn(net, sale.taxRate), taxLeft)
  IN  IF net >= netLeft THEN [tax |-> taxLeft, baseTax |-> baseTaxLeft]
      ELSE [tax |-> tax, baseTax |-> AtMost(Convert(tax, sale.rate), baseTaxLeft)]

\* A line of the note: what it takes of its invoice line, and what comes back.
NoteLine(n, asked, ns) ==
  LET sold == sales[n].lines[asked.line]
  IN  [line |-> asked.line, quantity |-> asked.quantity, amount |-> asked.amount,
       revenue |-> ShareOf(sold.revenue - Credited(n, asked.line, "revenue", ns), asked.amount,
                           sold.amount - Credited(n, asked.line, "amount", ns)),
       restored |-> Restore(StillOut(n, asked.line, ns), asked.quantity)]

Noted(s) ==
  LET n == req[s].sale
      ns == plan[s]
      lines == [i \in DOMAIN req[s].lines |-> NoteLine(n, req[s].lines[i], ns)]
      net == SumOf(lines, "amount")
      tax == CreditTax(sales[n], net, sales[n].net - CreditedInAll(n, "net", ns),
                       sales[n].tax - CreditedInAll(n, "tax", ns),
                       sales[n].baseTax - CreditedInAll(n, "baseTax", ns))
  IN  [reference |-> req[s].reference, sale |-> n, net |-> net,
       tax |-> tax.tax, baseTax |-> tax.baseTax, lines |-> lines]

\* The entry's leg for the customer, and the cost that comes back.
Forgiven(note) == SumOf(note.lines, "revenue") + note.baseTax

\* The goods a note brings back, and what they cost.
BackIn(note) == InAll([i \in DOMAIN note.lines |-> note.lines[i].restored])
CostBack(note) == CostOf(BackIn(note))

\* The caps on quantity and amount, and what the journal refuses: an entry of
\* nothing, and a customer leg of zero.
WithinCaps(s, note) ==
  LET n == req[s].sale
      ns == plan[s]
  IN  /\ sales[n].day <= req[s].day
      /\ \A i \in DOMAIN req[s].lines :
           LET asked == req[s].lines[i]
               sold == sales[n].lines[asked.line]
           IN  /\ asked.quantity <= sold.quantity - Credited(n, asked.line, "quantity", ns)
               /\ asked.amount <= sold.amount - Credited(n, asked.line, "amount", ns)
      /\ IF note.net + note.tax > 0 THEN Forgiven(note) > 0 ELSE CostBack(note) > 0

\* The triggers of 0030: with this note, no draw gives back more than it took,
\* no line and no invoice is credited for more than it charged.
Accepted(n, ns) ==
  /\ \A k \in DOMAIN sales[n].lines :
       LET sold == sales[n].lines[k]
       IN  /\ Credited(n, k, "quantity", ns) <= sold.quantity
           /\ Credited(n, k, "revenue", ns) <= sold.revenue
           /\ \A l \in DOMAIN sold.draws :
                LET back == Restored(n, k, l, ns)
                IN  /\ back.quantity <= sold.draws[l].quantity
                    /\ back.cost <= sold.draws[l].cost
                    /\ back.base <= sold.draws[l].base
  /\ CreditedInAll(n, "net", ns) <= sales[n].net
  /\ CreditedInAll(n, "tax", ns) <= sales[n].tax
  /\ CreditedInAll(n, "baseTax", ns) <= sales[n].baseTax

MayCredit(s, note) ==
  /\ WithinCaps(s, note)
  /\ Accepted(note.sale, Append(notes, note))
  /\ ~Taken(note.reference, notes)

\* Mutant: returned goods are booked at what their lots were bought for.
AtReceiptCost(back) ==
  LET bought == [l \in DOMAIN back |-> Draw(lots[l].paid, back[l].quantity)]
  IN  [a \in Account |-> -Leaving(bought)[a]]

\* What the inventory accounts get back.
Returning(back) == [a \in Account |-> -Leaving(back)[a]]

\* recordRestorations: increments, in the order of the lines.
Refilled(back) == [l \in Lots |-> [lots[l] EXCEPT !.left = Plus(@, DrawOf(back, l))]]

WriteNote(s) ==
  /\ pc[s] = "write" /\ req[s].op = "credit"
  /\ LET note == Noted(s)
     IN  /\ MayCredit(s, note)
         /\ notes' = Append(notes, note)
         /\ lots' = Refilled(BackIn(note))
         /\ journal' = Append(journal, Entry("stock", Returning(BackIn(note))))
  /\ Finish(s)
  /\ UNCHANGED sales

NoteRefused(s) ==
  /\ pc[s] = "write" /\ req[s].op = "credit"
  /\ ~MayCredit(s, Noted(s))
  /\ Rollback(s)
  /\ UNCHANGED saleVars

(***************************************************************************)
(* Waiting.                                                                *)
(***************************************************************************)
WaitsFor(s, t) ==
  \/ /\ pc[s] = "lock" /\ want[s] # {}
     /\ \A l \in NextRow(s) : ~Free(l) /\ l \notin held[s]
     /\ NextRow(s) \cap held[t] # {}
  \/ pc[s] = "sale" /\ Holds(t, req[s].sale)

Deadlocked(s) ==
  \E S \in SUBSET Session : s \in S /\ \A t \in S : \E u \in S \ {t} : WaitsFor(t, u)

\* The server ends one session of a deadlock; the code does not try again.
Victim(s) == Deadlocked(s) /\ Rollback(s) /\ UNCHANGED saleVars

LockLot(s) == LockRow(s) /\ UNCHANGED saleVars

SalesStep(s) ==
  \/ BeginSale(s) \/ BeginCredit(s) \/ LockSale(s) \/ LockLot(s)
  \/ WriteSale(s) \/ SaleRefused(s) \/ WriteNote(s) \/ NoteRefused(s) \/ Victim(s)
  \/ (\/ Begin(s) \/ Select(s) \/ Locked(s) \/ Abort(s)
      \/ WriteIssue(s) \/ IssueRefused(s) \/ WriteReturn(s) \/ ReturnRefused(s)
      \/ WriteCharge(s) \/ ChargeRefused(s)) /\ UNCHANGED saleVars

SalesNext ==
  \/ (Receive \/ PostByHand \/ ReverseEntry) /\ UNCHANGED saleVars
  \/ \E s \in Session : SalesStep(s)

\* A session goes on, and one that has its locks is answered: it commits or is
\* refused.  A lock is granted in the end to whoever waits in its queue.
GoesOn(s) == (Select(s) \/ Locked(s)) /\ UNCHANGED saleVars
Answered(s) == pc[s] = "write" /\ Finish(s)

SalesFairness ==
  \A s \in Session :
    /\ WF_salesVars(GoesOn(s)) /\ WF_pc(Answered(s)) /\ WF_salesVars(Victim(s))
    /\ SF_salesVars(LockLot(s)) /\ SF_salesVars(LockSale(s))

SalesSpec == SalesInit /\ [][SalesNext]_salesVars
FairSales == SalesSpec /\ SalesFairness

(***************************************************************************)
(* Properties.                                                             *)
(***************************************************************************)
\* Credited for all of something, an invoice has nothing of it left: not a dong
\* of revenue, of tax or of cost, in however many notes, and although two of them
\* race for the last of it.  And never for more than there was.
Settles(taken, whole, basisTaken, basis) ==
  taken <= whole /\ (basisTaken = basis => taken = whole)

CreditsSettle ==
  \A n \in DOMAIN sales :
    LET sale == sales[n]
        net == CreditedInAll(n, "net", notes)
    IN  /\ net <= sale.net
        /\ Settles(CreditedInAll(n, "tax", notes), sale.tax, net, sale.net)
        /\ Settles(CreditedInAll(n, "baseTax", notes), sale.baseTax, net, sale.net)
        /\ \A k \in DOMAIN sale.lines :
             LET sold == sale.lines[k]
                 back == Credited(n, k, "quantity", notes)
             IN  /\ back <= sold.quantity
                 /\ Settles(Credited(n, k, "revenue", notes), sold.revenue,
                            Credited(n, k, "amount", notes), sold.amount)
                 /\ \A l \in DOMAIN sold.draws :
                      Settles(Restored(n, k, l, notes).base, sold.draws[l].base, back, sold.quantity)

\* Whatever it waits for, and whichever of two crossed sales the server ends, a
\* request is answered.
SalesEnd == \A s \in Session : pc[s] # "idle" ~> pc[s] = "idle"

=============================================================================
