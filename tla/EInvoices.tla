------------------------------ MODULE EInvoices -----------------------------
(***************************************************************************)
(* Issuing the legal invoice of a sale and the adjustment of a credit note *)
(* (einvoices.ts).  A number is taken as the last of its series plus one,  *)
(* under an advisory lock for the series, which the trigger of 0036 takes  *)
(* as well, for a writer that goes around the service.  A session is one   *)
(* READ COMMITTED transaction.  Of a document, what it is for and how it   *)
(* is numbered is kept.                                                    *)
(***************************************************************************)
EXTENDS Integers, Sequences, FiniteSetsExt

CONSTANTS Series, YearOf,   \* a series names the year it is issued in
          Sale, Note, SaleOf,
          Session,
          MaxInvoices

NoNote == "none"

ASSUME EInvoicesAssumption ==
  /\ YearOf \in [Series -> Nat] /\ SaleOf \in [Note -> Sale]
  /\ MaxInvoices \in Nat
  /\ NoNote \notin Note

VARIABLES invoices,   \* einvoices, as they committed
          seller,     \* the series the company issues under
          pc,
          draft       \* the row a session is about to insert

vars == <<invoices, seller, pc, draft>>

Issued == DOMAIN invoices

\* An original has no note and adjusts nothing (einvoices_shape_check).
Draft(by, x, n, sale, note, adjusts, year) ==
  [by |-> by, series |-> x, number |-> n, sale |-> sale, note |-> note,
   adjusts |-> adjusts, year |-> year]
Blank == Draft("service", seller, 0, CHOOSE k \in Sale : TRUE, NoNote, 0, 0)

Init ==
  /\ invoices = <<>>
  /\ seller \in Series
  /\ pc = [s \in Session |-> "idle"]
  /\ draft = [s \in Session |-> Blank]

Last(x) == Max({0} \cup {invoices[n].number : n \in {m \in Issued : invoices[m].series = x}})

OriginalOf(sale) == {n \in Issued : invoices[n].sale = sale /\ invoices[n].note = NoNote}
AdjustmentFor(note) == {n \in Issued : invoices[n].note = note}

\* The unique indexes: a number of a series, the original of a sale, the
\* adjustment for a note.
Clash(r, q) ==
  \/ r.series = q.series /\ r.number = q.number
  \/ r.note = q.note /\ (r.note = NoNote => r.sale = q.sale)

Goto(s, where) == pc' = [pc EXCEPT ![s] = where]

Finish(s) == Goto(s, "idle") /\ draft' = [draft EXCEPT ![s] = Blank]

\* An error, a refusal or a crash: the row and the lock go with the transaction.
Refuse(s) == Finish(s) /\ UNCHANGED <<invoices, seller>>

Room == Len(invoices) + Cardinality({s \in Session : pc[s] # "idle"}) < MaxInvoices

\* updateSeller: next year's series is registered.
UpdateSeller ==
  /\ seller' \in Series \ {seller}
  /\ UNCHANGED <<invoices, pc, draft>>

\* issueForSale: not yet issued, and the seller's series is of the year.
CheckSale(s) ==
  /\ pc[s] = "idle" /\ Room
  /\ \E sale \in Sale :
       /\ OriginalOf(sale) = {}
       /\ draft' = [draft EXCEPT ![s] = Draft("service", seller, 0, sale, NoNote, 0, YearOf[seller])]
  /\ Goto(s, "lock")
  /\ UNCHANGED <<invoices, seller>>

\* issueForCreditNote: the original is there, and no adjustment for the note.
CheckNote(s) ==
  /\ pc[s] = "idle" /\ Room
  /\ \E note \in Note : \E original \in OriginalOf(SaleOf[note]) :
       /\ AdjustmentFor(note) = {}
       /\ draft' = [draft EXCEPT ![s] =
              Draft("service", seller, 0, SaleOf[note], note, original, YearOf[seller])]
  /\ Goto(s, "lock")
  /\ UNCHANGED <<invoices, seller>>

\* An INSERT by hand of the original of a sale, under any number and series, for
\* any year: its lock is the trigger's.
InsertByHand(s) ==
  /\ pc[s] = "idle" /\ Room
  /\ \E sale \in Sale, x \in Series, n \in 1..MaxInvoices, y \in {YearOf[z] : z \in Series} :
       draft' = [draft EXCEPT ![s] = Draft("hand", x, n, sale, NoNote, 0, y)]
  /\ Goto(s, "lock")
  /\ UNCHANGED <<invoices, seller>>

\* Mutant: the lock is let go once the number is read.
HoldersNumbering(x) == {t \in Session : pc[t] = "number" /\ draft[t].series = x}

\* pg_advisory_xact_lock, until the end of the transaction.
Holders(x) == {t \in Session : pc[t] \in {"number", "insert", "commit"} /\ draft[t].series = x}

LockSeries(s) ==
  /\ pc[s] = "lock"
  /\ Holders(draft[s].series) \ {s} = {}
  /\ Goto(s, IF draft[s].by = "service" THEN "number" ELSE "insert")
  /\ UNCHANGED <<invoices, seller, draft>>

TakeNumber(s) ==
  /\ pc[s] = "number"
  /\ draft' = [draft EXCEPT ![s].number = Last(draft[s].series) + 1]
  /\ Goto(s, "insert")
  /\ UNCHANGED <<invoices, seller>>

\* Mutant: the trigger and the CHECK of the year, and no index for the documents.
ByNumberOnly(r) == {n \in Issued : r.series = invoices[n].series /\ r.number = invoices[n].number}

Taken(r) == {n \in Issued : Clash(r, invoices[n])}

\* Mutant: no trigger.
OfItsYear(r) == r.year = YearOf[r.series]

\* The trigger's number, which it checks before any index is looked at, and the
\* CHECK of the year.
InSequence(r) == r.number = Last(r.series) + 1 /\ r.year = YearOf[r.series]

\* An index entry that has not committed is waited for.
Rivals(s) == {t \in Session \ {s} : pc[t] = "commit" /\ Clash(draft[s], draft[t])}

InsertRow(s) ==
  /\ pc[s] = "insert" /\ InSequence(draft[s])
  /\ Rivals(s) = {} /\ Taken(draft[s]) = {}
  /\ Goto(s, "commit")
  /\ UNCHANGED <<invoices, seller, draft>>

InsertRefused(s) ==
  /\ pc[s] = "insert"
  /\ ~InSequence(draft[s]) \/ (Rivals(s) = {} /\ Taken(draft[s]) # {})
  /\ Refuse(s)

Commit(s) ==
  /\ pc[s] = "commit"
  /\ invoices' = Append(invoices, draft[s])
  /\ Finish(s)
  /\ UNCHANGED seller

\* The process dies, or the document cannot be built.
Abort(s) == pc[s] # "idle" /\ Refuse(s)

Step(s) ==
  \/ CheckSale(s) \/ CheckNote(s) \/ InsertByHand(s)
  \/ LockSeries(s) \/ TakeNumber(s) \/ InsertRow(s) \/ InsertRefused(s) \/ Commit(s)
  \/ Abort(s)

Next == UpdateSeller \/ \E s \in Session : Step(s)

Spec == Init /\ [][Next]_vars

(***************************************************************************)
(* Properties.                                                             *)
(***************************************************************************)
\* "Numbers run one after another within a series, from 1, with no gap" (0036),
\* in the order they were issued: whoever inserts, however many at once, whatever
\* transaction fails after it took its number, and whenever the series changes.
NumbersRun ==
  \A n \in Issued :
    invoices[n].number = Cardinality({m \in 1..n : invoices[m].series = invoices[n].series})

\* "One document per sale, one adjustment per credit note" (ADR 27), though two
\* are issued for one at once and under different series; and an adjustment
\* names the original of the same sale, issued before it.
OneDocumentEach ==
  \A n \in Issued :
    LET r == invoices[n]
    IN  /\ \A m \in Issued \ {n} :
             r.note = invoices[m].note => r.note = NoNote /\ r.sale # invoices[m].sale
        /\ r.note # NoNote => /\ r.adjusts \in 1..(n - 1)
                              /\ r.adjusts \in OriginalOf(SaleOf[r.note])

\* "Two invoices issued at the same moment queue here and the second sees the
\* first; the unique index alone would let the second fail" (0036): a number the
\* service took is still the next one when it inserts, so the trigger refuses only
\* rows written by hand.
TakenNumbersStand ==
  \A s \in Session : pc[s] = "insert" /\ draft[s].by = "service" => InSequence(draft[s])

=============================================================================
