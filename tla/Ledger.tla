------------------------------- MODULE Ledger -------------------------------
(***************************************************************************)
(* What the ledger promises, with no concurrency and no cached balance: a  *)
(* book of entries, each written, settled, cancelled or reversed in one    *)
(* step.  Every figure is a sum over the entries.  Journal, which has the  *)
(* sessions, the row locks and the balance columns, is shown to implement  *)
(* this specification.                                                     *)
(***************************************************************************)
EXTENDS AccountRow, FiniteSets, Functions

CONSTANTS Account,        \* account ids, ordered as the code sorts them
          CreditNormal,   \* liability, equity and revenue accounts
          Overdraft,      \* accounts opened with overdraft_allowed
          Entry,          \* ids a journal entry may take (bounds the book)
          NoEntry,
          Key,            \* Idempotency-Key values
          NoKey

ASSUME AccountAssumption == /\ Account \subseteq Nat /\ IsFiniteSet(Account)
                            /\ CreditNormal \subseteq Account
                            /\ Overdraft \subseteq Account
ASSUME NullAssumption == NoEntry \notin Entry /\ NoKey \notin Key

VARIABLES entry,   \* the transactions table with its postings
          claim    \* idempotency_keys.transaction_id

ledgerVars == <<entry, claim>>

Sign(a) == IF a \in CreditNormal THEN -1 ELSE 1

\* The postings of an entry, at most one to an account (validateDraft).
Lines == [Account -> Line]

NoLines == [a \in Account |-> NoLine]

Touched(lines) == {a \in Account : lines[a] # NoLine}

\* `key` is not a column: it names the request an entry was written for, so
\* that a duplicate can be told from an entry that merely looks the same.
EntryRow == [status   : {"absent", "pending", "posted", "archived"},
             lines    : Lines,
             reverses : Entry \cup {NoEntry},
             owned    : BOOLEAN,
             key      : Key \cup {NoKey}]

AbsentRow == [status |-> "absent", lines |-> NoLines,
              reverses |-> NoEntry, owned |-> FALSE, key |-> NoKey]

\* obol_assert_transaction_balanced: at least two lines, summing to zero in
\* the functional currency.
Balanced(lines) ==
  /\ Cardinality(Touched(lines)) >= 2
  /\ SumFunctionOnSet([a \in Account |-> lines[a].base], Account) = 0

\* Mutant: the functional amounts are left as the original had them.
MirrorAmountsOnly(lines) ==
  [a \in Account |-> [lines[a] EXCEPT !.amount = -@]]

\* The mirror image reverseEntry writes: amounts and worths both negated, the
\* original's rate carried across.
Mirror(lines) ==
  [a \in Account |-> [amount |-> -lines[a].amount, base |-> -lines[a].base]]

InStatus(book, status) == {e \in Entry : book[e].status = status}

\* The balance columns, as the sums they cache.
PostedBalance(book, a) ==
  SumFunctionOnSet([e \in Entry |-> book[e].lines[a].amount], InStatus(book, "posted"))
PostedWorth(book, a) ==
  SumFunctionOnSet([e \in Entry |-> book[e].lines[a].base], InStatus(book, "posted"))
PendingInflow(book, a) ==
  SumFunctionOnSet([e \in Entry |-> Positive(Sign(a) * book[e].lines[a].amount)],
                   InStatus(book, "pending"))
PendingOutflow(book, a) ==
  SumFunctionOnSet([e \in Entry |-> Positive(-(Sign(a) * book[e].lines[a].amount))],
                   InStatus(book, "pending"))

\* What is settled and not reserved is never negative, unless the account
\* was opened to permit it.
SolventBook(book) ==
  \A a \in Account \ Overdraft :
     Sign(a) * PostedBalance(book, a) - PendingOutflow(book, a) >= 0

Reversals(book, e) == {r \in Entry : book[r].reverses = e}

CanReverse(original, lines) ==
  /\ entry[original].status = "posted"
  /\ ~entry[original].owned
  /\ Reversals(entry, original) = {}
  /\ lines = Mirror(entry[original].lines)

LedgerInit ==
  /\ entry = [e \in Entry |-> AbsentRow]
  /\ claim = [k \in Key |-> NoEntry]

\* Record a new entry under id `e`, consuming its idempotency key.
Write(e) ==
  /\ entry[e].status = "absent"
  /\ entry'[e] \in EntryRow
  /\ entry' = [entry EXCEPT ![e] = entry'[e]]
  /\ entry'[e].status \in {"pending", "posted"}
  /\ Balanced(entry'[e].lines)
  /\ entry'[e].reverses # NoEntry => CanReverse(entry'[e].reverses, entry'[e].lines)
  /\ entry'[e].key # NoKey => claim[entry'[e].key] = NoEntry
  /\ claim' = [k \in Key |-> IF k = entry'[e].key THEN e ELSE claim[k]]
  /\ SolventBook(entry')

\* A reservation always settles: there is no funds condition here.
Settle(e) ==
  /\ entry[e].status = "pending"
  /\ entry' = [entry EXCEPT ![e].status = "posted"]
  /\ UNCHANGED claim

Archive(e) ==
  /\ entry[e].status = "pending"
  /\ entry' = [entry EXCEPT ![e].status = "archived"]
  /\ UNCHANGED claim

LedgerNext == \E e \in Entry : Write(e) \/ Settle(e) \/ Archive(e)

LedgerSpec == LedgerInit /\ [][LedgerNext]_ledgerVars

(***************************************************************************)
(* Properties of the book itself.                                          *)
(***************************************************************************)
\* A reversal exists once at most, undoes a settled entry that the stock
\* records did not write, and nets with it to zero on every account, in the
\* account's currency and in the functional one (reverseEntry, migrations 0003
\* and 0026).
ReversalsCancel ==
  \A e \in Entry : entry[e].reverses # NoEntry =>
    LET original == entry[entry[e].reverses] IN
      /\ original.status = "posted"
      /\ ~original.owned
      /\ \A a \in Account :
           /\ entry[e].lines[a].amount + original.lines[a].amount = 0
           /\ entry[e].lines[a].base + original.lines[a].base = 0
      /\ Reversals(entry, entry[e].reverses) = {e}

\* A retried request is one request: an idempotency key names at most one
\* entry, the entry its stored response answers with (claimIdempotencyKey).
OneEntryPerKey ==
  \A e \in Entry : entry[e].key # NoKey => claim[entry[e].key] = e

\* History is append-only: an entry's lines never change, a settled or
\* cancelled entry never changes at all, and a written one never disappears
\* (obol_guard_transaction_mutation, postings_append_only).
HistoryImmutable ==
  [][\A e \in Entry :
       /\ entry[e].status \in {"posted", "archived"} => entry'[e] = entry[e]
       /\ entry[e].status = "pending" =>
            \E st \in {"pending", "posted", "archived"} :
               entry'[e] = [entry[e] EXCEPT !.status = st]]_entry

=============================================================================
