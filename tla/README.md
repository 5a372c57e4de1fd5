# Obol Ledger in TLA+

Obol Ledger is a double-entry, multi-currency, multi-tenant ledger: a Next.js
service over Postgres. The rules of bookkeeping are enforced twice, once in
TypeScript (so that the caller gets a useful answer) and once in triggers,
CHECK constraints and unique indexes (so that nothing gets past). Every
operation runs in one READ COMMITTED transaction opened by `withTenant`
(`src/src/server/db/tenancy.ts`). The interesting question is therefore
always the same one: the service reads rows it does not lock, decides, and
writes. Is what it decided still true when the write happens, and if not, is
there a lock, an index, a CHECK or a trigger that says so?

These modules answer that question statement by statement. All paths below are
relative to the repository that holds the code (`src/` is its root here, so the
journal service is `src/src/server/services/journal.ts` and the migrations are
`src/drizzle/*.sql`).

## The system

| Component | State it keeps | Operations | Where |
|---|---|---|---|
| Account rows | `accounts`: balance, base balance, pending in- and outflow, version, status | triggers on postings and on a change of status; open, close | `drizzle/0001, 0004, 0010, 0015`, `services/accounts.ts` |
| Journal | `transactions`, `postings`, `idempotency_keys` | `postEntry`, `reverseEntry`, `transitionEntry` (settle, archive), annotate | `services/journal.ts`, `domain/transaction*.ts`, `drizzle/0001, 0003, 0007, 0026` |
| Accounting periods | `accounting_periods` | `close`, `reopen`, the closed-month trigger | `services/periods.ts`, `domain/period.ts`, `drizzle/0009` |
| Webhooks | `webhook_endpoints`, `webhook_deliveries` | `enqueue`; register, enable, remove, replay; claim, attempt, finish | `services/outbox.ts`, `webhooks.ts`, `webhook-dispatcher.ts` |
| Entry drafting | none: a request becomes postings | scaling, conversion, the FX adjustment, validation | `http/entries.ts`, `services/journal.ts`, `domain/transaction.ts`, `lib/fx.ts` |
| Revaluation | base balances, `accounting_periods.revalued_at` | `revalue`, rates | `services/revaluation.ts`, `rates.ts`, `lib/fx.ts` |
| Inventory costing | `items`, lots, movements | receive, ship, write off, adjust, import | `services/inventory.ts`, `domain/costing.ts`, `drizzle/0017` |
| Sales, credit notes | documents and the entries and movements behind them | issue, settle, credit | `services/sales.ts`, `credit-notes.ts` |
| Supplier returns, landed cost | likewise | return, apportion a charge over lots | `services/supplier-returns.ts`, `landed-cost.ts` |
| Bank reconciliation | accounts, statements, lines, matches | import, feed, match, match suggested, record, unmatch, reconcile | `services/bank.ts`, `drizzle/0035` |
| Tax returns | the chain of filed returns | file; the credit carried forward | `services/tax-return.ts` |
| Electronic invoices | series and numbers | issue for a sale, issue the adjustment of a credit note, update a series | `services/einvoices.ts`, `drizzle/0036` |
| Rate limiting | `rate_limits` buckets | one shared sliding window | `http/durable-rate-limit.ts` |
| Tenancy, authentication | sessions, API keys, `org_id` on every row | sign in, create and revoke keys | `db/tenancy.ts`, `auth/*` |
| Reports, ageing, statements; documents, parties, sample books; routes and pages | none of the ledger's | reads, layouts, parsing | the rest |

How they interact. Everything that moves money goes through `writeEntry`, which
inserts into `transactions` and `postings`; the triggers then update the
account rows, and the outbox rows are inserted in the same transaction. A close
calls `postEntry` and then locks its month; a reopening unlocks and calls
`reverseEntry`; the closed-month trigger refuses entries dated in a locked
month. Sales, stock and settlement services call the journal inside their own
transactions. The dispatcher is the only part that works outside a transaction:
a cron claims due deliveries, sends them, and records each outcome.

What is hard, and for which component:

* **Concurrency at READ COMMITTED.** Overdraft, pinned versions, open account,
  "already reversed", "already closed", "earlier month open" are all judged on
  unlocked reads. What stands behind each differs: a CHECK (overdraft), a unique
  index (reversal, idempotency key, period row), a row guard (settlement), or
  nothing.
* **Lock order.** A writer updates several account rows. `writeEntry` sorts
  them; the status trigger and hand-written SQL do not.
* **Retries.** A client that lost an answer sends the request again while the
  first may be running, committed or rolled back.
* **Two phases.** A hold reserves funds that a settlement must find.
* **Partial failure.** A refusal returned (not thrown) from inside a transaction
  commits what came before it.
* **Leases and time.** A worker that is slow is not dead, and its deliveries may
  be claimed again.

What makes each component correct: balances equal the sums of their postings and
no account is overdrawn (journal); a closed month names its closing entry, is zero
and stays as it was unless somebody raced it (periods); a delivery is sent by one
worker at a time while its lease lasts, and ends (webhooks); a revaluation leaves base balances at the rate (revaluation);
quantity and value of lots are what the movements say (inventory); each line is
matched once and a reconciliation explains every gap (bank); no month is in two
returns, and the output account holds what none has declared (tax returns);
numbers have no gap (e-invoices).

## The modules

```
AccountRow <- Journal <- MCJournal            Ledger: the abstract book, implemented by Journal
                 ^
              JournalProofs

Periods <- MCPeriods                          Webhooks <- MCWebhooks
   ^                                             ^
PeriodsProofs (and of Revaluation)            WebhooksProofs

Money <- Drafting <- Revaluation <- MCRevaluation
   ^
Costing <- Stock <- MCStock                   Shelf: abstract stock keeping, implemented by Stock
             ^
           Sales <- MCSales
             ^
        StockProofs (of Stock and of Sales)

TaxReturns <- MCTaxReturns     EInvoices <- MCEInvoices     Bank <- Reconciliation <- MCBank
   ^                              ^                                     ^
TaxReturnsProofs               EInvoicesProofs                      BankProofs

Sums <- JournalProofs, PeriodsProofs, StockProofs, TaxReturnsProofs, BankProofs
```

### The journal

**AccountRow** translates `obol_apply_posting_to_balance` and
`obol_apply_status_change` (`0004`, `0010`): `ApplyPosting` for a new posting,
`ReleaseReservation` and then `SettleLine` for a change of status, each an UPDATE
of its own, so `StatusChangeChecks` judges the CHECKs after each of them.
Amounts are stored debit-positive and `sign` presents them.

**Ledger** is what the journal promises, with no sessions and no cached balance.
A step writes an entry that balances and leaves the book solvent, or settles or
archives a pending one *with no funds condition at all*: that a reservation
always settles is part of the promise. An entry carries both the amount and its
worth in the functional currency, the entry it reverses, whether a stock record
owns it, and the key of the request it was written for.

**Journal** is the service. A session runs one request:

| `pc` | Stands at | Actions |
|---|---|---|
| `claim` | `claimIdempotencyKey`'s INSERT | `ClaimKey`, `ReplayKey` |
| `read` | `loadAccounts`, `validateDraft`, `assertVersions`, `assertNoOverdraft`; for a reversal or a settlement, the entry | `ReadForPost`, `ReadForReverse`, `ReadForTransition`, `ReadRefused` |
| `insert` | INSERT into `transactions` and the BEFORE triggers of the postings | `InsertEntry`, `InsertRefused` |
| `lock` | `UPDATE transactions SET status` with its guard trigger | `LockEntry`, `LockRefused` |
| `apply` | one account row per step, in the order of `todo` | `ApplyRow`, `ApplyRefused` |
| `commit` | COMMIT, with the deferred balance trigger | `CommitWrite`, `CommitRefused`, `CommitTransition`, `CommitClose` |

`acct` and `entry` are what is committed; `rows[s]` holds the images of the rows
session `s` has updated and therefore locked. `WaitsFor` is the lock table: a
session waits for another's uncommitted key, reversal of the same entry, status
change of the same entry, or account row, and reads the row again once the other
is gone (`ChecksHold` and `NextRow` use the committed row of that moment).
`Crash` and `Rollback` throw away everything; `DeadlockVictim` is Postgres's
40P01. `op = "sql"` is a writer that goes around the service: it validates
nothing and takes rows in any order, so only triggers and constraints stand in
its way.

### Months and foreign currency

**Periods** is `close` and `reopen` against the journal's writers. An entry is
what it does to the temporary accounts and to retained earnings. A close is:
`CheckClose` (the period row and the earlier months, read unlocked), `SumMonth`
(the month's temporary balances and the closing entry), `InsertEntry`,
`TakeRows`, `LockPeriod`, `Commit`; `SumNothing` and `SumLeavesMonth` are the
months with nothing to move and the ones whose difference is zero. A reopening
is `CheckReopen`, `Unlock`, `PrepareReversal`, `InsertEntry`, `TakeRows`,
`Commit`; `ReversalRefused` is the refusal that `reopen` returns without
undoing its UPDATE. `moved[s]` is history: whether another session committed
since `s` began, so that a property can speak of who was undisturbed.

**Money** has `convert`'s and `apportion`'s arithmetic: division that rounds half
away from zero, and shares by largest remainder.

**Drafting** is what stands between a request and the rows `writeEntry` inserts:
`ToMinorUnits` (a written amount has parts, of which a currency has `Grain` in
a minor unit), `ResolveBaseAmounts`, `AppendFxAdjustment`, `IsValid`
(`validateDraft`), and `MayDraft`, what is refused on the way.

**Revaluation** posts drafted entries, records rates, revalues, closes and
reopens. `ReadPeriod`, `Compute` and then `MarkOnly` or `Adjust` are the
statements of `revalue`; `Gate` and `Lock` those of `close` that look at the
timestamp. `moved[s]` is as in Periods. It keeps of a close only what touches
foreign currency; Periods has the rest.

### Goods

**Costing** has the four methods (`Allocate`), what a draw takes of a lot
(`Draw`: the last of the quantity takes the last of the money) and how a charge is
split over lots and between what is held and what is gone (`AllocateCharge`).

**Shelf** is what stock keeping promises: a quantity and a value per item, with
no lots, methods, locks or journal.

**Stock** is receiving, issuing, writing off, landing a charge and returning to a
supplier. A session's `todo` are its SELECT ... FOR UPDATE statements; `Select`
fixes the rows of one (`want`), `LockRow` takes them one by one in the stated
order and reads each again under its lock, `Locked` goes on to the next
statement, and `WriteIssue`, `WriteReturn` or `WriteCharge` commits lots and
entry together. `plan` is what was computed before any lock: the preview that
`addCharge` posts. `ReverseEntry` and `PostByHand` are the journal's users, who
touch the inventory accounts beside the lots.

**Sales** adds `sell` and the issue of credit notes. A sale locks item by item, in
the order of its lines, and prices each line (`Priced`). A credit note locks its
invoice (`LockSale`), then the lots of each returned line, and takes shares of
what earlier notes left (`NoteLine`, `CreditTax`); `WithinCaps` is the service's
judgement, `Accepted` the triggers' of `0030`. `Victim` is again 40P01: two
sales that list the same items in opposite orders deadlock.

### Filing, numbering, reconciling

**TaxReturns** is `file`: `Check`, `ReadEntries`, `ReadCredit` and `WriteReturn`,
each a statement at READ COMMITTED, with supplies booked (`Book`, in any month, on
either side or on both) and months passing (`Tick`) meanwhile. `Offered` is the
period the page proposes; `CONSTANT Period` the ones an API caller may name.
`journal` has every entry that moves the tax accounts: a supply's, a return's
(`Clearing`), what somebody posts to them by hand (`PostByHand`) and reversals of
any of these (`ReverseEntry`), none of which `tax_entries` hears of.

**EInvoices** issues the invoice of a sale and the adjustment of a credit note:
`CheckSale` or `CheckNote`, `LockSeries` (the advisory lock), `TakeNumber`,
`InsertRow` with its trigger, indexes and CHECK, `Commit`. `InsertByHand` goes
around the service and takes its lock in the trigger.

**Bank** is imports row by row (`StoreRow` waits for a row another import is
inserting), `match` and `record` under the lock of the line, `unmatch`, and
`matchSuggested`, a chain of matches over suggestions read at its start.

**Reconciliation** reads the report over all that, a SELECT at a time: the account's
balance (`ReadLedger`), what is on the statement only (`ReadBankOnly`), its first
day (`ReadFirst`), the latest line that states the bank's running balance
(`ReadLatest`; on its last day it may be any, as the code orders them by the time of
the import and a random id), and the open postings from the first day on
(`ReadBooksOnly`). `explained` is books - books only + bank only, and `Difference`
the bank's balance less that, or nothing where no line states one. `stirred` is
history: whether something was committed since the report began.

### Webhooks

**Webhooks** is the outbox and the dispatcher. A ledger write reads the enabled
endpoints (`ReadEndpoints`) and commits a delivery for each (`CommitEvent`) or
fails (`AbortEvent`, among others when an endpoint it read is gone). Workers
`ClaimBatch` under a lease, send the batch in order, and `FinishAttempt` each:
`Recorded` is the delivery's row, `Counted` the endpoint's breaker. `wait` is the
time left until `next_attempt_at`; `Tick` lets a unit pass and never past a
request's timeout. `since` and `lapsed` are history: how long ago a delivery was
claimed, and how many of its claims were taken over after their lease ran out.

### What the models leave out of these components

* One tenant. Row-level security adds the same predicate to every statement.
* Journal: metadata, annotation and reading. A key is never purged, in the model
  as in the code. SQL that adds postings to an entry already committed, a
  privilege of the table's owner, is not modelled. The SELECTs before the first
  write are one step: each reads committed state, none is locked, and each row
  is judged on its own.
* Drafting: the rate kept for audit (`impliedRate`) and a chart without an FX
  account, which only refuses.
* Periods: accounts are opened with `overdraft_allowed`, as every chart opens
  revenue, expense and retained earnings, so no CHECK can refuse; account rows
  are taken together rather than one by one (Journal has their order); books
  have one currency (Revaluation has the gate); every temporary account is on
  the chart, and there is a retained-earnings account.
* Revaluation: a posting is one step (Journal has its statements), every closed
  month has something to close, and rates are kept to the month their date is
  in. Non-monetary foreign accounts are not retranslated by the code and are
  left out.
* Stock: `createItem`, archiving, a charge by weight or one that is not
  capitalised, and the tax and payable legs of a return. A refusal by the journal
  is an `Abort`.
* Sales: the customer's and revenue legs as accounts, due dates, the receivable in
  a foreign currency, the margin report.
* TaxReturns: the tax codes (rates and which account each accrues in), previews,
  and the closed-month refusal of the clearing entry, an `Abort`.
* EInvoices: the XML and the names and addresses in it.
* Bank: how a file's columns become lines. A line stands for its fingerprint, which
  starts with `file:` or `feed:`, so a file and a feed never share one. The report's
  count of open lines, and `reconciled`, which asks that it is zero too.
* Webhooks: which due delivery is claimed first is left open, as due times are
  not kept once due; `SKIP LOCKED` has nothing to skip because a claim is one
  atomic statement. Signing, payloads and the vetting of addresses only decide
  the outcome, which is chosen freely.

## The runs

| Run | What it asks | Instance |
|---|---|---|
| `book` | Are the cached balances the sums of the postings, is no account overdrawn, can a settlement ever fail its CHECK, does the service implement `LedgerSpec`, is history append-only, does every moved balance advance its version, do writers never wait in a circle, is every request answered? | 2 sessions, 3 accounts, 3 entries, 1 key, two currencies; posts, holds, settlements, cancellations, reversals, a retried request, raw SQL, an account being closed; crashes |
| `rivals` | Does a closed month always name a closing entry dated in it, whoever races; does a close or a reopening nobody disturbed leave the month zero, or as it was, whatever rivals did before; what can move a closed month? | 3 sessions, 3 months (2 closable), 4 entries; posts, holds, settlements, cancellations, reversals by hand |
| `reval` | Does a revaluation that runs alone carry every balance at its month's rate, whatever rivals left; was a month closed by someone alone revalued; is what an entry at one rate leaves to the FX account no more than rounding? | 2 sessions, 3 months, 3 dollar accounts, dong equity and FX, 3 entries |
| `stock` | Do CHECKs on lots only ever refuse a stale charge, do lots and inventory account agree, are refunds within cost, does the service implement `ShelfSpec`? | 4 items (one per method), 2 inventory accounts, 2 sessions, 6 lots, 9 entries |
| `sales` | Do lots and account agree through sales and credit notes, is nothing left of an invoice credited in full, is every request answered? | 2 items, 2 sessions, 4 lots, 7 entries; crossing orders, three notes for one invoice |
| `returns` | Is no month or supply in two returns, does the output account hold what is undeclared beside what was put there by hand? | 2 months, any period of them typed in, supplies dated in either, 2 sessions, 3 journal entries; hand posts and reversals |
| `einvoices` | Do numbers run without a gap, has each sale and note one document, does a number taken under the lock stand? | 3 sessions, 2 series, 2 sales, 1 note, 4 invoices |
| `bank` | Is nothing imported lost, does a report explain every gap between the bank's balance and the books, is a line recorded once, is a tie suggested to nobody? | 2 sessions and a report, 3 lines (two of one day and amount), overlapping files, 2 postings, 2 matches, 2 imports |
| `webhooks` | Where a batch outlasts its lease: is a delivery shared only once a lease ran out, are attempts bounded by the limit and the lapses, do outcomes stand until then; does the breaker open; does every delivery end? | 2 workers, 2 events, batch 2, request 2, lease 3, 1 crash |

Three runs end in a counterexample, because a comment of the code or a decision
record says what the code does not do:

| Run | Property | What happens |
|---|---|---|
| `slip` | `ClosedMonthsAreZeroed` | A post commits between the close's sum and its lock (the comment at `periods.ts:124-126` excludes it). |
| `gap` | `CreditsUsedOnce` | January's return leaves a credit; March is filed past February, and February after it: both open with it (`tax-return.ts:111`, ADR 17). |
| `burst` | `ClaimsAreDisjoint` | Two deliveries of two units each under a lease of three, as twenty of 10 s under 60 s: the second is claimed again while the first worker has still to send it (`webhook-dispatcher.ts:23-25`). |

These configurations are kept beside them, to be run by hand
(`tlc -config X.cfg M`). Each ends in a counterexample, of behaviour the models
have and the passing runs' instances avoid or state around:

| Configuration | Property | What it shows |
|---|---|---|
| `MCJournal_pinned.cfg` | `PinnedWritesAreFresh` | The version is compared on an unlocked read and another commit comes in between. |
| `MCPeriods_twice.cfg` | `ClosedOnce` | Two closes see the same open period row; both post, although the code "will not close the same month twice". |
| `MCPeriods_undone.cfg` | `OpenMonthsAreUnclosed` | The closing entry was reversed by hand, in another month; reopening is refused and its UPDATE commits, although "the month is never observably unlocked-but-still-closed". One person is enough. |
| `MCPeriods_late.cfg` | `SealedFiguresStand` | An entry pending since before the close is settled after it, although the lock "is what makes a signed-off figure reproduce tomorrow". One person is enough. |
| `MCRevaluation_stale.cfg` | `SealedAtClosingRates` | Entries or rates that come after a revaluation do not clear its timestamp; the month closes at other figures. |
| `MCRevaluation_plug.cfg` | `PlugsAreRateDifferences` | An entry converted at one rate throughout leaves rounding to the FX account, which `journal.ts:526-528` says only two rates can. |
| `MCRevaluation_scaled.cfg` | `WorthAsStated` | A base amount is scaled by the currency the caller names for the entry, which nothing compares with the organisation's (`entries.ts:45-47`). |
| `MCStock_split.cfg` | `ChargesLandOnWhatIsHeld` | A charge is split by a preview taken before the lots are locked; a sale comes in between. |
| `MCTaxReturns_payable.cfg` | `PayableAsFiled` | A return that opens with a credit asks for less than its clearing entry puts on the payable account. |
| `MCTaxReturns_backdated.cfg` | `CreditsUsedOnce` | Only offered months are filed. While March's return is being filed, a supply is dated back to January; January's is filed, March reads its credit, and February reads it again. |
| `MCBank_tie.cfg` | `ZeroWhenExplained` | The last day has three lines with a running balance each; the report may take any of them for the latest, and shows a difference where nothing is unexplained (ADR 25: "It is zero when every gap is explained"). |
| `MCBank_recount.cfg` | `AddedAsRecorded` | An import that waited for another's rows reports lines it did not add. |

**Bounds.** Two sessions are enough for every race over one row, key or entry: each
decision is invalidated by one rival. `rivals` and `einvoices` have three, for a
wait released to the wrong one of two waiters and for a second original racing
a row by hand. A circle of waits longer than two is left to the proof of
`NoDeadlock`, which holds for any number. Three accounts give two account rows
that cannot be overdrawn and one that funds them, and an order to get wrong.
`RoomFor` bounds the book at |Entry| entries, enough for funding, a withdrawal
and its rival or its reversal (`book`), and for a post, a close, its reopening and a
rival's entry (`rivals`), in either of two months.
`MaxEntries` and `MaxLots` bound Stock, Sales, Revaluation and TaxReturns,
`MaxInvoices` EInvoices, and `MaxPostings`, `MaxMatches` and `MaxImports` Bank;
a session that has begun counts towards them, so no request is cut short. In
`reval` three entries are two postings and an adjustment, or a posting and two
adjustments that race. Rates are halves (`RateScale = 2`) and taxes fifths, so
that rounding happens and a half has to be rounded. `webhooks` and `burst` keep
the code's proportions: a request fits the lease (10 s in 60 s, here 2 in 3) and a
batch of slow ones does not (20 x 10 s, here 2 x 2). Backoff is 0 or 1 where the
code has a growing delay, attempts 3 where it has 8, failures 2 where it has 20:
each bound is reached. `returns` has one month before another, all that its
properties tell apart; the three months `gap` needs are in its own configuration.
`bank` has one posting of each kind and two matches, enough for a match, its
undoing and the next of another line or posting.

Symmetry, over sessions, is used only where no liveness is checked and no session
is named; `rivals` has it over the two entries that no request names, too.

Deadlock checking is off in every run: a session may be idle for ever when the
bound on entries is reached, and an outbox may be empty.

**Fairness.** `Journal!FairSpec` assumes strong fairness of each session's own steps:
a row may be released and taken again while a session waits, and Postgres queues
the waiters of a row in order, so each is served. It assumes that the deadlock
detector runs while a deadlock lasts. Nothing obliges clients to send requests,
or sessions to crash. `Sales!SalesFairness` is the same, piece by piece: a session
with its locks goes on and is answered, whichever way, and the detector ends one
session of a circle (weak fairness); a lock is granted in the end to whoever
waits (strong). `Webhooks!FairSpec` assumes that the cron keeps firing, that a
request ends (an AbortSignal bounds it), and that time passes; it assumes nothing
of subscribers or of people, and `DeliveriesEnd` promises nothing for an endpoint
that is disabled, whose deliveries wait.

**Refinement.** `Journal!LedgerSpec` maps the committed entries to Ledger's book.
`Stock!ShelfSpec` maps the lots to a quantity and a value per item: every
interleaving of locks and every costing method is a step of Shelf or none.

## What is proved

**Sums.** A balance is a sum of postings, a stock account a sum of lots, a VAT
account a sum of supplies. `Sums` has the facts about `SumFunctionOnSet` that all
of these rest on. The operator is a recursive function that takes the elements
in an order CHOOSE picks, and the provers cannot instantiate an induction
principle, so a statement about every finite set is proved from the smallest
counterexample: `SmallestSubset` finds, below any finite set with a property
that its parts lack, one none of whose parts has it. From that come, in order, that the recursion has one solution
(`SolutionExists`, `SolutionsAgree`), that any element may be taken first
(`SumTakesAny`), and then the algebra: sums of sums, of parts, of the fibres of a
map, of images under an injection, of a scaled or shifted function, and bounds.

`JournalProofs` proves, for every set of accounts, overdraft
permissions, entries, keys, sessions and requests, with the assumptions
`AccountAssumption`, `NullAssumption` and `RequestAssumption`:

* `TypeCorrect`: `Spec => []TypeOK`. The inductive `TypeInv` adds that an entry
  in the book touches an account, and for each `pc` what a session must have
  (`Labels`: at `apply` something is left to do, a transition has a target).
* `NothingSpentTwice`: `Spec => []NeverOverdrawn`. `RowInv`: committed rows pass
  the CHECKs; an uncommitted image passes them and has moved on from the
  committed row; a row has one holder. The last part is why the second is
  inductive: nobody else can publish that row.
* `VersionsTell`: `Spec => VersionAdvances`, from `RowInv`'s "moved on".
* `RetriesAreOneRequest`: `Spec => []OneEntryPerKey`. `KeyInv`: a key being used
  has one user, and is unclaimed until that user commits.
* `HistoryStands`: `Spec => HistoryImmutable`. `EntryInv`: what a session is about
  to store for a pending entry is that entry with another status, and the entry
  is still pending because the session holds it.
* `ReversalsAreExact`: `Spec => []ReversalsCancel`. `ReversalInv`: the lines held
  by a session past its read mirror its target, which is settled and unowned for
  good; past its insert no other reversal is in the book or in flight.
* `WritersNeverDeadlock`: `Spec => []NoDeadlock`, for circles of any length.
  `OrderInv`: what a writer of an entry holds is below all it has still to take,
  so along a circle of waits the row wanted would fall for ever.
* `BalancesAreExact`: `Spec => []BalancesAreSums`, all four columns of every
  account in every interleaving. `ImageInv` says what an uncommitted image is:
  the committed row with this entry's share added (or released, or settled), and
  that the accounts a session has yet to take and those it holds are the ones
  its entry touches. A commit then moves each column by exactly what it adds to
  the sum (`SumInv`), whatever was committed meanwhile, because a row is read
  again once its lock is had.
* `ReservationsAreHonoured`: `Spec => []TransitionsNeverOverdraw`. A pending
  entry's share is one summand of non-negative ones, so what a settlement
  releases is still there (`HeldShare`), and neither of its two UPDATEs can
  fail a CHECK.
* `JournalImplementsLedger`: `Spec => LedgerSpec`, the refinement: each commit is
  a `Write`, a settlement or a cancellation of `Ledger`, each other step leaves the
  book alone, and Ledger's solvency, which speaks of sums, follows from the CHECKs,
  which speak of columns, by `BalancesAreExact`.

`WebhooksProofs` proves, for all finite
sets of events and endpoints, any workers, and every batch size, limit, lease and
backoff (`CountsAssumption`, `TimesAssumption`, `NamesAssumption`):

* `TypeCorrect`: `Spec => []TypeOK`.
* `OnlyLapsesShare`: `Spec => []SharedOnceLapsed`; `OutcomesStand`:
  `Spec => FinalAnswersStand`; `AttemptsBounded`: `Spec => []AttemptsAreBounded`.
  Nothing is assumed of how a batch compares with its lease: the code's own
  constants (20 x 10 s, 60 s) let leases run out in a worker's hands. They rest on
  `ClaimInv`. A row exists only for an event already announced (`Announced`), so
  one removed with its endpoint never comes back under the name a worker still
  holds. The claims in hand for a delivery have numbers of their own, none above
  its count (`Numbered`, `Distinct`). A delivering row comes due a lease after its
  claim (`Timed`), so until a first claim has lapsed whoever holds the delivery
  is alone with it and the row stays `delivering` (`Sole`). `Tokens` counts
  attempts: a pending row, and a claim in hand that may still be retried, can
  each become one more claim; a claim or a finish turns one such token into one or
  none, and only a lapse makes one.
* `CircuitBreaks`: `Spec => []BreakerOpens`.

`PeriodsProofs` proves, for every set of months, accounts, entries, sessions and
requests (`MonthAssumption`, `AccountAssumption`, `NullAssumption`,
`RequestAssumption`):

* `ClosesAreNamed`: `Spec => []ClosedMonthsNameTheirClose`. `NameInv`: a closing
  entry is always settled (`ClosingsArePosted`), so no settlement or cancellation
  touches one; a closing session is about to write its closing entry or nothing;
  a session changing an entry's status holds one that is in the book and closes
  no month. Nothing about the amounts is needed, so it holds in every race that
  `slip` and the configurations `twice`, `undone` and `late` find.
* `ClosesZero`: `Spec => LoneCloseZeroes`; `ReopensRestore`:
  `Spec => LoneReopenRestores`. `FigureInv`: what a session works on are figures of
  the book (`Books`, `Works`), and a session nobody has disturbed still sees what
  it decided on (`Plan`): the closing entry it is about to write is the negative
  of what its month stands at now, whatever rivals did to that month before.
  `MonthGains` adds an entry to its month's balances, so a closing entry takes
  them to zero and a reversal gives back what its entry took.
* `SealsMoveLate`: `Spec => OnlyLateWritesMoveSeals`. `HoldInv`: a period row has one
  holder, which nobody else can change; and a close that writes no entry found no
  row for its month and marks none.

and, of `Revaluation`, for every set of accounts, months, rates, sessions and
requests:

* `ClosesAreGated`: `R!Spec => R!LoneCloseWasRevalued`. `GateInv`: as long as
  nobody else committed (`moved`), a close still sees the period row it read, and
  past the gate that row is marked or nothing foreign is held. Every commit sets
  `moved` for everyone under way, which is the whole of the argument.

and, with what the schemas and the chart say of rates, accounts and written lines
(`Bookable`: `ScaleAssumption`, `DraftingAssumption`, `RequestAssumption`):

* `RevaluationTyped`: `R!Spec => []R!TypeOK`, with `BookTypes`.
* `LoneRevaluationsSettle`: `R!Spec => R!LoneRevaluationSettles`. `PlanInv` is the
  invariant it needs: what a session computed is, as long as nobody else
  committed, still what there is to write, because a plan reads only the journal
  and the rates and those move with a commit (`PlansStand`). `AdjustmentIs` and
  `EntryCarries` then say what the entry does to each carrying amount, and
  `OppositeTotals` that the FX account gets what the others give.
* `OneRateEntriesRound`: `R!Spec => R!OneRateOnlyRounds`. `RoundingIsNear`: a
  conversion is within half a unit. The amounts in foreign currency cancel in each
  currency, so together (`ForeignCancels`, by `SumOfFibres`); at one rate the exact
  conversions cancel too, and what is left is one rounding a line (`RoundingsAdd`).
  `PlugIsResidual`: the adjustment takes exactly that, and validation lets nobody
  else put anything on the FX account of an entry that has one.

`TaxReturnsProofs` proves, for every number of months, sessions and supplies
(`TaxReturnsAssumption`):

* `MonthsBelongOnce`: `Spec => []FiledOnce`. What a session read lies in its
  period (`ReadInPeriod`), what is declared lies in its return's
  (`DeclaredInPeriod`), and the index keeps periods apart: however stale the
  read, two returns have no supply in common.
* `OutputAccruesAnew`: `Spec => []OutputIsUndeclared`. Since what a return declares
  was in no return before, a clearing entry takes from the output account the
  tax of exactly the sales that stop being undeclared. Entries and reversals by
  hand are on both sides of the equation, so nothing is assumed of them.

`CreditsUsedOnce` is not among them: it is false of the code, of a month typed past
a gap (`gap`) and of a supply dated back (`MCTaxReturns_backdated.cfg`).

`StockProofs` proves, for every set of items, accounts, lots, sessions, requests
and costing methods. `RequestAssumption` and, of sales and credit notes,
`SaleAssumption` say what the schemas and the CHECKs let through: quantities and
costs that are whole and not negative, rates that are positive, invoice lines that
ship something.

* `DrawsAreSound`, `ApportionmentIsExact`, `AllocationIsExact`: what a draw takes
  and what it leaves make up the lot, and the last of the quantity takes the last
  of the money; the shares of a charge add up to the charge; the draws of an issue
  add up to the quantity asked, whichever of the four methods chose them, and
  none exceeds its lot.
* `LotsAlwaysSound`: `StockSpec => []LotsAreSound`; `RefundsAreCapped`:
  `StockSpec => []RefundsWithinCost`. `StockInv`: two sessions hold no lot in
  common (`LocksExclude`); a lot read under its lock still is as it was read
  (`ViewStands`), since whoever changes it must hold it; what a request has
  locked, wants and has still to select covers what it will write (`AtWork`);
  and a preview speaks of lots of its shipment, which never change shipment.
* `BooksMatchStock`: `StockSpec => []StockAgrees`. Each entry moves an inventory
  account by what its lots move (`StepAgrees`): a receipt by what it opens, an
  issue by what its draws take, a charge by what of it lands on goods still held.
  Entries written by hand are on both sides of the equation, so nothing is
  assumed of them.
* `StockKeepsShelf`: `StockSpec => ShelfSpec`, the refinement: every commit is a
  step of `Shelf` for the items it touches, every other step none.

and, of `Sales`, for every set of invoices' and credit notes' requests too, every
tax rate and number of lines, and as many notes for one invoice as there are:

* `CreditsAlwaysSettle`: `SalesSpec => []CreditsSettle`. `SaleInv` keeps the
  accounts of each invoice and of each of its lines (`Settled`): what is credited
  is within what was charged and, where the basis is used up, all of it; what
  came back by draw adds up to what came back by line. A note computes its shares
  from notes it read when it locked the invoice; nobody else holds that lock
  (`SalesExclude`), so they are still all the notes there are of it when it
  commits (`CreditReady`, `Alike`). Then a share of what was left is within it
  and the last share is all of it (`ShareOfIs`, `CreditTaxIs`), and so is what
  comes back of each draw (`BackIn`, `LineCredited`).
* `SaleLotsAlwaysSound`: `SalesSpec => []LotsAreSound`. A sale draws on one lot by
  many lines, each of what the ones before it left; together they are a draw of
  what the lot had under its lock (`ShippedAre`). Goods that come back fit,
  because a lot has given at least what the lines sold have of it still out
  (`Covered`), whatever else was issued, returned or charged meanwhile.
* `SalesMatchStock`: `SalesSpec => []StockAgrees`: the entry of a sale or of a note
  moves each inventory account by what its lots move, at the cost the goods left at.

`EInvoicesProofs` proves, for every set of series, sales, notes and sessions
(`EInvoicesAssumption`):

* `SeriesHaveNoGap`, `LockedReadsStand`, `DocumentsAreSingle`: `NumbersRun`,
  `TakenNumbersStand` and `OneDocumentEach`, from one invariant. The lock of a
  series has one holder (`LockIsExclusive`); a row that is inserted, or that the
  service has numbered, is the next of its series (`NextInLine`), because nobody
  else can commit to that series; the last number of a series is how many there are in
  it (`Counted`), so a maximum needs no induction; and an uncommitted row clashes
  with none (`IndexedOnce`).

`BankProofs` proves, for every set of lines, files, sessions and bookings
(`BankAssumption`):

* `LinesAreRecordedOnce`: `Spec => []RecordedOnce`. A line has one holder
  (`LocksExclude`), so what the index found unmatched is unmatched when it commits
  (`Commits`); hence one live match a line (`LiveOnce`), and every recorded entry
  keeps the match it was written with (`Backed`). The entries of a line are then
  an image of its matches, of which all but one are dead.
* `FilesAreWhole`: `Spec => []ImportsAreWhole`. `ImportInv`: while an import runs,
  its file is covered by what is on the statement, what it has stored and what it
  has still to store (`Carried`). `UnknownCovers` starts it: the rows that are
  not known are all there, in order.
* `ReportsExplain`: `ReportSpec => []GapsAreExplained`, of a report of five SELECTs
  beside any number of sessions. `MatchInv`: live matches pair lines with postings
  of the same amount, one to one (`Paired`), so what a match takes from one sum it
  takes from the other (`GapsCancel`). `ReadInv`: what a report has read so far is
  what there still is, as long as nobody committed since it began.
  `ReportsUseTheBank` carries the invariants of the sessions over to the
  specification that has reports as well. The bank's balance is whatever the
  latest line says; nothing is assumed of it.
* `SuggestionsAreDistinct`: `Spec => []SuggestionsPair`, for what is suggested in
  every state of the books.

**Model-checked only.** `RequestsEnd`, `SalesEnd` and `DeliveriesEnd` are liveness,
which the provers do not do. Every invariant a passing run checks has a theorem. What
the comments claim and the code does not keep has a counterexample instead, and no
proof under an assumption that would exclude it: `ClosedMonthsAreZeroed` (`slip`),
`ClaimsAreDisjoint` (`burst`), `CreditsUsedOnce` (`gap`), and, by hand, `ClosedOnce`
(`twice`), `OpenMonthsAreUnclosed` (`undone`), `SealedFiguresStand` (`late`) and
`ZeroWhenExplained` (`tie`). The passing runs and the theorems say what is left of
each: of a session nobody disturbed, or but for what came late. The type invariants of
Journal, Webhooks and Revaluation are proved; those of Periods, Stock and Sales can
be added to a run's cfg.

## Where the code and its words part

Beside the runs and configurations above that end in a counterexample, modelling
brought out these; the behaviour of each is in the models, and no property is
stated against it:

* A settlement deadlocks with a post: `obol_apply_status_change` updates account
  rows in the order an unordered SELECT returns them (`0010:261`), while
  `writeEntry` sorts. `LockOrders` has both; `RequestsEnd` holds because Postgres
  fails one of the two.
* An account closed after the open-account trigger judged a posting, and before
  the row is taken, is moved after its close (`0001:75`); a settlement does not
  ask at all.
* A month in which nothing moved is left open by its close (`periods.ts:418`),
  although the comment at 199-201 says the period still locks.
* A month whose revenue equals its expense cannot be closed: retained earnings
  would get a leg of zero, which `validateDraft` refuses (`SumLeavesMonth`).
* A close and a reopening can deadlock: a close holds account rows and waits for
  the period row, a reopening holds the period row and waits for account rows
  (`periods.ts:205`, three sessions). Postgres fails one of them.
* ADR 8 (63-68), the comments of `transitionEntry` (`journal.ts:831-834` and
  892-895) and the API's description (`http/openapi.ts:806`) say that a settlement
  can fail for funds "if something else drained the account first". It cannot:
  what the overdraft CHECK compares and what `assertNoOverdraft` lets others spend
  are both less the holds, and `overdraft_allowed` never changes once an account is
  open. `TransitionsNeverOverdraw` is checked (`book`) and proved
  (`ReservationsAreHonoured`); the `insufficient_funds` answer of
  `transitionEntry` is never given. That something may happen is not a property a
  run can refute, so this disagreement is a passing property.
* A slow worker's failure overwrites a faster one's success (`finish` updates by
  id alone, `webhook-dispatcher.ts:262`), once a lease has lapsed and not before
  (`FinalAnswersStand`).
* A delivery whose leases keep running out, its workers dead or slow, is claimed
  without limit: only `finish` compares attempts. `AttemptsAreBounded` therefore
  counts the lapses.
* A replay is sent under a new event id, although the comment on `replay`
  (`webhooks.ts:209-210`) says it carries the same one.

## What is left

Not yet modelled, in the order worth taking:

1. **Durable rate limit** (`http/durable-rate-limit.ts`): requests stamped out of
   order at a window's edge. It is one atomic upsert with no other component.
2. **The annotation of entries' metadata** (`journal.ts`), the one operation of the
   journal that is missing.
3. **Charges by weight and charges that are not capitalised**, and the tax and
   payable legs of a supplier return.
4. **The receivable of a sale in a foreign currency**, which joins Sales with
   Revaluation.
5. **Tax codes**: rates, treatments and the account each accrues in, which
   TaxReturns takes as given.

## Not modelled

* **Reports, ageing and statutory statements**: sums and layouts over committed
  rows, which change no state.
* **HTTP routes and pages**: parsing, problem documents and rendering.
* **Tenancy and authentication**: row-level security adds one predicate to every
  statement; sessions and keys are a library's and pure lookups.
* **Documents, counterparties, the sample ledger and the demonstrations**:
  content-addressed inserts, and scripts over the services above.
* **XML and CSV**: how a document is written or a file is read; what comes of it is
  modelled (EInvoices, Bank).
