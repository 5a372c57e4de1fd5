------------------------------ MODULE Periods -------------------------------
(***************************************************************************)
(* Closing and reopening months (periods.ts, migration 0009), against the  *)
(* journal's writers.  Sessions interleave statement by statement at READ  *)
(* COMMITTED, as in Journal; here an entry is what it does to the          *)
(* temporary accounts and to retained earnings, and the rows it updates    *)
(* are taken together.  The accounts are ones opened with                  *)
(* overdraft_allowed, as every chart opens them, and the books are kept in *)
(* one currency, so the revaluation gate never refuses.                    *)
(***************************************************************************)
EXTENDS Integers, FiniteSets, Functions

CONSTANTS Month,        \* 1, 2, ...
          Now,          \* the current month: only earlier ones close
          Temporary,    \* revenue and expense accounts
          Retained,     \* the account with role retained_earnings
          Entry,        \* ids an entry may take (bounds the book)
          NoEntry,
          Session,
          Request

ASSUME MonthAssumption == Month \subseteq Nat /\ IsFiniteSet(Month) /\ Now \in Month
ASSUME AccountAssumption == IsFiniteSet(Temporary) /\ Retained \notin Temporary
ASSUME NullAssumption == NoEntry \notin Entry

VARIABLES entry,     \* transactions, with what they post to the accounts here
          period,    \* rows of accounting_periods
          pc, req,
          seen,      \* the period row a close or reopen decided on
          draft,     \* the entry being inserted or updated
          moved      \* history: has another session committed since it began?

sessionVars == <<pc, req, seen, draft>>
vars == <<entry, period, sessionVars, moved>>

NoLines == [a \in Temporary |-> 0]

\* Amounts as stored, debit-positive.  `closing` is metadata.closingPeriod.
EntryRow == [status : {"absent", "pending", "posted", "archived"}, month : Month,
             lines : [Temporary -> Int], retained : Int, closing : BOOLEAN,
             reverses : Entry \cup {NoEntry}]

NoDraft == [status |-> "absent", month |-> Now, lines |-> NoLines, retained |-> 0,
            closing |-> FALSE, reverses |-> NoEntry]

PeriodRow == [status : {"none", "open", "closed"}, closing : Entry \cup {NoEntry}]
NoPeriod == [status |-> "none", closing |-> NoEntry]
OpenPeriod == [status |-> "open", closing |-> NoEntry]

RequestType == [op : {"none", "post", "close", "reopen", "settle", "archive", "reverse"},
                month : Month, lines : [Temporary -> Int],
                status : {"pending", "posted"}, target : Entry \cup {NoEntry}]

NoRequest == [op |-> "none", month |-> Now, lines |-> NoLines,
              status |-> "posted", target |-> NoEntry]

ASSUME RequestAssumption ==
  \A r \in Request :
    /\ r \in RequestType /\ r.op # "none"
    /\ r.op \in {"settle", "archive", "reverse"} <=> r.target # NoEntry

Init ==
  /\ entry = [e \in Entry |-> NoDraft]
  /\ period = [m \in Month |-> NoPeriod]
  /\ pc = [s \in Session |-> "idle"]
  /\ req = [s \in Session |-> NoRequest]
  /\ seen = [s \in Session |-> NoPeriod]
  /\ draft = [s \in Session |-> NoDraft]
  /\ moved = [s \in Session |-> FALSE]

InMonth(m) == {e \in Entry : entry[e].status # "absent" /\ entry[e].month = m}
PostedIn(m) == {e \in InMonth(m) : entry[e].status = "posted"}
Reversals(e) == {r \in Entry : entry[r].reverses = e}

\* temporaryBalances for one account: what the month's posted entries did.
TemporaryBalance(m, a) == SumFunctionOnSet([e \in Entry |-> entry[e].lines[a]], PostedIn(m))

Total(lines) == SumFunctionOnSet(lines, Temporary)

Touched(row) == {a \in Temporary : row.lines[a] # 0}
                  \cup (IF row.retained # 0 THEN {Retained} ELSE {})

\* Mutant: the sum takes entries that are not settled.
ClosingEntryOfAll(m) ==
  LET back == [a \in Temporary |->
                -SumFunctionOnSet([e \in Entry |-> entry[e].lines[a]], InMonth(m))]
  IN  [status |-> "posted", month |-> m, lines |-> back, retained |-> -Total(back),
       closing |-> TRUE, reverses |-> NoEntry]

\* Every temporary account moved back to zero, the difference to retained
\* earnings.
ClosingEntry(m) ==
  LET back == [a \in Temporary |-> -TemporaryBalance(m, a)]
  IN  [status |-> "posted", month |-> m, lines |-> back, retained |-> -Total(back),
       closing |-> TRUE, reverses |-> NoEntry]

\* reverseEntry, dated in `m`.
ReversalOf(e, m) ==
  [status |-> "posted", month |-> m, lines |-> [a \in Temporary |-> -entry[e].lines[a]],
   retained |-> -entry[e].retained, closing |-> FALSE, reverses |-> e]

IsClosable(m) == m < Now

(***************************************************************************)
(* What a session holds until it commits, and waits for.                   *)
(***************************************************************************)
HoldsRows(s) == IF pc[s] \in {"period", "commit"} THEN Touched(draft[s]) ELSE {}
HoldsPeriod(s, m) ==
  /\ req[s].month = m
  /\ \/ req[s].op = "reopen" /\ pc[s] \in {"reverse", "insert", "rows", "commit"}
     \/ req[s].op = "close" /\ pc[s] = "commit"
HoldsReversal(s, e) == pc[s] \in {"rows", "commit"} /\ draft[s].reverses = e
Transitions(s) == req[s].op \in {"settle", "archive"}
HoldsEntry(s, e) == pc[s] \in {"rows", "commit"} /\ Transitions(s) /\ req[s].target = e

WaitsFor(s, t) ==
  /\ s # t
  /\ \/ pc[s] = "rows" /\ HoldsRows(t) \cap Touched(draft[s]) # {}
     \/ pc[s] \in {"unlock", "period"} /\ HoldsPeriod(t, req[s].month)
     \/ pc[s] = "insert" /\ draft[s].reverses # NoEntry
                         /\ HoldsReversal(t, draft[s].reverses)
     \/ pc[s] = "lock" /\ HoldsEntry(t, req[s].target)

Proceeds(s) == \A t \in Session : ~WaitsFor(s, t)

Goto(s, label) == pc' = [pc EXCEPT ![s] = label]
KeepCommitted == UNCHANGED <<entry, period, moved>>

Finish(s) ==
  /\ Goto(s, "idle")
  /\ req' = [req EXCEPT ![s] = NoRequest]
  /\ seen' = [seen EXCEPT ![s] = NoPeriod]
  /\ draft' = [draft EXCEPT ![s] = NoDraft]

\* A refusal, an exception or a lost connection: nothing was written.
Rollback(s) == /\ Finish(s)
               /\ moved' = [moved EXCEPT ![s] = FALSE]
               /\ UNCHANGED <<entry, period>>

RoomFor(r) ==
  Cardinality({s \in Session : pc[s] # "idle"})
    < Cardinality({e \in Entry : entry[e].status = "absent"})

FirstStep(r) == CASE r.op \in {"close", "reopen"} -> "check"
                  [] r.op = "post" -> "insert"
                  [] r.op = "reverse" -> "reverse"
                  [] OTHER -> "lock"

\* The row postEntry writes for a caller.
EntryFor(r) == [status |-> r.status, month |-> r.month, lines |-> r.lines,
                retained |-> 0, closing |-> FALSE, reverses |-> NoEntry]

Begin(s) ==
  /\ pc[s] = "idle"
  /\ \E r \in Request :
       /\ RoomFor(r)
       /\ Goto(s, FirstStep(r))
       /\ req' = [req EXCEPT ![s] = r]
       /\ draft' = [draft EXCEPT ![s] = IF r.op = "post" THEN EntryFor(r) ELSE NoDraft]
  /\ UNCHANGED seen
  /\ KeepCommitted

(***************************************************************************)
(* close                                                                   *)
(***************************************************************************)
\* "Periods close in order": an earlier month with entries and no closed row.
EarlierOpen(m) == \E e \in Entry : /\ entry[e].status # "absent"
                                   /\ entry[e].month < m
                                   /\ period[entry[e].month].status # "closed"

MayClose(m) == /\ IsClosable(m)
               /\ period[m].status # "closed"
               /\ ~EarlierOpen(m)

CheckClose(s) ==
  /\ pc[s] = "check" /\ req[s].op = "close"
  /\ MayClose(req[s].month)
  /\ seen' = [seen EXCEPT ![s] = period[req[s].month]]
  /\ Goto(s, "sum")
  /\ KeepCommitted /\ UNCHANGED <<req, draft>>

\* The closing entry is computed and handed to the journal.  A month whose
\* revenue and expense cancel leaves retained earnings a leg of zero, which
\* validateDraft refuses.
SumMonth(s) ==
  LET closingEntry == ClosingEntry(req[s].month) IN
  /\ pc[s] = "sum"
  /\ closingEntry.retained # 0
  /\ draft' = [draft EXCEPT ![s] = closingEntry]
  /\ Goto(s, "insert")
  /\ KeepCommitted /\ UNCHANGED <<req, seen>>

\* Nothing moved: a missing row is created, open; an existing one is left.
SumNothing(s) ==
  /\ pc[s] = "sum"
  /\ Touched(ClosingEntry(req[s].month)) = {}
  /\ seen[s].status = "none"
  /\ Goto(s, "period")
  /\ KeepCommitted /\ UNCHANGED <<req, seen, draft>>

SumLeavesMonth(s) ==
  /\ pc[s] = "sum"
  /\ LET closingEntry == ClosingEntry(req[s].month) IN
       /\ closingEntry.retained = 0
       /\ Touched(closingEntry) = {} => seen[s].status # "none"
  /\ Rollback(s)

\* `lock`: an UPDATE of the row that was seen, whatever it says by now, or an
\* INSERT, which accounting_periods_org_month_key fails if a rival was first.
LockPeriod(s) ==
  /\ pc[s] = "period"
  /\ Proceeds(s)
  /\ seen[s].status = "none" => period[req[s].month].status = "none"
  /\ Goto(s, "commit")
  /\ KeepCommitted /\ UNCHANGED <<req, seen, draft>>

LockPeriodTaken(s) ==
  /\ pc[s] = "period"
  /\ Proceeds(s)
  /\ seen[s].status = "none" /\ period[req[s].month].status # "none"
  /\ Rollback(s)

(***************************************************************************)
(* reopen                                                                  *)
(***************************************************************************)
CheckReopen(s) ==
  /\ pc[s] = "check" /\ req[s].op = "reopen"
  /\ period[req[s].month].status = "closed"
  /\ seen' = [seen EXCEPT ![s] = period[req[s].month]]
  /\ Goto(s, "unlock")
  /\ KeepCommitted /\ UNCHANGED <<req, draft>>

CheckRefused(s) ==
  /\ pc[s] = "check"
  /\ IF req[s].op = "close" THEN ~MayClose(req[s].month)
                            ELSE period[req[s].month].status # "closed"
  /\ Rollback(s)

\* The row is set open before its closing entry is reversed.
Unlock(s) ==
  /\ pc[s] = "unlock"
  /\ Proceeds(s)
  /\ Goto(s, "reverse")
  /\ KeepCommitted /\ UNCHANGED <<req, seen, draft>>

\* What reverseEntry is asked for.
Original(s) == IF req[s].op = "reopen" THEN seen[s].closing ELSE req[s].target
\* Mutant: a reopening's reversal is dated today like any other.
DatedToday(s) == Now

\* "Dated inside the month being reopened, not today."
ReversalMonth(s) == IF req[s].op = "reopen" THEN req[s].month ELSE Now

Reversible(e) == entry[e].status = "posted" /\ Reversals(e) = {}

PrepareReversal(s) ==
  /\ pc[s] = "reverse"
  /\ Reversible(Original(s))
  /\ draft' = [draft EXCEPT ![s] = ReversalOf(Original(s), ReversalMonth(s))]
  /\ Goto(s, "insert")
  /\ KeepCommitted /\ UNCHANGED <<req, seen>>

\* reverseEntry refused.  Its savepoint is rolled back and the refusal is
\* returned; a reopen returns it too, so its own transaction commits.
ReversalRefused(s) ==
  IF req[s].op = "reopen"
  THEN /\ Goto(s, "commit")
       /\ draft' = [draft EXCEPT ![s] = NoDraft]
       /\ KeepCommitted /\ UNCHANGED <<req, seen>>
  ELSE Rollback(s)

PrepareRefused(s) ==
  /\ pc[s] = "reverse"
  /\ ~Reversible(Original(s))
  /\ ReversalRefused(s)

(***************************************************************************)
(* The journal's writes.                                                   *)
(***************************************************************************)
\* Mutant: no transactions_reject_closed_period.
InsertAllowedInClosedMonth(s) ==
  draft[s].reverses # NoEntry => Reversals(draft[s].reverses) = {}

\* transactions_reject_closed_period, which sees the session's own unlocking,
\* and transactions_one_reversal_per_entry.
InsertAllowed(s) ==
  /\ period[draft[s].month].status = "closed" => HoldsPeriod(s, draft[s].month)
  /\ draft[s].reverses # NoEntry => Reversals(draft[s].reverses) = {}

InsertEntry(s) ==
  /\ pc[s] = "insert"
  /\ Proceeds(s)
  /\ InsertAllowed(s)
  /\ Goto(s, "rows")
  /\ KeepCommitted /\ UNCHANGED <<req, seen, draft>>

InsertRefused(s) ==
  /\ pc[s] = "insert"
  /\ Proceeds(s)
  /\ ~InsertAllowed(s)
  /\ ReversalRefused(s)

\* transitionEntry: the UPDATE waits for a rival's, then the guard judges.
LockEntry(s) ==
  /\ pc[s] = "lock"
  /\ Proceeds(s)
  /\ entry[req[s].target].status = "pending"
  /\ draft' = [draft EXCEPT ![s] =
       [entry[req[s].target] EXCEPT !.status = IF req[s].op = "settle" THEN "posted"
                                                                      ELSE "archived"]]
  /\ Goto(s, "rows")
  /\ KeepCommitted /\ UNCHANGED <<req, seen>>

LockRefused(s) ==
  /\ pc[s] = "lock"
  /\ Proceeds(s)
  /\ entry[req[s].target].status # "pending"
  /\ Rollback(s)

\* The balance triggers take the account rows.
TakeRows(s) ==
  /\ pc[s] = "rows"
  /\ Proceeds(s)
  /\ Goto(s, IF req[s].op = "close" THEN "period" ELSE "commit")
  /\ KeepCommitted /\ UNCHANGED <<req, seen, draft>>

\* Mutant: an empty month is locked with no closing entry behind it.
PeriodAfterAlwaysClosed(s, e) ==
  CASE req[s].op = "close" -> [status |-> "closed", closing |-> e]
    [] req[s].op = "reopen" -> OpenPeriod
    [] OTHER -> period[req[s].month]

\* The month's row as the session leaves it; `e` is the entry it wrote.
PeriodAfter(s, e) ==
  CASE req[s].op = "close" ->
         IF e = NoEntry THEN OpenPeriod ELSE [status |-> "closed", closing |-> e]
    [] req[s].op = "reopen" -> OpenPeriod
    [] OTHER -> period[req[s].month]

\* The id written: the entry's own for a transition, a fresh one for a new
\* entry, none when the session wrote only the period row.
Written(s) == IF draft[s] = NoDraft THEN {NoEntry}
              ELSE IF Transitions(s) THEN {req[s].target}
              ELSE {e \in Entry : entry[e].status = "absent"}

Commit(s) ==
  /\ pc[s] = "commit"
  /\ \E e \in Written(s) :
       /\ entry' = IF e = NoEntry THEN entry ELSE [entry EXCEPT ![e] = draft[s]]
       /\ period' = [period EXCEPT ![req[s].month] = PeriodAfter(s, e)]
  /\ moved' = [t \in Session |-> t # s /\ pc[t] # "idle"]
  /\ Finish(s)

Cycle(group) ==
  /\ group # {}
  /\ \A s \in group : /\ \E t \in group : WaitsFor(s, t)
                      /\ \E t \in group : WaitsFor(t, s)

\* Postgres fails one of the transactions of a deadlock.
DeadlockVictim(s) ==
  /\ \E group \in SUBSET Session : s \in group /\ Cycle(group)
  /\ Rollback(s)

Crash(s) == pc[s] # "idle" /\ Rollback(s)

Close(s) == \/ CheckClose(s) \/ SumMonth(s) \/ SumNothing(s) \/ SumLeavesMonth(s)
            \/ LockPeriod(s) \/ LockPeriodTaken(s)
Reopen(s) == CheckReopen(s) \/ Unlock(s) \/ PrepareReversal(s) \/ PrepareRefused(s)
Write(s) == \/ InsertEntry(s) \/ InsertRefused(s) \/ LockEntry(s) \/ LockRefused(s)
            \/ TakeRows(s) \/ Commit(s)

Next == \E s \in Session :
  Begin(s) \/ Close(s) \/ Reopen(s) \/ CheckRefused(s) \/ Write(s)
    \/ DeadlockVictim(s) \/ Crash(s)

Spec == Init /\ [][Next]_vars

(***************************************************************************)
(* Properties.                                                             *)
(***************************************************************************)
TypeOK ==
  /\ entry \in [Entry -> EntryRow]
  /\ period \in [Month -> PeriodRow]
  /\ pc \in [Session -> {"idle", "check", "sum", "unlock", "reverse", "insert",
                         "lock", "rows", "period", "commit"}]
  /\ req \in [Session -> RequestType]
  /\ seen \in [Session -> PeriodRow]
  /\ draft \in [Session -> EntryRow]
  /\ moved \in [Session -> BOOLEAN]

Closed(m) == period[m].status = "closed"
Standing(e) == entry[e].closing /\ Reversals(e) = {}

\* A closed month's revenue and expense are zero: everything it earned is in
\* retained earnings ("no other writer can slip an entry in between", close).
ClosedMonthsAreZeroed ==
  \A m \in Month : Closed(m) => \A a \in Temporary : TemporaryBalance(m, a) = 0

\* "The month is never observably unlocked-but-still-closed" (reopen): in a
\* month that is not closed, its closing entries are undone there by their
\* reversals.
OpenMonthsAreUnclosed ==
  \A m \in Month : ~Closed(m) =>
    SumFunctionOnSet([e \in Entry |-> entry[e].retained],
                     {e \in PostedIn(m) : \/ entry[e].closing
                                         \/ entry[e].reverses \in InMonth(m)}) = 0

\* A month is closed by one entry at a time, however often it is closed and
\* reopened ("will not close the same month twice").
ClosedOnce ==
  \A e, f \in Entry : Standing(e) /\ Standing(f) /\ entry[e].month = entry[f].month => e = f

\* "A period that claims to be closed with no entry behind it is a lie"
\* (accounting_periods_closed_check): a closed month names a settled closing
\* entry dated inside it.
ClosedMonthsNameTheirClose ==
  \A m \in Month : Closed(m) =>
    /\ period[m].closing # NoEntry
    /\ entry[period[m].closing].closing
    /\ entry[period[m].closing].status = "posted"
    /\ entry[period[m].closing].month = m

\* The lock "is what makes a signed-off figure reproduce tomorrow": while a
\* month stays closed, nothing changes what its accounts did in it.
SealedFiguresStand ==
  [][\A m \in Month : Closed(m) /\ Closed(m)' =>
       \A a \in Temporary : TemporaryBalance(m, a)' = TemporaryBalance(m, a)]_vars

(***************************************************************************)
(* The claims above hold of a session that was alone, or but for what was  *)
(* under way: what the code promises in every race is this.                *)
(***************************************************************************)
\* A close during which nobody else committed leaves every revenue and expense
\* account of its month at zero and no earlier month with entries open,
\* whatever rivals did to the books before (close).
LoneCloseZeroes ==
  [][\A m \in Month : ~Closed(m) /\ Closed(m)' =>
       \E s \in Session :
         /\ pc[s] = "commit" /\ req[s].op = "close" /\ req[s].month = m
         /\ \/ moved[s]
            \/ /\ \A a \in Temporary : TemporaryBalance(m, a)' = 0
               /\ ~EarlierOpen(m)']_vars

\* A reopening during which nobody else committed gives each account back,
\* inside the month, what its close took, unless someone had reversed the
\* closing entry by hand (reopen, "dated inside the month being reopened").
LoneReopenRestores ==
  [][\A m \in Month : Closed(m) /\ ~Closed(m)' =>
       \E s \in Session :
         /\ pc[s] = "commit" /\ req[s].op = "reopen" /\ req[s].month = m
         /\ \/ moved[s]
            \/ Reversals(period[m].closing) # {}
            \/ \A a \in Temporary :
                 TemporaryBalance(m, a)'
                   = TemporaryBalance(m, a) - entry[period[m].closing].lines[a]]_vars

\* While a month stays closed its figures move by nothing but a session that
\* was under way when somebody else committed, and the settlement of an entry
\* left pending (transactions_reject_closed_period).
OnlyLateWritesMoveSeals ==
  [][\A m \in Month : Closed(m) /\ Closed(m)' =>
       \/ \A a \in Temporary : TemporaryBalance(m, a)' = TemporaryBalance(m, a)
       \/ \E s \in Session : /\ pc[s] = "commit" /\ pc'[s] = "idle"
                              /\ \/ moved[s]
                                 \/ req[s].op = "settle"]_vars

=============================================================================
