--------------------------- MODULE PeriodsProofs ----------------------------
(***************************************************************************)
(* Closing and reopening for every set of months, accounts, entries and    *)
(* sessions.  Whoever races, a closed month names its closing entry, and   *)
(* (in Revaluation) one closed by somebody alone was revalued: neither     *)
(* depends on what the amounts are.  The amounts come right for whoever    *)
(* nobody disturbs: a close leaves its month at zero, a reopening gives    *)
(* back what the close took, and a closed month moves only by what was     *)
(* under way.  Of Revaluation, two results about figures: what a           *)
(* session computed undisturbed is still what there is to write when it    *)
(* writes it, and an entry converted at one rate leaves no more than       *)
(* rounding to the FX account.                                             *)
(***************************************************************************)
EXTENDS Periods, Sums, Sequences, TLAPS

IsRow(row) ==
  /\ row = [status |-> row.status, month |-> row.month, lines |-> row.lines,
            retained |-> row.retained, closing |-> row.closing, reverses |-> row.reverses]
  /\ row.closing \in BOOLEAN

Shapes ==
  /\ entry = [e \in Entry |-> entry[e]] /\ \A e \in Entry : IsRow(entry[e])
  /\ period = [m \in Month |-> period[m]]
  /\ pc = [s \in Session |-> pc[s]]
  /\ draft = [s \in Session |-> draft[s]] /\ \A s \in Session : IsRow(draft[s])
  /\ req \in [Session -> Request \cup {NoRequest}]

Names(e, m) == /\ e \in Entry
               /\ entry[e].closing /\ entry[e].status = "posted" /\ entry[e].month = m

Named == \A m \in Month : Closed(m) => Names(period[m].closing, m)

\* A closing entry is written settled, so no transition touches it.
ClosingsArePosted == \A e \in Entry : entry[e].closing => entry[e].status = "posted"

\* Which request stands where.
Labels(s) ==
  /\ pc[s] \in {"sum", "period"} => req[s].op = "close"
  /\ pc[s] = "unlock" => req[s].op = "reopen"
  /\ pc[s] = "reverse" => req[s].op \in {"reopen", "reverse"}
  /\ pc[s] = "insert" => ~Transitions(s)
  /\ pc[s] = "lock" => Transitions(s)

\* What a session is about to write: a close its closing entry or nothing, a
\* transition another status for an entry that closes no month.
Ready(s) ==
  /\ draft[s].closing => draft[s].status = "posted" /\ draft[s].month = req[s].month
  /\ req[s].op = "close" => draft[s] = NoDraft \/ draft[s].closing
  /\ pc[s] \in {"rows", "commit"} /\ Transitions(s) =>
       /\ req[s].target \in Entry
       /\ entry[req[s].target].status # "absent" /\ ~entry[req[s].target].closing
       /\ draft[s].status # "absent" /\ ~draft[s].closing

NameInv == /\ Shapes /\ Named /\ ClosingsArePosted
           /\ \A s \in Session : Labels(s) /\ Ready(s)

LEMMA NullRows ==
  /\ IsRow(NoDraft) /\ NoDraft.closing = FALSE /\ NoDraft.status = "absent"
  /\ NoRequest.op = "none"
BY DEF IsRow, NoDraft, NoRequest

LEMMA RequestTypes ==
  ASSUME NEW r \in Request
  PROVE  /\ r.op \in {"post", "close", "reopen", "settle", "archive", "reverse"}
         /\ r.month \in Month
         /\ r.op \in {"settle", "archive"} => r.target \in Entry
BY RequestAssumption, NullAssumption DEF RequestType

LEMMA NameInit == Init => NameInv
<1> SUFFICES ASSUME Init PROVE NameInv
  OBVIOUS
<1>1. Shapes
  BY NullRows DEF Init, Shapes
<1>2. Named /\ ClosingsArePosted
  BY NullRows DEF Init, Named, ClosingsArePosted, Closed, NoPeriod
<1>3. \A s \in Session : Labels(s) /\ Ready(s)
  BY NullRows DEF Init, Labels, Ready, Transitions
<1> QED BY <1>1, <1>2, <1>3 DEF NameInv

\* While nothing is committed, a step has only its own session to answer for.
LEMMA OwnStep ==
  ASSUME NameInv, UNCHANGED <<entry, period>>, NEW s \in Session, NEW label,
         pc' = [pc EXCEPT ![s] = label], Labels(s)', Ready(s)',
         IsRow(draft'[s]), req'[s] \in Request \cup {NoRequest},
         draft' = [draft EXCEPT ![s] = draft'[s]], req' = [req EXCEPT ![s] = req'[s]]
  PROVE  NameInv'
<1>1. Shapes'
  BY DEF NameInv, Shapes
<1>2. Named' /\ ClosingsArePosted'
  BY DEF NameInv, Named, ClosingsArePosted, Closed, Names
<1>3. ASSUME NEW t \in Session, t # s PROVE Labels(t)' /\ Ready(t)'
  <2>1. /\ entry' = entry /\ pc'[t] = pc[t]
        /\ draft'[t] = draft[t] /\ req'[t] = req[t]
    BY <1>3 DEF NameInv, Shapes
  <2> QED BY <2>1 DEF NameInv, Labels, Ready, Transitions
<1> QED BY <1>1, <1>2, <1>3 DEF NameInv

LEMMA RollbackStep ==
  ASSUME NameInv, NEW s \in Session, Rollback(s) PROVE NameInv'
<1>1. /\ UNCHANGED <<entry, period>> /\ pc' = [pc EXCEPT ![s] = "idle"]
      /\ draft' = [draft EXCEPT ![s] = NoDraft] /\ req' = [req EXCEPT ![s] = NoRequest]
  BY DEF Rollback, Finish, Goto
<1>2. pc'[s] = "idle" /\ draft'[s] = NoDraft /\ req'[s] = NoRequest
  BY <1>1 DEF NameInv, Shapes
<1>3. Labels(s)' /\ Ready(s)'
  BY <1>2, NullRows DEF Labels, Ready, Transitions
<1> QED BY <1>1, <1>2, <1>3, NullRows, OwnStep

\* Moving on with the draft and the request as they are.
LEMMA MoveStep ==
  ASSUME NameInv, KeepCommitted, NEW s \in Session, NEW label,
         pc' = [pc EXCEPT ![s] = label], UNCHANGED <<draft, req>>, Labels(s)',
         label \in {"rows", "commit"} => pc[s] \in {"rows", "commit"} \/ ~Transitions(s)
  PROVE  NameInv'
<1>1. pc'[s] = label /\ IsRow(draft[s]) /\ req[s] \in Request \cup {NoRequest}
  BY DEF NameInv, Shapes
<1>2. Ready(s)'
  BY <1>1 DEF NameInv, Ready, Transitions, KeepCommitted
<1>3. draft' = [draft EXCEPT ![s] = draft'[s]] /\ req' = [req EXCEPT ![s] = req'[s]]
  BY DEF NameInv, Shapes
<1> QED BY <1>1, <1>2, <1>3, OwnStep DEF KeepCommitted

\* Taking a new draft for the same request.
LEMMA DraftStep ==
  ASSUME NameInv, KeepCommitted, NEW s \in Session, NEW label, NEW row, IsRow(row),
         pc' = [pc EXCEPT ![s] = label], UNCHANGED req,
         draft' = [draft EXCEPT ![s] = row], Labels(s)', Ready(s)'
  PROVE  NameInv'
<1>1. draft'[s] = row /\ req'[s] \in Request \cup {NoRequest}
  BY DEF NameInv, Shapes
<1>2. req' = [req EXCEPT ![s] = req'[s]]
  BY DEF NameInv, Shapes
<1> QED BY <1>1, <1>2, OwnStep DEF KeepCommitted

LEMMA BeginStep ==
  ASSUME NameInv, NEW s \in Session, Begin(s) PROVE NameInv'
<1>1. PICK r \in Request :
        /\ pc' = [pc EXCEPT ![s] = FirstStep(r)]
        /\ req' = [req EXCEPT ![s] = r]
        /\ draft' = [draft EXCEPT ![s] = IF r.op = "post" THEN EntryFor(r) ELSE NoDraft]
  BY DEF Begin, Goto
<1>2. IsRow(EntryFor(r)) /\ EntryFor(r).closing = FALSE
  BY DEF IsRow, EntryFor
<1>3. /\ pc'[s] = FirstStep(r) /\ req'[s] = r
      /\ draft'[s] = IF r.op = "post" THEN EntryFor(r) ELSE NoDraft
  BY <1>1 DEF NameInv, Shapes
<1>4. /\ IsRow(draft'[s]) /\ draft'[s].closing = FALSE
      /\ r.op # "post" => draft'[s] = NoDraft
  BY <1>2, <1>3, NullRows
<1>5. Labels(s)' /\ Ready(s)'
  BY <1>3, <1>4, RequestTypes DEF Labels, Ready, Transitions, FirstStep
<1>6. KeepCommitted
  BY DEF Begin
<1>7. draft' = [draft EXCEPT ![s] = draft'[s]] /\ req' = [req EXCEPT ![s] = req'[s]]
  BY <1>1, <1>3
<1> QED BY <1>1, <1>3, <1>4, <1>5, <1>6, <1>7, OwnStep DEF KeepCommitted

LEMMA CloseStep ==
  ASSUME NameInv, NEW s \in Session, Close(s) PROVE NameInv'
<1>1. CASE CheckClose(s)
  <2>1. pc' = [pc EXCEPT ![s] = "sum"] /\ req[s].op = "close" /\ KeepCommitted
        /\ UNCHANGED <<draft, req>>
    BY <1>1 DEF CheckClose, Goto
  <2>2. Labels(s)'
    BY <2>1 DEF NameInv, Shapes, Labels, Transitions
  <2> QED BY <2>1, <2>2, MoveStep
<1>2. CASE SumMonth(s)
  <2> DEFINE row == ClosingEntry(req[s].month)
  <2>1. /\ IsRow(row) /\ row.closing = TRUE /\ row.status = "posted"
        /\ row.month = req[s].month
    BY DEF ClosingEntry, IsRow
  <2>2. /\ pc' = [pc EXCEPT ![s] = "insert"] /\ draft' = [draft EXCEPT ![s] = row]
        /\ UNCHANGED req /\ KeepCommitted /\ req[s].op = "close"
    BY <1>2 DEF SumMonth, Goto, NameInv, Labels
  <2> HIDE DEF row
  <2>3. draft'[s] = row /\ pc'[s] = "insert"
    BY <2>2 DEF NameInv, Shapes
  <2>4. Labels(s)' /\ Ready(s)'
    BY <2>1, <2>2, <2>3 DEF Labels, Ready, Transitions
  <2> QED BY <2>1, <2>2, <2>4, DraftStep
<1>3. CASE SumNothing(s)
  <2>1. /\ pc' = [pc EXCEPT ![s] = "period"] /\ UNCHANGED <<draft, req>> /\ KeepCommitted
        /\ req[s].op = "close"
    BY <1>3 DEF SumNothing, Goto, NameInv, Labels
  <2>2. Labels(s)'
    BY <2>1 DEF NameInv, Shapes, Labels, Transitions
  <2> QED BY <2>1, <2>2, MoveStep
<1>4. CASE SumLeavesMonth(s) \/ LockPeriodTaken(s)
  BY <1>4, RollbackStep DEF SumLeavesMonth, LockPeriodTaken
<1>5. CASE LockPeriod(s)
  <2>1. /\ pc' = [pc EXCEPT ![s] = "commit"] /\ UNCHANGED <<draft, req>> /\ KeepCommitted
        /\ req[s].op = "close" /\ ~Transitions(s)
    BY <1>5 DEF LockPeriod, Goto, NameInv, Labels, Transitions
  <2>2. Labels(s)'
    BY <2>1 DEF NameInv, Shapes, Labels, Transitions
  <2> QED BY <2>1, <2>2, MoveStep
<1> QED BY <1>1, <1>2, <1>3, <1>4, <1>5 DEF Close

\* A refused reversal leaves nothing to write, whether or not it commits.
LEMMA ReversalRefusedStep ==
  ASSUME NameInv, NEW s \in Session, ReversalRefused(s) PROVE NameInv'
<1>1. CASE req[s].op = "reopen"
  <2>1. /\ pc' = [pc EXCEPT ![s] = "commit"] /\ draft' = [draft EXCEPT ![s] = NoDraft]
        /\ UNCHANGED req /\ KeepCommitted
    BY <1>1 DEF ReversalRefused, Goto
  <2>2. draft'[s] = NoDraft /\ pc'[s] = "commit"
    BY <2>1 DEF NameInv, Shapes
  <2>3. Labels(s)' /\ Ready(s)'
    BY <1>1, <2>1, <2>2, NullRows DEF Labels, Ready, Transitions
  <2> QED BY <2>1, <2>3, NullRows, DraftStep
<1>2. CASE req[s].op # "reopen"
  BY <1>2, RollbackStep DEF ReversalRefused
<1> QED BY <1>1, <1>2

LEMMA ReopenStep ==
  ASSUME NameInv, NEW s \in Session, Reopen(s) PROVE NameInv'
<1>1. CASE CheckReopen(s)
  <2>1. /\ pc' = [pc EXCEPT ![s] = "unlock"] /\ req[s].op = "reopen" /\ KeepCommitted
        /\ UNCHANGED <<draft, req>>
    BY <1>1 DEF CheckReopen, Goto
  <2>2. Labels(s)'
    BY <2>1 DEF NameInv, Shapes, Labels, Transitions
  <2> QED BY <2>1, <2>2, MoveStep
<1>2. CASE Unlock(s)
  <2>1. /\ pc' = [pc EXCEPT ![s] = "reverse"] /\ req[s].op = "reopen" /\ KeepCommitted
        /\ UNCHANGED <<draft, req>>
    BY <1>2 DEF Unlock, Goto, NameInv, Labels
  <2>2. Labels(s)'
    BY <2>1 DEF NameInv, Shapes, Labels, Transitions
  <2> QED BY <2>1, <2>2, MoveStep
<1>3. CASE PrepareReversal(s)
  <2> DEFINE row == ReversalOf(Original(s), ReversalMonth(s))
  <2>1. IsRow(row) /\ row.closing = FALSE
    BY DEF ReversalOf, IsRow
  <2>2. /\ pc' = [pc EXCEPT ![s] = "insert"] /\ draft' = [draft EXCEPT ![s] = row]
        /\ UNCHANGED req /\ KeepCommitted /\ req[s].op \in {"reopen", "reverse"}
    BY <1>3 DEF PrepareReversal, Goto, NameInv, Labels
  <2> HIDE DEF row
  <2>3. draft'[s] = row /\ pc'[s] = "insert"
    BY <2>2 DEF NameInv, Shapes
  <2>4. Labels(s)' /\ Ready(s)'
    BY <2>1, <2>2, <2>3 DEF Labels, Ready, Transitions
  <2> QED BY <2>1, <2>2, <2>4, DraftStep
<1>4. CASE PrepareRefused(s)
  BY <1>4, ReversalRefusedStep DEF PrepareRefused
<1> QED BY <1>1, <1>2, <1>3, <1>4 DEF Reopen

\* Locking, inserting and taking rows, before anything is committed.
LEMMA WriteStep ==
  ASSUME NameInv, NEW s \in Session,
         InsertEntry(s) \/ InsertRefused(s) \/ LockEntry(s) \/ LockRefused(s) \/ TakeRows(s)
  PROVE  NameInv'
<1>1. CASE InsertEntry(s)
  <2>1. /\ pc' = [pc EXCEPT ![s] = "rows"] /\ UNCHANGED <<draft, req>> /\ KeepCommitted
        /\ ~Transitions(s)
    BY <1>1 DEF InsertEntry, Goto, NameInv, Labels
  <2>2. Labels(s)'
    BY <2>1 DEF NameInv, Shapes, Labels
  <2> QED BY <2>1, <2>2, MoveStep
<1>2. CASE InsertRefused(s)
  BY <1>2, ReversalRefusedStep DEF InsertRefused
<1>3. CASE LockEntry(s)
  <2> DEFINE target == req[s].target
             status == IF req[s].op = "settle" THEN "posted" ELSE "archived"
             row == [entry[target] EXCEPT !.status = status]
  <2>1. /\ pc' = [pc EXCEPT ![s] = "rows"] /\ draft' = [draft EXCEPT ![s] = row]
        /\ UNCHANGED req /\ KeepCommitted /\ entry[target].status = "pending"
        /\ Transitions(s)
    BY <1>3 DEF LockEntry, Goto, NameInv, Labels
  <2>2. target \in Entry
    BY <2>1, RequestTypes, NullRows DEF NameInv, Shapes, Transitions
  <2>3. entry[target].closing = FALSE
    BY <2>1, <2>2 DEF NameInv, ClosingsArePosted, Shapes, IsRow
  <2>4. /\ row = [status |-> status, month |-> entry[target].month,
                  lines |-> entry[target].lines, retained |-> entry[target].retained,
                  closing |-> entry[target].closing, reverses |-> entry[target].reverses]
    BY <2>2 DEF NameInv, Shapes, IsRow
  <2>5. IsRow(row) /\ row.closing = FALSE /\ row.status # "absent"
    BY <2>3, <2>4 DEF IsRow
  <2> HIDE DEF row
  <2>6. draft'[s] = row /\ pc'[s] = "rows"
    BY <2>1 DEF NameInv, Shapes
  <2>7. Labels(s)' /\ Ready(s)'
    BY <2>1, <2>2, <2>3, <2>5, <2>6 DEF Labels, Ready, Transitions, KeepCommitted
  <2> QED BY <2>1, <2>5, <2>7, DraftStep
<1>4. CASE LockRefused(s)
  BY <1>4, RollbackStep DEF LockRefused
<1>5. CASE TakeRows(s)
  <2> DEFINE next == IF req[s].op = "close" THEN "period" ELSE "commit"
  <2>1. /\ pc' = [pc EXCEPT ![s] = next] /\ UNCHANGED <<draft, req>>
        /\ KeepCommitted /\ pc[s] = "rows"
    BY <1>5 DEF TakeRows, Goto
  <2>2. Labels(s)'
    BY <2>1 DEF NameInv, Shapes, Labels, Transitions
  <2> HIDE DEF next
  <2> QED BY <2>1, <2>2, MoveStep
<1> QED BY <1>1, <1>2, <1>3, <1>4, <1>5

\* The one step that changes the books: nobody's named closing entry is
\* overwritten, and a month closed here names the entry written here.
LEMMA CommitStep ==
  ASSUME NameInv, NEW s \in Session, Commit(s) PROVE NameInv'
<1>1. PICK e \in Written(s) :
        /\ entry' = IF e = NoEntry THEN entry ELSE [entry EXCEPT ![e] = draft[s]]
        /\ period' = [period EXCEPT ![req[s].month] = PeriodAfter(s, e)]
  BY DEF Commit
<1>2. /\ pc[s] = "commit" /\ pc' = [pc EXCEPT ![s] = "idle"]
      /\ draft' = [draft EXCEPT ![s] = NoDraft] /\ req' = [req EXCEPT ![s] = NoRequest]
  BY DEF Commit, Finish, Goto
<1>3. /\ draft[s].closing => draft[s].status = "posted" /\ draft[s].month = req[s].month
      /\ IsRow(draft[s]) /\ draft[s].closing \in BOOLEAN
      /\ Transitions(s) => /\ req[s].target \in Entry
                           /\ entry[req[s].target].status # "absent"
                           /\ ~entry[req[s].target].closing
                           /\ draft[s].status # "absent" /\ ~draft[s].closing
  BY <1>2 DEF NameInv, Ready, Shapes, IsRow
\* What is written: nothing, a fresh entry, or another status of one that
\* closes no month.
<1>4. \/ e = NoEntry
      \/ e \in Entry /\ entry[e].status = "absent" /\ draft[s] # NoDraft
      \/ e \in Entry /\ ~entry[e].closing /\ ~draft[s].closing /\ draft[s].status # "absent"
  BY <1>1, <1>3 DEF Written
<1>5. /\ \A f \in Entry : f # e => entry'[f] = entry[f]
      /\ e \in Entry => entry'[e] = draft[s]
      /\ entry' = [f \in Entry |-> entry'[f]]
  BY <1>1, NullAssumption DEF NameInv, Shapes
<1>6. Shapes'
  <2>1. \A f \in Entry : IsRow(entry'[f])
    BY <1>3, <1>5 DEF NameInv, Shapes
  <2>2. period' = [m \in Month |-> period'[m]]
    BY <1>1 DEF NameInv, Shapes
  <2>3. /\ pc' = [t \in Session |-> pc'[t]]
        /\ draft' = [t \in Session |-> draft'[t]] /\ \A t \in Session : IsRow(draft'[t])
        /\ req' \in [Session -> Request \cup {NoRequest}]
    BY <1>2, NullRows DEF NameInv, Shapes
  <2> QED BY <1>5, <2>1, <2>2, <2>3 DEF Shapes
<1>7. ClosingsArePosted'
  <2> SUFFICES ASSUME NEW f \in Entry, entry'[f].closing PROVE entry'[f].status = "posted"
    BY DEF ClosingsArePosted
  <2>1. CASE f = e
    BY <1>3, <1>5, <2>1
  <2>2. CASE f # e
    BY <1>5, <2>2 DEF NameInv, ClosingsArePosted
  <2> QED BY <2>1, <2>2
<1>8. Named'
  <2> SUFFICES ASSUME NEW m \in Month, Closed(m)' PROVE Names(period[m].closing, m)'
    BY DEF Named
  <2>1. CASE period'[m] = period[m]
    <3>1. Names(period[m].closing, m)
      BY <2>1 DEF NameInv, Named, Closed
    <3>2. period[m].closing # e
      BY <1>4, <3>1, NullAssumption DEF Names, NameInv, ClosingsArePosted
    <3> QED BY <1>5, <2>1, <3>1, <3>2 DEF Names
  <2>2. CASE period'[m] # period[m]
    <3>1. m = req[s].month /\ period'[m] = PeriodAfter(s, e)
      BY <1>1, <2>2 DEF NameInv, Shapes
    <3>2. /\ req[s].op = "close" /\ e # NoEntry
          /\ period'[m] = [status |-> "closed", closing |-> e]
      BY <2>2, <3>1 DEF PeriodAfter, OpenPeriod, Closed
    <3>3. e \in Entry /\ draft[s] # NoDraft
      BY <1>1, <1>4, <3>2 DEF Written
    <3>4. draft[s].closing
      BY <3>2, <3>3 DEF NameInv, Ready
    <3> QED BY <1>3, <1>5, <3>1, <3>2, <3>3, <3>4 DEF Names
  <2> QED BY <2>1, <2>2
<1>9. ASSUME NEW t \in Session PROVE Labels(t)' /\ Ready(t)'
  <2>1. CASE t = s
    <3>1. pc'[t] = "idle" /\ draft'[t] = NoDraft /\ req'[t] = NoRequest
      BY <1>2, <2>1 DEF NameInv, Shapes
    <3> QED BY <3>1, NullRows DEF Labels, Ready, Transitions
  <2>2. CASE t # s
    <3>1. pc'[t] = pc[t] /\ draft'[t] = draft[t] /\ req'[t] = req[t]
      BY <1>2, <2>2 DEF NameInv, Shapes
    <3>2. \A f \in Entry : entry[f].status # "absent" /\ ~entry[f].closing =>
                             entry'[f].status # "absent" /\ ~entry'[f].closing
      BY <1>4, <1>5, NullAssumption
    <3>3. Labels(t) /\ Ready(t)
      BY DEF NameInv
    <3> QED BY <3>1, <3>2, <3>3 DEF Labels, Ready, Transitions
  <2> QED BY <2>1, <2>2
<1> QED BY <1>6, <1>7, <1>8, <1>9 DEF NameInv

LEMMA NameStep == NameInv /\ [Next]_vars => NameInv'
<1> SUFFICES ASSUME NameInv, [Next]_vars PROVE NameInv'
  OBVIOUS
<1>1. ASSUME NEW s \in Session,
             CheckRefused(s) \/ DeadlockVictim(s) \/ Crash(s) PROVE NameInv'
  BY <1>1, RollbackStep DEF CheckRefused, DeadlockVictim, Crash
<1>2. ASSUME NEW s \in Session, Write(s) PROVE NameInv'
  BY <1>2, WriteStep, CommitStep DEF Write
<1>3. CASE UNCHANGED vars
  <2>1. \A s \in Session : Labels(s)' /\ Ready(s)'
    BY <1>3 DEF vars, sessionVars, NameInv, Labels, Ready, Transitions
  <2>2. Shapes'
    BY <1>3 DEF vars, sessionVars, NameInv, Shapes
  <2>3. Named' /\ ClosingsArePosted'
    BY <1>3 DEF vars, NameInv, Named, ClosingsArePosted, Closed, Names
  <2> QED BY <2>1, <2>2, <2>3 DEF NameInv
<1> QED BY <1>1, <1>2, <1>3, BeginStep, CloseStep, ReopenStep DEF Next

\* A closed month names a settled closing entry dated in it, whoever closes,
\* reopens, settles or reverses beside it (accounting_periods_closed_check).
THEOREM ClosesAreNamed == Spec => []ClosedMonthsNameTheirClose
<1>1. NameInv => ClosedMonthsNameTheirClose
  BY NullAssumption DEF NameInv, Named, Names, ClosedMonthsNameTheirClose
<1> QED BY <1>1, NameInit, NameStep, PTL DEF Spec

-----------------------------------------------------------------------------
(***************************************************************************)
(* The figures.  Whatever rivals did to the books before, a session is     *)
(* judged by what it found: as long as nobody else commits (`moved`), what *)
(* it decided and the entry it drafted are still right.  A commit disturbs *)
(* every other session under way, so a plan needs to survive only steps    *)
(* that commit nothing.                                                    *)
(***************************************************************************)
Booked == {e \in Entry : entry[e].status # "absent"}

Figured(row) ==
  /\ row.lines \in [Temporary -> Int] /\ row.retained \in Int
  /\ row.month \in Month /\ row.reverses \in Entry \cup {NoEntry} /\ row.closing \in BOOLEAN

Books ==
  /\ entry = [e \in Entry |-> entry[e]]
  /\ IsFiniteSet(Booked)
  /\ \A e \in Entry : Figured(entry[e])

\* What a session works on, disturbed or not.
Works(s) ==
  /\ Figured(draft[s])
  /\ pc[s] # "idle" => req[s] \in Request
  /\ req[s].op = "reopen" /\ pc[s] \in {"unlock", "reverse"} => seen[s].closing \in Entry

\* What an undisturbed session has decided, and is about to write.
Plan(s) ==
  LET m == req[s].month
      c == period[m].closing
  IN
  /\ req[s].op = "close" =>
       /\ pc[s] \in {"sum", "insert", "rows", "period", "commit"} => ~Closed(m) /\ ~EarlierOpen(m)
       /\ pc[s] \in {"check", "sum"} => draft[s] = NoDraft
       /\ pc[s] \in {"insert", "rows", "period", "commit"} => draft[s] \in {NoDraft, ClosingEntry(m)}
  /\ req[s].op = "reopen" =>
       /\ pc[s] \in {"unlock", "reverse", "insert", "rows", "commit"} => Closed(m)
       /\ pc[s] \in {"unlock", "reverse"} => seen[s].closing = c
       /\ pc[s] \in {"insert", "rows"} => draft[s] = ReversalOf(c, m)
       /\ pc[s] = "commit" => \/ draft[s] = ReversalOf(c, m)
                              \/ Reversals(c) # {} /\ draft[s] = NoDraft
  /\ req[s].op \in {"post", "reverse"} /\ pc[s] \in {"rows", "commit"} => ~Closed(draft[s].month)
  /\ req[s].op = "archive" /\ pc[s] \in {"rows", "commit"} =>
       draft[s].status = "archived" /\ entry[req[s].target].status = "pending"

FigureInv ==
  /\ Books
  /\ seen = [s \in Session |-> seen[s]] /\ moved \in [Session -> BOOLEAN]
  /\ \A s \in Session : Works(s) /\ (~moved[s] => Plan(s))

LEMMA NullFigures == Figured(NoDraft) /\ NoDraft.status = "absent" /\ NoDraft.reverses = NoEntry
                     /\ NoDraft.closing = FALSE
BY MonthAssumption DEF Figured, NoDraft, NoLines

LEMMA FigureInit == Init => FigureInv
<1> SUFFICES ASSUME Init PROVE FigureInv
  OBVIOUS
<1>1. Booked = {} /\ \A e \in Entry : entry[e] = NoDraft
  BY NullFigures DEF Init, Booked
<1>2. Books
  BY <1>1, FS_EmptySet, NullFigures DEF Init, Books
<1>3. \A s \in Session : Works(s) /\ Plan(s)
  BY NullRows, NullFigures DEF Init, Plan, Works
<1> QED BY <1>2, <1>3 DEF Init, FigureInv

\* The figures of a month.
LEMMA MonthFigures ==
  ASSUME Books, NEW m
  PROVE  /\ IsFiniteSet(PostedIn(m)) /\ PostedIn(m) \subseteq Entry
         /\ \A a \in Temporary : TemporaryBalance(m, a) \in Int
<1>1. PostedIn(m) \subseteq Booked /\ PostedIn(m) \subseteq Entry
  BY DEF PostedIn, InMonth, Booked
<1>2. IsFiniteSet(PostedIn(m))
  BY <1>1, FS_Subset DEF Books
<1>3. ASSUME NEW a \in Temporary PROVE TemporaryBalance(m, a) \in Int
  <2> DEFINE S == PostedIn(m)
             f == [e \in Entry |-> entry[e].lines[a]]
  <2>1. IsFiniteSet(S) /\ \A e \in S : f[e] \in Int
    BY <1>1, <1>2 DEF Books, Figured
  <2>2. SumFunctionOnSet(f, S) \in Int
    <3> HIDE DEF S, f
    <3> QED BY ONLY <2>1, SumIsInt
  <2> QED BY <2>2 DEF TemporaryBalance
<1> QED BY <1>1, <1>2, <1>3

LEMMA ClosingFigures ==
  ASSUME Books, NEW m \in Month
  PROVE  LET d == ClosingEntry(m)
         IN  /\ Figured(d) /\ d.status = "posted" /\ d.month = m /\ d.closing
             /\ d.reverses = NoEntry
             /\ \A a \in Temporary : d.lines[a] = -TemporaryBalance(m, a)
<1> DEFINE back == [a \in Temporary |-> -TemporaryBalance(m, a)]
<1>1. \A a \in Temporary : back[a] \in Int
  <2>1. \A a \in Temporary : TemporaryBalance(m, a) \in Int
    BY MonthFigures
  <2> QED BY <2>1
<1>2. IsFiniteSet(Temporary)
  BY AccountAssumption
<1>3. Total(back) \in Int
  <2> HIDE DEF back
  <2>1. SumFunctionOnSet(back, Temporary) \in Int
    BY ONLY <1>1, <1>2, SumIsInt
  <2> QED BY <2>1 DEF Total
<1> QED BY <1>1, <1>3 DEF ClosingEntry, Figured

\* A fresh entry adds its lines to its month.
LEMMA MonthGains ==
  ASSUME Books, NEW e \in Entry, entry[e].status = "absent", NEW d, Figured(d),
         d.status = "posted", entry' = [entry EXCEPT ![e] = d], NEW m, NEW a \in Temporary
  PROVE  TemporaryBalance(m, a)'
           = TemporaryBalance(m, a) + IF d.month = m THEN d.lines[a] ELSE 0
<1> DEFINE S == PostedIn(m)
           T == PostedIn(m)'
           f == [x \in Entry |-> entry[x].lines[a]]
           g == [x \in Entry |-> entry'[x].lines[a]]
<1>1. \A x \in Entry : entry'[x] = IF x = e THEN d ELSE entry[x]
  BY DEF Books
<1>2. e \notin S /\ S \subseteq Entry /\ IsFiniteSet(S)
  BY MonthFigures DEF PostedIn
<1>3. \A x \in S : g[x] = f[x] /\ f[x] \in Int
  BY <1>1, <1>2 DEF Books, Figured
<1>4. g[e] = d.lines[a] /\ d.lines[a] \in Int
  BY <1>1 DEF Figured
<1>5. TemporaryBalance(m, a) = SumFunctionOnSet(f, S)
      /\ TemporaryBalance(m, a)' = SumFunctionOnSet(g, T)
  BY DEF TemporaryBalance
<1>6. SumFunctionOnSet(f, S) \in Int
  BY <1>5, MonthFigures
<1>7. CASE d.month = m
  <2>1. T = S \cup {e}
    BY <1>1, <1>7 DEF PostedIn, InMonth
  <2>2. SumFunctionOnSet(g, S \cup {e}) = SumFunctionOnSet(f, S) + g[e]
    <3>1. /\ IsFiniteSet(S) /\ e \notin S
          /\ (\A y \in S : f[y] \in Int /\ g[y] = f[y]) /\ g[e] \in Int
      BY <1>2, <1>3, <1>4
    <3> HIDE DEF S, f, g
    <3> QED BY ONLY <3>1, SumJoins
  <2> QED BY <1>4, <1>5, <1>7, <2>1, <2>2
<1>8. CASE d.month # m
  <2>1. T = S
    BY <1>1, <1>8 DEF PostedIn, InMonth
  <2>2. SumFunctionOnSet(g, S) = SumFunctionOnSet(f, S)
    <3>1. IsFiniteSet(S) /\ \A x \in S : g[x] = f[x]
      BY <1>2, <1>3
    <3> HIDE DEF S, f, g
    <3> QED BY ONLY <3>1, SumsAgree
  <2> QED BY <1>5, <1>6, <1>8, <2>1, <2>2
<1> QED BY <1>7, <1>8

LEMMA ReversalFigures ==
  ASSUME NEW c \in Entry, NEW m \in Month, Figured(entry[c])
  PROVE  LET d == ReversalOf(c, m)
         IN  /\ Figured(d) /\ d.status = "posted" /\ d.month = m /\ d.closing = FALSE
             /\ d.reverses = c /\ d.retained = -entry[c].retained
<1> DEFINE back == [a \in Temporary |-> -entry[c].lines[a]]
<1>1. \A a \in Temporary : entry[c].lines[a] \in Int
  BY DEF Figured
<1>2. back \in [Temporary -> Int]
  BY <1>1
<1>3. -entry[c].retained \in Int
  BY DEF Figured
<1> HIDE DEF back
<1>4. ReversalOf(c, m).lines = back
  BY DEF ReversalOf, back
<1> QED BY <1>2, <1>3, <1>4 DEF ReversalOf, Figured

\* An entry that is not settled adds nothing, before or after.
LEMMA MonthStands ==
  ASSUME Books, NEW e \in Entry, entry[e].status # "posted", NEW d,
         d.status # "posted", entry' = [entry EXCEPT ![e] = d], NEW m, NEW a \in Temporary
  PROVE  TemporaryBalance(m, a)' = TemporaryBalance(m, a)
<1> DEFINE S == PostedIn(m)
           T == PostedIn(m)'
           f == [x \in Entry |-> entry[x].lines[a]]
           g == [x \in Entry |-> entry'[x].lines[a]]
<1>1. \A x \in Entry : entry'[x] = IF x = e THEN d ELSE entry[x]
  BY DEF Books
<1>2. e \notin S /\ S \subseteq Entry /\ IsFiniteSet(S)
  BY MonthFigures DEF PostedIn
<1>3. T = S
  BY <1>1, <1>2 DEF PostedIn, InMonth
<1>4. SumFunctionOnSet(g, S) = SumFunctionOnSet(f, S)
  <2>1. IsFiniteSet(S) /\ \A x \in S : g[x] = f[x]
    BY <1>1, <1>2
  <2> HIDE DEF S, f, g
  <2> QED BY ONLY <2>1, SumsAgree
<1> QED BY <1>3, <1>4 DEF TemporaryBalance

\* What the sessions other than one are about.
Elsewhere(s) == \A t \in Session : t # s =>
  /\ pc'[t] = pc[t] /\ req'[t] = req[t] /\ seen'[t] = seen[t]
  /\ draft'[t] = draft[t] /\ moved'[t] = moved[t]

\* The closing entry and a reversal depend on the books alone.
LEMMA DraftsStand ==
  ASSUME UNCHANGED <<entry, period>>
  PROVE  /\ \A m, e : ClosingEntry(m)' = ClosingEntry(m) /\ ReversalOf(e, m)' = ReversalOf(e, m)
         /\ \A m : EarlierOpen(m)' = EarlierOpen(m) /\ Closed(m)' = Closed(m)
         /\ \A e : Reversals(e)' = Reversals(e)
BY DEF ClosingEntry, ReversalOf, TemporaryBalance, PostedIn, InMonth, EarlierOpen, Closed, Reversals

\* While nothing is committed, a session has only its own plan to answer for.
LEMMA FigureKeeps ==
  ASSUME FigureInv, UNCHANGED <<entry, period>>, NEW s \in Session, Elsewhere(s),
         seen' = [t \in Session |-> seen'[t]], moved' \in [Session -> BOOLEAN],
         Works(s)', ~moved'[s] => Plan(s)'
  PROVE  FigureInv'
<1>1. Books'
  BY DEF FigureInv, Books, Booked
<1>2. ASSUME NEW t \in Session, t # s PROVE Works(t)' /\ (~moved'[t] => Plan(t)')
  <2>1. /\ pc'[t] = pc[t] /\ req'[t] = req[t] /\ seen'[t] = seen[t]
        /\ draft'[t] = draft[t] /\ moved'[t] = moved[t]
    BY <1>2 DEF Elsewhere
  <2>2. Works(t) /\ (~moved[t] => Plan(t))
    BY DEF FigureInv
  <2>3. Works(t)'
    BY <2>1, <2>2 DEF Works, Figured
  <2>4. Plan(t) => Plan(t)'
    BY <2>1, DraftsStand DEF Plan
  <2> QED BY <2>1, <2>2, <2>3, <2>4
<1> QED BY <1>1, <1>2 DEF FigureInv

\* A step that commits nothing and stays with its request.
Steps(s, label) ==
  /\ UNCHANGED <<entry, period, moved, req>> /\ pc'[s] = label /\ Elsewhere(s)
  /\ seen' = [t \in Session |-> seen'[t]]

LEMMA StepsOn ==
  ASSUME NameInv, FigureInv, NEW s \in Session, NEW label, Goto(s, label), KeepCommitted,
         UNCHANGED req,
         UNCHANGED draft \/ \E row : draft' = [draft EXCEPT ![s] = row],
         UNCHANGED seen \/ \E row : seen' = [seen EXCEPT ![s] = row]
  PROVE  Steps(s, label)
<1>1. pc'[s] = label /\ \A t \in Session : t # s => pc'[t] = pc[t]
  BY DEF Goto, NameInv, Shapes
<1>2. \A t \in Session : t # s => draft'[t] = draft[t]
  BY DEF NameInv, Shapes
<1>3. seen' = [t \in Session |-> seen'[t]] /\ \A t \in Session : t # s => seen'[t] = seen[t]
  BY DEF FigureInv
<1> QED BY <1>1, <1>2, <1>3 DEF Steps, Elsewhere, KeepCommitted

LEMMA FigureSteps ==
  ASSUME FigureInv, NEW s \in Session, NEW label, Steps(s, label), Works(s)',
         ~moved[s] => Plan(s)'
  PROVE  FigureInv'
<1>1. moved' = moved /\ UNCHANGED <<entry, period>> /\ Elsewhere(s)
      /\ seen' = [t \in Session |-> seen'[t]]
  BY DEF Steps
<1>2. moved' \in [Session -> BOOLEAN]
  BY <1>1 DEF FigureInv
<1> QED BY <1>1, <1>2, FigureKeeps

\* A session that has ended plans nothing.
LEMMA Unplanned ==
  ASSUME NameInv, NEW s \in Session, Finish(s)
  PROVE  Plan(s)' /\ Works(s)'
<1>1. pc'[s] = "idle" /\ req'[s] = NoRequest /\ draft'[s] = NoDraft
  BY DEF Finish, Goto, NameInv, Shapes
<1> QED BY <1>1, NullRows, NullFigures DEF Plan, Works, Figured

LEMMA Ended ==
  ASSUME NameInv, FigureInv, NEW s \in Session, Finish(s)
  PROVE  /\ seen' = [t \in Session |-> seen'[t]]
         /\ \A t \in Session : t # s =>
              pc'[t] = pc[t] /\ req'[t] = req[t] /\ seen'[t] = seen[t] /\ draft'[t] = draft[t]
BY DEF Finish, Goto, NameInv, Shapes, FigureInv

LEMMA FigureRolls ==
  ASSUME NameInv, FigureInv, NEW s \in Session, Rollback(s)
  PROVE  FigureInv'
<1>1. Finish(s) /\ UNCHANGED <<entry, period>> /\ moved' = [moved EXCEPT ![s] = FALSE]
  BY DEF Rollback
<1>2. moved' \in [Session -> BOOLEAN] /\ \A t \in Session : t # s => moved'[t] = moved[t]
  BY <1>1 DEF FigureInv
<1>3. Elsewhere(s) /\ seen' = [t \in Session |-> seen'[t]]
  BY <1>1, <1>2, Ended DEF Elsewhere
<1> QED BY <1>1, <1>2, <1>3, Unplanned, FigureKeeps

LEMMA RequestRows ==
  ASSUME NEW r \in Request
  PROVE  /\ r.op \in {"post", "close", "reopen", "settle", "archive", "reverse"}
         /\ r.month \in Month /\ r.lines \in [Temporary -> Int] /\ r.status \in {"pending", "posted"}
         /\ r.op = "reverse" => r.target \in Entry
BY RequestAssumption, NullAssumption DEF RequestType

LEMMA FigureBegins ==
  ASSUME NameInv, FigureInv, NEW s \in Session, Begin(s)
  PROVE  FigureInv'
<1>1. PICK r \in Request :
        /\ Goto(s, FirstStep(r)) /\ req' = [req EXCEPT ![s] = r]
        /\ draft' = [draft EXCEPT ![s] = IF r.op = "post" THEN EntryFor(r) ELSE NoDraft]
  BY DEF Begin
<1>2. /\ pc'[s] = FirstStep(r) /\ req'[s] = r
      /\ draft'[s] = IF r.op = "post" THEN EntryFor(r) ELSE NoDraft
      /\ \A t \in Session : t # s => pc'[t] = pc[t] /\ req'[t] = req[t] /\ draft'[t] = draft[t]
  BY <1>1 DEF Goto, NameInv, Shapes
<1>3. UNCHANGED <<entry, period, seen, moved>>
  BY DEF Begin, KeepCommitted
<1>4. Figured(EntryFor(r))
  BY RequestRows DEF Figured, EntryFor
<1>5. Works(s)'
  <2>1. Figured(draft'[s])
    BY <1>2, <1>4, NullFigures
  <2> QED BY <1>2, <2>1, RequestRows DEF Works, FirstStep, Figured
<1>6. Plan(s)'
  BY <1>2, RequestRows DEF Plan, FirstStep
<1>7. Elsewhere(s) /\ moved' \in [Session -> BOOLEAN] /\ seen' = [t \in Session |-> seen'[t]]
  BY <1>2, <1>3 DEF Elsewhere, FigureInv
<1> QED BY <1>3, <1>5, <1>6, <1>7, FigureKeeps

LEMMA FigureCloses ==
  ASSUME NameInv, FigureInv, NEW s \in Session, Close(s)
  PROVE  FigureInv'
<1> DEFINE m == req[s].month
<1>1. Labels(s) /\ Works(s) /\ (~moved[s] => Plan(s))
  BY DEF NameInv, FigureInv
<1>2. CASE CheckClose(s)
  <2>1. Steps(s, "sum") /\ draft'[s] = draft[s] /\ pc[s] = "check"
        /\ req[s].op = "close" /\ ~Closed(m) /\ ~EarlierOpen(m)
    BY <1>2, StepsOn DEF CheckClose, MayClose, Closed
  <2>2. Works(s)'
    BY <1>1, <2>1 DEF Works, Steps, Figured
  <2>3. ~moved[s] => Plan(s)'
    BY <1>1, <2>1, DraftsStand DEF Plan, Steps
  <2> QED BY <2>1, <2>2, <2>3, FigureSteps
<1>3. CASE SumMonth(s)
  <2>1. Steps(s, "insert") /\ draft' = [draft EXCEPT ![s] = ClosingEntry(m)] /\ pc[s] = "sum"
        /\ req[s].op = "close"
    BY <1>1, <1>3, StepsOn DEF SumMonth, Labels
  <2>2. draft'[s] = ClosingEntry(m)
    BY <2>1 DEF NameInv, Shapes
  <2>3. m \in Month
    BY <1>1, <2>1, RequestRows DEF Works
  <2>4. Figured(ClosingEntry(m))
    BY <2>3, ClosingFigures DEF FigureInv
  <2>5. Works(s)'
    BY <1>1, <2>1, <2>2, <2>4 DEF Works, Steps, Figured
  <2>6. ~moved[s] => Plan(s)'
    BY <1>1, <2>1, <2>2, DraftsStand DEF Plan, Steps
  <2> QED BY <2>1, <2>5, <2>6, FigureSteps
<1>4. CASE SumNothing(s) \/ LockPeriod(s)
  <2>1. PICK label \in {"period", "commit"} :
          /\ Steps(s, label) /\ draft'[s] = draft[s] /\ pc[s] \in {"sum", "period"}
          /\ req[s].op = "close"
    BY <1>1, <1>4, StepsOn DEF SumNothing, LockPeriod, Labels
  <2>2. Works(s)'
    BY <1>1, <2>1 DEF Works, Steps, Figured
  <2>3. ~moved[s] => Plan(s)'
    BY <1>1, <2>1, DraftsStand DEF Plan, Steps
  <2> QED BY <2>1, <2>2, <2>3, FigureSteps
<1>5. CASE SumLeavesMonth(s) \/ LockPeriodTaken(s)
  BY <1>5, FigureRolls DEF SumLeavesMonth, LockPeriodTaken
<1> QED BY <1>2, <1>3, <1>4, <1>5 DEF Close

\* A refused reversal ends a session, or leaves a reopening nothing to write
\* because the closing entry was reversed before.
LEMMA FigureRefused ==
  ASSUME NameInv, FigureInv, NEW s \in Session, ReversalRefused(s),
         pc[s] \in {"reverse", "insert"},
         req[s].op = "reopen" /\ ~moved[s] =>
           Closed(req[s].month) /\ Reversals(period[req[s].month].closing) # {}
  PROVE  FigureInv'
<1>1. CASE req[s].op = "reopen"
  <2>1. Steps(s, "commit") /\ draft' = [draft EXCEPT ![s] = NoDraft]
    BY <1>1, StepsOn DEF ReversalRefused
  <2>2. draft'[s] = NoDraft
    BY <2>1 DEF NameInv, Shapes
  <2>3. Works(s)
    BY DEF FigureInv
  <2>4. Works(s)'
    BY <2>1, <2>2, <2>3, NullFigures DEF Works, Steps, Figured
  <2>5. ~moved[s] => Plan(s)'
    BY <1>1, <2>1, <2>2, DraftsStand DEF Plan, Steps
  <2> QED BY <2>1, <2>4, <2>5, FigureSteps
<1>2. CASE req[s].op # "reopen"
  BY <1>2, FigureRolls DEF ReversalRefused
<1> QED BY <1>1, <1>2

LEMMA FigureReopens ==
  ASSUME NameInv, FigureInv, NEW s \in Session, Reopen(s)
  PROVE  FigureInv'
<1> DEFINE m == req[s].month
           c == period[m].closing
<1>1. Labels(s) /\ Works(s) /\ (~moved[s] => Plan(s))
  BY DEF NameInv, FigureInv
<1>2. CASE CheckReopen(s)
  <2>1. Steps(s, "unlock") /\ draft'[s] = draft[s] /\ pc[s] = "check"
        /\ req[s].op = "reopen" /\ Closed(m) /\ seen' = [seen EXCEPT ![s] = period[m]]
    BY <1>2, StepsOn DEF CheckReopen, Closed
  <2>2. seen'[s] = period[m]
    BY <2>1 DEF FigureInv
  <2>3. c \in Entry
    <3>1. m \in Month
      BY <1>1, <2>1, RequestRows DEF Works
    <3> QED BY <2>1, <3>1 DEF NameInv, Named, Names
  <2>4. Works(s)'
    BY <1>1, <2>1, <2>2, <2>3 DEF Works, Steps, Figured
  <2>5. ~moved[s] => Plan(s)'
    BY <1>1, <2>1, <2>2, DraftsStand DEF Plan, Steps
  <2> QED BY <2>1, <2>4, <2>5, FigureSteps
<1>3. CASE Unlock(s)
  <2>1. Steps(s, "reverse") /\ draft'[s] = draft[s] /\ seen'[s] = seen[s] /\ pc[s] = "unlock"
        /\ req[s].op = "reopen"
    BY <1>1, <1>3, StepsOn DEF Unlock, Labels
  <2>2. Works(s)'
    BY <1>1, <2>1 DEF Works, Steps, Figured
  <2>3. ~moved[s] => Plan(s)'
    BY <1>1, <2>1, DraftsStand DEF Plan, Steps
  <2> QED BY <2>1, <2>2, <2>3, FigureSteps
<1>4. ASSUME pc[s] = "reverse"
      PROVE  /\ req[s].op \in {"reopen", "reverse"} /\ m \in Month
             /\ Original(s) \in Entry /\ ReversalMonth(s) \in Month
             /\ req[s].op = "reopen" /\ ~moved[s] =>
                  Closed(m) /\ Original(s) = c /\ ReversalMonth(s) = m
  <2>1. req[s] \in Request /\ req[s].op \in {"reopen", "reverse"}
    BY <1>1, <1>4 DEF Works, Labels
  <2>2. m \in Month /\ (req[s].op = "reverse" => req[s].target \in Entry)
    BY <2>1, RequestRows
  <2>3. req[s].op = "reopen" => seen[s].closing \in Entry
    BY <1>1, <1>4 DEF Works
  <2>4. req[s].op = "reopen" /\ ~moved[s] => Closed(m) /\ seen[s].closing = c
    BY <1>1, <1>4 DEF Plan
  <2> QED BY <2>1, <2>2, <2>3, <2>4, MonthAssumption DEF Original, ReversalMonth
<1>5. CASE PrepareReversal(s)
  <2> DEFINE row == ReversalOf(Original(s), ReversalMonth(s))
  <2>1. Steps(s, "insert") /\ draft' = [draft EXCEPT ![s] = row] /\ pc[s] = "reverse"
    BY <1>5, StepsOn DEF PrepareReversal
  <2>2. draft'[s] = row
    BY <2>1 DEF NameInv, Shapes
  <2>3. Figured(row)
    BY <1>4, <2>1, ReversalFigures DEF FigureInv, Books
  <2>4. Works(s)'
    <3> HIDE DEF row
    <3> QED BY <1>1, <2>1, <2>2, <2>3 DEF Works, Steps, Figured
  <2>5. req[s].op = "reopen" /\ ~moved[s] => Closed(m) /\ row = ReversalOf(c, m)
    BY <1>4, <2>1
  <2>6. ~moved[s] => Plan(s)'
    <3> HIDE DEF row
    <3> QED BY <1>1, <1>4, <2>1, <2>2, <2>5, DraftsStand DEF Plan, Steps
  <2> QED BY <2>1, <2>4, <2>6, FigureSteps
<1>6. CASE PrepareRefused(s)
  <2>1. pc[s] = "reverse" /\ ~Reversible(Original(s)) /\ ReversalRefused(s)
    BY <1>6 DEF PrepareRefused
  <2>2. req[s].op = "reopen" /\ ~moved[s] => Closed(m) /\ Reversals(c) # {}
    <3> SUFFICES ASSUME req[s].op = "reopen", ~moved[s] PROVE Closed(m) /\ Reversals(c) # {}
      OBVIOUS
    <3>1. Closed(m) /\ Original(s) = c /\ m \in Month
      BY <1>4, <2>1
    <3>2. entry[c].status = "posted"
      BY <3>1 DEF NameInv, Named, Names
    <3> QED BY <2>1, <3>1, <3>2 DEF Reversible
  <2> QED BY <2>1, <2>2, FigureRefused
<1> QED BY <1>2, <1>3, <1>5, <1>6 DEF Reopen

LEMMA FigureWrites ==
  ASSUME NameInv, FigureInv, NEW s \in Session,
         InsertEntry(s) \/ InsertRefused(s) \/ LockEntry(s) \/ LockRefused(s) \/ TakeRows(s)
  PROVE  FigureInv'
<1> DEFINE m == req[s].month
           c == period[m].closing
<1>1. Labels(s) /\ Works(s) /\ (~moved[s] => Plan(s))
  BY DEF NameInv, FigureInv
<1>2. CASE InsertEntry(s)
  <2>1. Steps(s, "rows") /\ draft'[s] = draft[s] /\ pc[s] = "insert" /\ InsertAllowed(s)
    BY <1>2, StepsOn DEF InsertEntry
  <2>2. Works(s)'
    BY <1>1, <2>1 DEF Works, Steps, Figured
  <2>3. req[s].op \in {"post", "reverse"} => ~Closed(draft[s].month)
    BY <2>1 DEF InsertAllowed, HoldsPeriod, Closed
  <2>4. req[s].op # "archive"
    BY <1>1, <2>1 DEF Labels, Transitions
  <2>5. ~moved[s] => Plan(s)'
    BY <1>1, <2>1, <2>3, <2>4, DraftsStand DEF Plan, Steps
  <2> QED BY <2>1, <2>2, <2>5, FigureSteps
<1>3. CASE InsertRefused(s)
  <2>1. pc[s] = "insert" /\ ~InsertAllowed(s) /\ ReversalRefused(s)
    BY <1>3 DEF InsertRefused
  <2>2. req[s].op = "reopen" /\ ~moved[s] => Closed(m) /\ Reversals(c) # {}
    <3> SUFFICES ASSUME req[s].op = "reopen", ~moved[s] PROVE Closed(m) /\ Reversals(c) # {}
      OBVIOUS
    <3>1. Closed(m) /\ draft[s] = ReversalOf(c, m)
      BY <1>1, <2>1 DEF Plan
    <3>2. draft[s].month = m /\ draft[s].reverses = c
      <4> HIDE DEF c
      <4> QED BY ONLY <3>1 DEF ReversalOf
    <3>3. HoldsPeriod(s, m)
      BY <2>1 DEF HoldsPeriod
    <3> QED BY <2>1, <3>1, <3>2, <3>3 DEF InsertAllowed
  <2> QED BY <2>1, <2>2, FigureRefused
<1>4. CASE LockEntry(s)
  <2> DEFINE target == req[s].target
             status == IF req[s].op = "settle" THEN "posted" ELSE "archived"
             row == [entry[target] EXCEPT !.status = status]
  <2>1. Steps(s, "rows") /\ draft' = [draft EXCEPT ![s] = row] /\ pc[s] = "lock"
        /\ entry[target].status = "pending" /\ Transitions(s)
    BY <1>1, <1>4, StepsOn DEF LockEntry, Labels
  <2>2. draft'[s] = row
    BY <2>1 DEF NameInv, Shapes
  <2>3. target \in Entry
    BY <1>1, <2>1, RequestTypes DEF Works, Transitions
  <2>4. Figured(row) /\ row.status = status
    <3>1. Figured(entry[target]) /\ IsRow(entry[target])
      BY <2>3 DEF FigureInv, Books, NameInv, Shapes
    <3>2. row = [status |-> status, month |-> entry[target].month,
                 lines |-> entry[target].lines, retained |-> entry[target].retained,
                 closing |-> entry[target].closing, reverses |-> entry[target].reverses]
      BY <3>1 DEF IsRow
    <3> HIDE DEF row
    <3> QED BY <3>1, <3>2 DEF Figured
  <2> HIDE DEF row
  <2>5. Works(s)'
    BY <1>1, <2>1, <2>2, <2>4 DEF Works, Steps, Figured
  <2>6. ~moved[s] => Plan(s)'
    BY <1>1, <2>1, <2>2, <2>4, DraftsStand DEF Plan, Steps, Transitions
  <2> QED BY <2>1, <2>5, <2>6, FigureSteps
<1>5. CASE LockRefused(s)
  BY <1>5, FigureRolls DEF LockRefused
<1>6. CASE TakeRows(s)
  <2>1. PICK label \in {"period", "commit"} :
          /\ Steps(s, label) /\ draft'[s] = draft[s] /\ pc[s] = "rows"
          /\ req[s].op = "close" <=> label = "period"
    BY <1>6, StepsOn DEF TakeRows
  <2>2. Works(s)'
    BY <1>1, <2>1 DEF Works, Steps, Figured
  <2>3. ~moved[s] => Plan(s)'
    BY <1>1, <2>1, DraftsStand DEF Plan, Steps
  <2> QED BY <2>1, <2>2, <2>3, FigureSteps
<1> QED BY <1>2, <1>3, <1>4, <1>5, <1>6

\* What a commit writes: nothing, a new entry, or another status of one.
LEMMA Commits ==
  ASSUME NameInv, FigureInv, NEW s \in Session, Commit(s)
  PROVE  \E e \in Entry \cup {NoEntry} :
           /\ IF e = NoEntry THEN entry' = entry ELSE entry' = [entry EXCEPT ![e] = draft[s]]
           /\ draft[s] = NoDraft <=> e = NoEntry
           /\ e # NoEntry /\ ~Transitions(s) => entry[e].status = "absent"
           /\ e # NoEntry /\ Transitions(s) => e = req[s].target
           /\ \A m \in Month : period'[m] = IF m = req[s].month THEN PeriodAfter(s, e) ELSE period[m]
<1>1. PICK e \in Written(s) :
        /\ entry' = IF e = NoEntry THEN entry ELSE [entry EXCEPT ![e] = draft[s]]
        /\ period' = [period EXCEPT ![req[s].month] = PeriodAfter(s, e)]
  BY DEF Commit
<1>2. \A m \in Month : period'[m] = IF m = req[s].month THEN PeriodAfter(s, e) ELSE period[m]
  BY <1>1 DEF NameInv, Shapes
<1>3. pc[s] = "commit" /\ (Transitions(s) => req[s].target \in Entry)
  BY DEF Commit, NameInv, Ready
<1>4. /\ e \in Entry \cup {NoEntry} /\ (draft[s] = NoDraft <=> e = NoEntry)
      /\ e # NoEntry /\ ~Transitions(s) => entry[e].status = "absent"
      /\ e # NoEntry /\ Transitions(s) => e = req[s].target
  BY <1>3, NullAssumption DEF Written
<1> QED BY <1>1, <1>2, <1>4

LEMMA FigureCommits ==
  ASSUME NameInv, FigureInv, NEW s \in Session, Commit(s)
  PROVE  FigureInv'
<1>1. PICK e \in Entry \cup {NoEntry} :
        IF e = NoEntry THEN entry' = entry ELSE entry' = [entry EXCEPT ![e] = draft[s]]
  BY Commits
<1>2. /\ pc[s] = "commit" /\ Finish(s)
      /\ moved' = [t \in Session |-> t # s /\ pc[t] # "idle"]
  BY DEF Commit
<1>3. Books'
  <2>1. CASE e = NoEntry
    BY <1>1, <2>1 DEF FigureInv, Books, Booked
  <2>2. CASE e # NoEntry
    <3>1. entry'[e] = draft[s] /\ e \in Entry /\ Figured(draft[s])
          /\ \A x \in Entry : x # e => entry'[x] = entry[x]
      BY <1>1, <2>2 DEF FigureInv, Books, Works
    <3>2. Booked' \subseteq Booked \cup {e}
      BY <3>1 DEF Booked
    <3>3. IsFiniteSet(Booked \cup {e})
      <4>1. IsFiniteSet(Booked)
        BY DEF FigureInv, Books
      <4> QED BY ONLY <4>1, FS_AddElement
    <3>4. IsFiniteSet(Booked')
      <4> DEFINE after == Booked'
                 before == Booked \cup {e}
      <4>1. after \subseteq before /\ IsFiniteSet(before)
        BY <3>2, <3>3
      <4> HIDE DEF after, before
      <4>2. IsFiniteSet(after)
        BY ONLY <4>1, FS_Subset
      <4> QED BY <4>2 DEF after
    <3>5. entry' = [x \in Entry |-> entry'[x]]
      BY <1>1, <2>2 DEF FigureInv, Books
    <3>6. \A x \in Entry : Figured(entry'[x])
      BY <3>1 DEF FigureInv, Books
    <3>7. \A x \in Entry : Figured(entry[x])'
      BY <3>6 DEF Figured
    <3> QED BY <3>4, <3>5, <3>7 DEF Books
  <2> QED BY <2>1, <2>2
<1>4. ASSUME NEW t \in Session PROVE Works(t)' /\ (~moved'[t] => Plan(t)')
  <2>1. CASE t = s
    BY <1>2, <2>1, Unplanned
  <2>2. CASE t # s
    <3>1. /\ pc'[t] = pc[t] /\ req'[t] = req[t] /\ seen'[t] = seen[t] /\ draft'[t] = draft[t]
          /\ Works(t)
      BY <1>2, <2>2, Ended DEF FigureInv
    <3>2. Works(t)'
      BY <3>1 DEF Works, Figured
    <3>3. ~moved'[t] => pc'[t] = "idle"
      BY <1>2, <2>2, <3>1
    <3>4. pc'[t] = "idle" => Plan(t)'
      BY DEF Plan
    <3> QED BY <3>2, <3>3, <3>4
  <2> QED BY <2>1, <2>2
<1>5. moved' \in [Session -> BOOLEAN] /\ seen' = [t \in Session |-> seen'[t]]
  BY <1>2, Ended
<1> QED BY <1>3, <1>4, <1>5 DEF FigureInv

LEMMA FigureStep == NameInv /\ FigureInv /\ [Next]_vars => FigureInv'
<1> SUFFICES ASSUME NameInv, FigureInv, [Next]_vars PROVE FigureInv'
  OBVIOUS
<1>1. ASSUME NEW s \in Session,
             CheckRefused(s) \/ DeadlockVictim(s) \/ Crash(s) PROVE FigureInv'
  BY <1>1, FigureRolls DEF CheckRefused, DeadlockVictim, Crash
<1>2. ASSUME NEW s \in Session, Write(s) PROVE FigureInv'
  BY <1>2, FigureWrites, FigureCommits DEF Write
<1>3. CASE UNCHANGED vars
  <2>1. UNCHANGED <<entry, period>> /\ UNCHANGED <<pc, req, seen, draft, moved>>
    BY <1>3 DEF vars, sessionVars
  <2>2. Books'
    BY <2>1 DEF FigureInv, Books, Booked, Figured
  <2>3. ASSUME NEW s \in Session PROVE Works(s)' /\ (~moved'[s] => Plan(s)')
    <3>1. Works(s) /\ (~moved[s] => Plan(s))
      BY DEF FigureInv
    <3>2. Works(s)'
      BY <2>1, <3>1 DEF Works, Figured
    <3>3. Plan(s) => Plan(s)'
      BY <2>1, DraftsStand DEF Plan
    <3> QED BY <2>1, <3>1, <3>2, <3>3
  <2> QED BY <2>1, <2>2, <2>3 DEF FigureInv
<1> QED BY <1>1, <1>2, <1>3, FigureBegins, FigureCloses, FigureReopens DEF Next

\* A period row has one holder, so a close that found no row and has nothing to
\* close out creates it: nobody else has it meanwhile.
Bare(s) ==
  req[s].op = "close" =>
    /\ pc[s] \in {"insert", "rows"} => draft[s] # NoDraft
    /\ pc[s] \in {"period", "commit"} /\ draft[s] = NoDraft => seen[s].status = "none"
    /\ pc[s] = "commit" /\ draft[s] = NoDraft => period[req[s].month].status = "none"

HoldInv == \A s \in Session :
  /\ \A t \in Session : HoldsPeriod(s, req[s].month) /\ HoldsPeriod(t, req[s].month) => s = t
  /\ Bare(s)

LEMMA HoldInit == Init => HoldInv
BY NullRows DEF Init, HoldInv, HoldsPeriod, Bare

\* Nothing committed, and the session takes no period row it did not have, or
\* proceeds to one nobody has.
LEMMA HoldKeeps ==
  ASSUME HoldInv, UNCHANGED period, NEW s \in Session, Elsewhere(s), Bare(s)',
         \A m : HoldsPeriod(s, m)' =>
           \/ HoldsPeriod(s, m)
           \/ \A t \in Session : t # s => ~HoldsPeriod(t, m)
  PROVE  HoldInv'
<1>1. \A t \in Session : t # s => \A m : HoldsPeriod(t, m)' = HoldsPeriod(t, m)
  BY DEF Elsewhere, HoldsPeriod
<1>2. \A t \in Session : t # s => Bare(t)'
  BY DEF Elsewhere, HoldInv, Bare
<1>3. ASSUME NEW t \in Session, NEW u \in Session, NEW m, HoldsPeriod(t, m)', HoldsPeriod(u, m)'
      PROVE  t = u
  <2>1. \A x, y \in Session : HoldsPeriod(x, m) /\ HoldsPeriod(y, m) => x = y
    BY DEF HoldInv, HoldsPeriod
  <2> QED BY <1>1, <1>3, <2>1
<1> QED BY <1>2, <1>3 DEF HoldInv

LEMMA HoldRolls ==
  ASSUME NameInv, FigureInv, HoldInv, NEW s \in Session, Rollback(s)
  PROVE  HoldInv'
<1>1. Finish(s) /\ UNCHANGED period /\ moved' = [moved EXCEPT ![s] = FALSE]
  BY DEF Rollback
<1>2. pc'[s] = "idle" /\ req'[s] = NoRequest
  BY <1>1 DEF Finish, Goto, NameInv, Shapes
<1>3. Elsewhere(s)
  BY <1>1, Ended DEF Elsewhere, FigureInv
<1>4. Bare(s)' /\ \A m : ~HoldsPeriod(s, m)'
  BY <1>2, NullRows DEF Bare, HoldsPeriod
<1> QED BY <1>1, <1>3, <1>4, HoldKeeps

LEMMA HoldSteps ==
  ASSUME NameInv, FigureInv, HoldInv, NEW s \in Session, Close(s) \/ Reopen(s) \/ Write(s), ~Commit(s)
  PROVE  HoldInv'
<1>1. Labels(s) /\ Bare(s)
  BY DEF NameInv, HoldInv
<1>2. CASE Rollback(s)
  BY <1>2, HoldRolls
<1>3. CASE ~Rollback(s)
  <2>1. PICK label :
          /\ Goto(s, label) /\ KeepCommitted /\ UNCHANGED req
          /\ UNCHANGED draft \/ \E row : draft' = [draft EXCEPT ![s] = row]
          /\ UNCHANGED seen \/ \E row : seen' = [seen EXCEPT ![s] = row]
          /\ label \in {"sum", "insert", "period", "commit", "unlock", "reverse", "rows"}
          /\ \/ label \in {"unlock", "sum"}
             \/ label = "insert" /\ pc[s] = "sum" /\ seen' = seen
                /\ draft' = [draft EXCEPT ![s] = ClosingEntry(req[s].month)]
             \/ label = "insert" /\ pc[s] = "reverse"
             \/ label = "period" /\ pc[s] = "sum" /\ seen[s].status = "none" /\ seen' = seen
             \/ label = "reverse" /\ pc[s] = "unlock" /\ Proceeds(s)
             \/ label = "commit" /\ pc[s] = "period" /\ Proceeds(s) /\ draft' = draft
                /\ seen' = seen /\ (seen[s].status = "none" => period[req[s].month].status = "none")
             \/ label = "commit" /\ pc[s] \in {"reverse", "insert", "rows"} /\ req[s].op # "close"
             \/ label = "rows" /\ pc[s] = "insert" /\ draft' = draft
             \/ label = "rows" /\ pc[s] = "lock"
             \/ label = "period" /\ pc[s] = "rows" /\ draft' = draft
    BY <1>3 DEF Close, CheckClose, SumMonth, SumNothing, SumLeavesMonth, LockPeriod, LockPeriodTaken,
       Reopen, CheckReopen, Unlock, PrepareReversal, PrepareRefused, ReversalRefused,
       Write, InsertEntry, InsertRefused, LockEntry, LockRefused, TakeRows
  <2>2. Steps(s, label)
    BY <2>1, StepsOn
  <2>3. draft' = [draft EXCEPT ![s] = ClosingEntry(req[s].month)] => draft'[s] # NoDraft
    BY DEF NameInv, Shapes, ClosingEntry, NoDraft
  <2>4. Bare(s)'
    BY <1>1, <2>1, <2>2, <2>3 DEF Bare, Steps, Labels, Transitions
  <2>5. ASSUME NEW m, HoldsPeriod(s, m)'
        PROVE  HoldsPeriod(s, m) \/ \A t \in Session : t # s => ~HoldsPeriod(t, m)
    <3>1. req[s].month = m
      BY <2>2, <2>5 DEF HoldsPeriod, Steps
    <3>2. Proceeds(s) /\ pc[s] \in {"unlock", "period"} =>
            \A t \in Session : t # s => ~HoldsPeriod(t, m)
      BY <3>1 DEF Proceeds, WaitsFor
    <3>3. /\ pc'[s] = label /\ req'[s] = req[s]
          /\ \/ req[s].op = "reopen" /\ label \in {"reverse", "insert", "rows", "commit"}
             \/ req[s].op = "close" /\ label = "commit"
      BY <2>2, <2>5 DEF HoldsPeriod, Steps
    <3>4. \/ HoldsPeriod(s, m)
          \/ Proceeds(s) /\ pc[s] \in {"unlock", "period"}
      BY <1>1, <2>1, <3>1, <3>3 DEF HoldsPeriod, Labels, Transitions
    <3> QED BY <3>2, <3>4
  <2>6. Elsewhere(s) /\ UNCHANGED period
    BY <2>2 DEF Steps
  <2> QED BY <2>4, <2>5, <2>6, HoldKeeps
<1> QED BY <1>2, <1>3

\* Whoever commits a change of a period row has it.
LEMMA HoldCommits ==
  ASSUME NameInv, FigureInv, HoldInv, NEW s \in Session, Commit(s)
  PROVE  HoldInv'
<1> DEFINE m == req[s].month
<1>1. /\ pc'[s] = "idle" /\ req'[s] = NoRequest
      /\ \A t \in Session : t # s =>
           pc'[t] = pc[t] /\ req'[t] = req[t] /\ seen'[t] = seen[t] /\ draft'[t] = draft[t]
  BY Ended DEF Commit, Finish, Goto, NameInv, Shapes
<1>2. \A t \in Session : t # s => \A n : HoldsPeriod(t, n)' = HoldsPeriod(t, n)
  BY <1>1 DEF HoldsPeriod
<1>3. ~\E n : HoldsPeriod(s, n)'
  BY <1>1, NullRows DEF HoldsPeriod
<1>4. ASSUME NEW t \in Session, t # s PROVE Bare(t)'
  <2>1. Bare(t)
    BY DEF HoldInv
  <2>2. ASSUME pc[t] = "commit", req[t].op = "close"
        PROVE  period'[req[t].month] = period[req[t].month]
    <3>1. req[t].month \in Month
      BY <2>2, RequestRows DEF FigureInv, Works
    <3>2. CASE req[t].month # m
      BY <3>1, <3>2, Commits
    <3>3. CASE req[t].month = m
      <4>1. HoldsPeriod(t, m)
        BY <2>2, <3>3 DEF HoldsPeriod
      <4>2. ~HoldsPeriod(s, m)
        BY <1>4, <4>1 DEF HoldInv
      <4>3. req[s].op \notin {"close", "reopen"}
        BY <4>2 DEF HoldsPeriod, Commit
      <4> QED BY <3>1, <3>3, <4>3, Commits DEF PeriodAfter
    <3> QED BY <3>2, <3>3
  <2> QED BY <1>1, <1>4, <2>1, <2>2 DEF Bare
<1>5. Bare(s)'
  BY <1>1, NullRows DEF Bare
<1>6. ASSUME NEW t \in Session, NEW u \in Session, NEW n, HoldsPeriod(t, n)', HoldsPeriod(u, n)'
      PROVE  t = u
  <2>1. \A x, y \in Session : HoldsPeriod(x, n) /\ HoldsPeriod(y, n) => x = y
    BY DEF HoldInv, HoldsPeriod
  <2> QED BY <1>2, <1>3, <1>6, <2>1
<1> QED BY <1>4, <1>5, <1>6 DEF HoldInv

LEMMA HoldStep == NameInv /\ FigureInv /\ HoldInv /\ [Next]_vars => HoldInv'
<1> SUFFICES ASSUME NameInv, FigureInv, HoldInv, [Next]_vars PROVE HoldInv'
  OBVIOUS
<1>1. ASSUME NEW s \in Session,
             CheckRefused(s) \/ DeadlockVictim(s) \/ Crash(s) PROVE HoldInv'
  BY <1>1, HoldRolls DEF CheckRefused, DeadlockVictim, Crash
<1>2. ASSUME NEW s \in Session, Begin(s) PROVE HoldInv'
  <2>1. PICK r \in Request :
          /\ Goto(s, FirstStep(r)) /\ req' = [req EXCEPT ![s] = r]
          /\ draft' = [draft EXCEPT ![s] = IF r.op = "post" THEN EntryFor(r) ELSE NoDraft]
    BY <1>2 DEF Begin
  <2>2. /\ pc'[s] = FirstStep(r) /\ req'[s] = r
        /\ \A t \in Session : t # s => pc'[t] = pc[t] /\ req'[t] = req[t] /\ draft'[t] = draft[t]
    BY <2>1 DEF Goto, NameInv, Shapes
  <2>3. UNCHANGED <<period, seen, moved>>
    BY <1>2 DEF Begin, KeepCommitted
  <2>4. Elsewhere(s)
    BY <2>2, <2>3 DEF Elsewhere
  <2>5. Bare(s)' /\ \A m : ~HoldsPeriod(s, m)'
    BY <2>2, RequestRows DEF Bare, HoldsPeriod, FirstStep
  <2> QED BY <2>3, <2>4, <2>5, HoldKeeps
<1>3. CASE UNCHANGED vars
  BY <1>3 DEF vars, sessionVars, HoldInv, Bare, HoldsPeriod
<1> QED BY <1>1, <1>2, <1>3, HoldSteps, HoldCommits DEF Next

LEMMA FigureInvariant == Spec => [](NameInv /\ FigureInv /\ HoldInv)
<1>1. Init => NameInv /\ FigureInv /\ HoldInv
  BY NameInit, FigureInit, HoldInit
<1>2. NameInv /\ FigureInv /\ HoldInv /\ [Next]_vars => (NameInv /\ FigureInv /\ HoldInv)'
  BY NameStep, FigureStep, HoldStep
<1> QED BY <1>1, <1>2, PTL DEF Spec

\* The books change by a commit.
LEMMA WhoCommits ==
  ASSUME [Next]_vars
  PROVE  UNCHANGED <<entry, period>> \/ \E s \in Session : Commit(s)
BY DEF Next, Begin, Close, CheckClose, SumMonth, SumNothing, SumLeavesMonth, LockPeriod,
       LockPeriodTaken, Reopen, CheckReopen, Unlock, PrepareReversal, PrepareRefused,
       ReversalRefused, CheckRefused, Write, InsertEntry, InsertRefused, LockEntry,
       LockRefused, TakeRows, DeadlockVictim, Crash, Rollback, KeepCommitted, vars

\* An undisturbed session's own month, and its draft.
LEMMA Undisturbed ==
  ASSUME NameInv, FigureInv, NEW s \in Session, Commit(s)
  PROVE  /\ pc[s] = "commit" /\ pc'[s] = "idle" /\ req[s] \in Request /\ req[s].month \in Month
         /\ Figured(draft[s]) /\ (~moved[s] => Plan(s)) /\ Books
<1>1. pc[s] = "commit" /\ pc'[s] = "idle"
  BY DEF Commit, Finish, Goto, NameInv, Shapes
<1>2. Works(s) /\ (~moved[s] => Plan(s)) /\ Books
  BY DEF FigureInv
<1> QED BY <1>1, <1>2, RequestRows DEF Works

\* A close that nobody disturbed leaves its month at zero and every earlier
\* month with entries closed, whatever raced before it (close).
THEOREM ClosesZero == Spec => LoneCloseZeroes
<1>1. ASSUME NameInv, FigureInv, [Next]_vars, NEW m \in Month, ~Closed(m), Closed(m)'
      PROVE  \E s \in Session :
               /\ pc[s] = "commit" /\ req[s].op = "close" /\ req[s].month = m
               /\ \/ moved[s]
                  \/ /\ \A a \in Temporary : TemporaryBalance(m, a)' = 0
                     /\ ~EarlierOpen(m)'
  <2>1. PICK s \in Session : Commit(s)
    BY <1>1, WhoCommits DEF Closed
  <2>2. PICK e \in Entry \cup {NoEntry} :
          /\ IF e = NoEntry THEN entry' = entry ELSE entry' = [entry EXCEPT ![e] = draft[s]]
          /\ draft[s] = NoDraft <=> e = NoEntry
          /\ e # NoEntry /\ ~Transitions(s) => entry[e].status = "absent"
          /\ \A n \in Month : period'[n] = IF n = req[s].month THEN PeriodAfter(s, e) ELSE period[n]
    BY <1>1, <2>1, Commits
  <2>3. m = req[s].month /\ period'[m] = PeriodAfter(s, e)
    BY <1>1, <2>2 DEF Closed
  <2>4. req[s].op = "close" /\ e # NoEntry
    BY <1>1, <2>3 DEF PeriodAfter, Closed, OpenPeriod
  <2>5. /\ pc[s] = "commit" /\ Books /\ Figured(draft[s])
        /\ ~moved[s] => draft[s] = ClosingEntry(m) /\ ~EarlierOpen(m)
    BY <1>1, <2>1, <2>2, <2>3, <2>4, Undisturbed DEF Plan
  <2>6. ASSUME ~moved[s], NEW a \in Temporary PROVE TemporaryBalance(m, a)' = 0
    <3> DEFINE d == draft[s]
    <3>1. d.status = "posted" /\ d.month = m /\ d.lines[a] = -TemporaryBalance(m, a)
      BY <1>1, <2>5, <2>6, ClosingFigures
    <3>2. e \in Entry /\ entry[e].status = "absent" /\ entry' = [entry EXCEPT ![e] = d]
      BY <2>2, <2>4 DEF Transitions
    <3>3. TemporaryBalance(m, a)' = TemporaryBalance(m, a) + IF d.month = m THEN d.lines[a] ELSE 0
      <4> HIDE DEF d
      <4>1. Figured(d)
        BY <2>5 DEF d
      <4> QED BY <2>5, <3>1, <3>2, <4>1, MonthGains
    <3>4. TemporaryBalance(m, a) \in Int
      BY <2>5, MonthFigures
    <3> QED BY <3>1, <3>3, <3>4
  <2>7. ASSUME ~moved[s] PROVE ~EarlierOpen(m)'
    <3> SUFFICES ASSUME NEW x \in Entry, entry'[x].status # "absent", entry'[x].month < m,
                        period'[entry'[x].month].status # "closed"
                 PROVE  FALSE
      BY DEF EarlierOpen
    <3>1. draft[s].month = m /\ m \in Int
      BY <2>5, <2>7, MonthAssumption DEF ClosingEntry
    <3>2. entry'[x] = entry[x]
      BY <2>2, <2>4, <2>5, <3>1 DEF Books
    <3>3. entry[x].month \in Month /\ entry[x].month # m
      BY <2>5, <3>1, <3>2 DEF Books, Figured
    <3>4. period'[entry[x].month] = period[entry[x].month]
      BY <2>2, <2>3, <3>3
    <3> QED BY <2>5, <2>7, <3>2, <3>4 DEF EarlierOpen
  <2> QED BY <2>3, <2>4, <2>5, <2>6, <2>7
<1>2. NameInv /\ FigureInv /\ [Next]_vars =>
        \A m \in Month : ~Closed(m) /\ Closed(m)' =>
          \E s \in Session :
            /\ pc[s] = "commit" /\ req[s].op = "close" /\ req[s].month = m
            /\ \/ moved[s]
               \/ /\ \A a \in Temporary : TemporaryBalance(m, a)' = 0
                  /\ ~EarlierOpen(m)'
  BY <1>1
<1> QED BY <1>2, FigureInvariant, PTL DEF Spec, LoneCloseZeroes

\* A reopening that nobody disturbed gives every account of its month back what
\* the close took, unless the closing entry had been reversed by hand (reopen).
THEOREM ReopensRestore == Spec => LoneReopenRestores
<1>1. ASSUME NameInv, FigureInv, HoldInv, [Next]_vars, NEW m \in Month, Closed(m), ~Closed(m)'
      PROVE  \E s \in Session :
               /\ pc[s] = "commit" /\ req[s].op = "reopen" /\ req[s].month = m
               /\ \/ moved[s]
                  \/ Reversals(period[m].closing) # {}
                  \/ \A a \in Temporary :
                       TemporaryBalance(m, a)'
                         = TemporaryBalance(m, a) - entry[period[m].closing].lines[a]
  <2> DEFINE c == period[m].closing
  <2>1. PICK s \in Session : Commit(s)
    BY <1>1, WhoCommits DEF Closed
  <2>2. PICK e \in Entry \cup {NoEntry} :
          /\ IF e = NoEntry THEN entry' = entry ELSE entry' = [entry EXCEPT ![e] = draft[s]]
          /\ draft[s] = NoDraft <=> e = NoEntry
          /\ e # NoEntry /\ ~Transitions(s) => entry[e].status = "absent"
          /\ \A n \in Month : period'[n] = IF n = req[s].month THEN PeriodAfter(s, e) ELSE period[n]
    BY <1>1, <2>1, Commits
  <2>3. m = req[s].month /\ period'[m] = PeriodAfter(s, e)
    BY <1>1, <2>2 DEF Closed
  <2>4. /\ pc[s] = "commit" /\ Books /\ Figured(draft[s]) /\ (~moved[s] => Plan(s))
    BY <1>1, <2>1, Undisturbed
  <2>5. req[s].op = "reopen"
    <3>1. req[s].op \in {"close", "reopen"} /\ (req[s].op = "close" => e = NoEntry)
      BY <1>1, <2>3 DEF PeriodAfter, Closed
    <3>2. req[s].op = "close" /\ draft[s] = NoDraft => period[m].status = "none"
      BY <1>1, <2>3, <2>4 DEF HoldInv, Bare
    <3> QED BY <1>1, <2>2, <3>1, <3>2 DEF Closed
  <2>6. ASSUME ~moved[s], Reversals(c) = {}, NEW a \in Temporary
        PROVE  TemporaryBalance(m, a)' = TemporaryBalance(m, a) - entry[c].lines[a]
    <3> DEFINE d == draft[s]
    <3>1. d = ReversalOf(c, m)
      BY <2>3, <2>4, <2>5, <2>6 DEF Plan
    <3>2. d.status = "posted" /\ d.month = m /\ d.lines[a] = -entry[c].lines[a]
      <4> HIDE DEF c, d
      <4> QED BY ONLY <3>1, a \in Temporary DEF ReversalOf
    <3>3. e \in Entry /\ entry[e].status = "absent" /\ entry' = [entry EXCEPT ![e] = d]
      BY <2>2, <2>5, <3>2, NullFigures DEF Transitions
    <3>4. TemporaryBalance(m, a)' = TemporaryBalance(m, a) + IF d.month = m THEN d.lines[a] ELSE 0
      <4> HIDE DEF d
      <4>1. Figured(d)
        BY <2>4 DEF d
      <4> QED BY <2>4, <3>2, <3>3, <4>1, MonthGains
    <3>5. TemporaryBalance(m, a) \in Int
      BY <2>4, MonthFigures
    <3>6. entry[c].lines[a] \in Int
      BY <1>1, <2>4 DEF Books, Figured, NameInv, Named, Names
    <3> QED BY <3>2, <3>4, <3>5, <3>6
  <2> QED BY <2>3, <2>4, <2>5, <2>6
<1>2. NameInv /\ FigureInv /\ HoldInv /\ [Next]_vars =>
        \A m \in Month : Closed(m) /\ ~Closed(m)' =>
          \E s \in Session :
            /\ pc[s] = "commit" /\ req[s].op = "reopen" /\ req[s].month = m
            /\ \/ moved[s]
               \/ Reversals(period[m].closing) # {}
               \/ \A a \in Temporary :
                    TemporaryBalance(m, a)'
                      = TemporaryBalance(m, a) - entry[period[m].closing].lines[a]
  BY <1>1
<1> QED BY <1>2, FigureInvariant, PTL DEF Spec, LoneReopenRestores

\* While a month stays closed, its figures move only by a session during which
\* somebody else committed, or by the settlement of a pending entry
\* (transactions_reject_closed_period).
THEOREM SealsMoveLate == Spec => OnlyLateWritesMoveSeals
<1>1. ASSUME NameInv, FigureInv, [Next]_vars, NEW m \in Month, Closed(m), Closed(m)'
      PROVE  \/ \A a \in Temporary : TemporaryBalance(m, a)' = TemporaryBalance(m, a)
             \/ \E s \in Session : /\ pc[s] = "commit" /\ pc'[s] = "idle"
                                    /\ \/ moved[s]
                                       \/ req[s].op = "settle"
  <2>1. CASE entry' = entry
    BY <2>1 DEF TemporaryBalance, PostedIn, InMonth
  <2>2. CASE entry' # entry
    <3>1. PICK s \in Session : Commit(s)
      BY <1>1, <2>2, WhoCommits
    <3>2. PICK e \in Entry \cup {NoEntry} :
            /\ IF e = NoEntry THEN entry' = entry ELSE entry' = [entry EXCEPT ![e] = draft[s]]
            /\ draft[s] = NoDraft <=> e = NoEntry
            /\ e # NoEntry /\ ~Transitions(s) => entry[e].status = "absent"
            /\ e # NoEntry /\ Transitions(s) => e = req[s].target
            /\ \A n \in Month : period'[n] = IF n = req[s].month THEN PeriodAfter(s, e) ELSE period[n]
      BY <1>1, <3>1, Commits
    <3>3. /\ pc[s] = "commit" /\ pc'[s] = "idle" /\ req[s] \in Request
          /\ Books /\ Figured(draft[s]) /\ (~moved[s] => Plan(s))
      BY <1>1, <3>1, Undisturbed
    <3>4. e \in Entry /\ draft[s] # NoDraft /\ entry' = [entry EXCEPT ![e] = draft[s]]
      BY <2>2, <3>2
    <3> DEFINE d == draft[s]
    <3>5. ASSUME ~moved[s], req[s].op # "settle"
          PROVE  /\ entry[e].status # "posted"
                 /\ d.status # "posted" \/ (entry[e].status = "absent" /\ d.month # m)
      <4>1. req[s].op \in {"post", "close", "reopen", "archive", "reverse"}
        BY <3>3, <3>5, RequestRows
      <4>2. CASE req[s].op = "archive"
        BY <3>2, <3>3, <3>4, <3>5, <4>2 DEF Plan, Transitions
      <4>3. CASE req[s].op \in {"post", "reverse"}
        BY <1>1, <3>2, <3>3, <3>4, <3>5, <4>3 DEF Plan, Transitions
      <4>4. CASE req[s].op = "close"
        <5>1. d = ClosingEntry(req[s].month) /\ ~Closed(req[s].month)
          BY <3>3, <3>4, <3>5, <4>4 DEF Plan
        <5> QED BY <1>1, <3>2, <3>4, <4>4, <5>1 DEF Transitions, ClosingEntry
      <4>5. CASE req[s].op = "reopen"
        <5>1. \/ d = ReversalOf(period[req[s].month].closing, req[s].month)
              \/ d = NoDraft
          BY <3>3, <3>5, <4>5 DEF Plan
        <5>2. d.month = req[s].month
          <6> HIDE DEF d
          <6>1. d # NoDraft
            BY <3>4 DEF d
          <6> QED BY <5>1, <6>1 DEF ReversalOf
        <5>3. m # req[s].month
          BY <1>1, <3>2, <4>5 DEF PeriodAfter, Closed, OpenPeriod
        <5> QED BY <3>2, <3>4, <4>5, <5>2, <5>3 DEF Transitions
      <4> QED BY <4>1, <4>2, <4>3, <4>4, <4>5
    <3>6. ASSUME ~moved[s], req[s].op # "settle", NEW a \in Temporary
          PROVE  TemporaryBalance(m, a)' = TemporaryBalance(m, a)
      <4> HIDE DEF d
      <4>1. /\ Books /\ e \in Entry /\ entry[e].status # "posted" /\ Figured(d)
            /\ entry' = [entry EXCEPT ![e] = d]
            /\ d.status # "posted" \/ (entry[e].status = "absent" /\ d.month # m)
        BY <3>3, <3>4, <3>5, <3>6 DEF d
      <4>2. CASE d.status # "posted"
        BY <4>1, <4>2, MonthStands
      <4>3. CASE d.status = "posted"
        <5>1. TemporaryBalance(m, a)' = TemporaryBalance(m, a) + IF d.month = m THEN d.lines[a] ELSE 0
          BY <4>1, <4>3, MonthGains
        <5>2. TemporaryBalance(m, a) \in Int
          BY <4>1, MonthFigures
        <5> QED BY <4>1, <4>3, <5>1, <5>2
      <4> QED BY <4>2, <4>3
    <3> QED BY <3>3, <3>6
  <2> QED BY <2>1, <2>2
<1>2. NameInv /\ FigureInv /\ [Next]_vars =>
        \A m \in Month : Closed(m) /\ Closed(m)' =>
          \/ \A a \in Temporary : TemporaryBalance(m, a)' = TemporaryBalance(m, a)
          \/ \E s \in Session : /\ pc[s] = "commit" /\ pc'[s] = "idle"
                                 /\ \/ moved[s]
                                    \/ req[s].op = "settle"
  BY <1>1
<1> QED BY <1>2, FigureInvariant, PTL DEF Spec, OnlyLateWritesMoveSeals

-----------------------------------------------------------------------------
(***************************************************************************)
(* The gate a close has to pass, as Revaluation has it: R is that          *)
(* component, with sessions, requests and rows of its own under the names  *)
(* it gives them.  A session reads the row of its month without locking    *)
(* it; what it read is still there as long as nobody else has committed,   *)
(* which is what `moved` remembers.                                        *)
(***************************************************************************)
CONSTANTS RateScale, Account, CurrencyOf, Home, FxAccount, Grain, Largest,
          Retranslation, MaxEntries
VARIABLES journal, rates, lines

R == INSTANCE Revaluation WITH Request <- Retranslation

Places == {"idle", "check", "compute", "post", "gate", "lock"}
MonthsNamed == \A s \in Session : req[s].month \in Month

\* The sessions' variables have a value for every session, and every month a row.
GateTypes ==
  /\ pc \in [Session -> Places]
  /\ req \in [Session -> Retranslation \cup {R!NoRequest}]
  /\ seen \in [Session -> R!PeriodRow]
  /\ moved \in [Session -> BOOLEAN]
  /\ period \in [Month -> R!PeriodRow]
  /\ MonthsNamed

\* Undisturbed, a close still sees the row it read, and past the gate that row
\* is marked or there was nothing to mark it for.
GateInv == \A s \in Session : ~moved[s] =>
  /\ pc[s] \in {"gate", "lock"} => seen[s] = period[req[s].month]
  /\ pc[s] = "lock" => period[req[s].month].revalued \/ R!Held = {}

GatedInv == GateTypes /\ GateInv

LEMMA NullTypes == R!NoRequest.month \in Month /\ R!NoPeriod \in R!PeriodRow
BY MonthAssumption DEF R!NoRequest, R!NoPeriod, R!PeriodRow

LEMMA GatedInit == R!Init => GatedInv
BY NullTypes DEF R!Init, GatedInv, GateTypes, GateInv, MonthsNamed, Places

\* What is held depends on the entries alone.
LEMMA HeldStands == UNCHANGED journal => R!Held' = R!Held
BY DEF R!Held, R!Balance, R!AmountIn

\* The other sessions are where they were.
Others(s) == \A t \in Session : t # s =>
  pc'[t] = pc[t] /\ req'[t] = req[t] /\ seen'[t] = seen[t]

LEMMA Finished ==
  ASSUME GateTypes, NEW s \in Session, R!Finish(s)
  PROVE  /\ pc'[s] = "idle" /\ Others(s)
         /\ pc' \in [Session -> Places] /\ seen' \in [Session -> R!PeriodRow]
         /\ req' \in [Session -> Retranslation \cup {R!NoRequest}] /\ MonthsNamed'
BY NullTypes DEF R!Finish, R!Goto, GateTypes, MonthsNamed, Places, Others

LEMMA RollbackKeeps ==
  ASSUME GatedInv, NEW s \in Session, R!Rollback(s)
  PROVE  GatedInv'
<1>1. GateTypes' /\ Others(s) /\ pc'[s] = "idle"
  BY Finished DEF GatedInv, GateTypes, R!Rollback, R!KeepBooks
<1>2. UNCHANGED <<moved, period>> /\ R!Held' = R!Held
  BY HeldStands DEF R!Rollback, R!KeepBooks
<1> QED BY <1>1, <1>2 DEF GatedInv, GateInv, Others

\* A commit disturbs every session there is.
LEMMA CommitKeeps ==
  ASSUME GatedInv, NEW s \in Session, R!Commit(s), period' \in [Month -> R!PeriodRow]
  PROVE  GatedInv'
<1>1. /\ pc'[s] = "idle" /\ Others(s)
      /\ moved' = [t \in Session |-> IF t = s THEN FALSE ELSE pc[t] # "idle"]
  BY Finished DEF GatedInv, R!Commit
<1>2. GateTypes'
  BY <1>1, Finished DEF GatedInv, GateTypes, R!Commit
<1>3. \A t \in Session : ~moved'[t] => pc'[t] = "idle"
  BY <1>1 DEF Others
<1> QED BY <1>2, <1>3 DEF GatedInv, GateInv

\* The steps that roll back, and those that commit.
Refused(s) ==
  \/ R!ComputeRefused(s) \/ R!RevalueRefused(s) \/ R!GateRefused(s) \/ R!LockRefused(s)
  \/ R!CheckRefused(s) \/ R!Crash(s)
Committed(s) ==
  R!Record(s) \/ R!Post(s) \/ R!MarkOnly(s) \/ R!Adjust(s) \/ R!Lock(s) \/ R!Reopen(s)

LEMMA CommittedPeriods ==
  ASSUME GateTypes, NEW s \in Session, Committed(s)
  PROVE  R!Commit(s) /\ period' \in [Month -> R!PeriodRow]
<1>1. CASE R!Record(s) \/ R!Post(s)
  BY <1>1 DEF R!Record, R!Post, GateTypes
<1>2. CASE R!MarkOnly(s) \/ R!Adjust(s)
  <2>1. R!Commit(s) /\ period' = R!Marked(s)
    BY <1>2 DEF R!MarkOnly, R!Adjust
  <2> DEFINE row == [status |-> IF period[req[s].month].status = "none" THEN "open"
                                ELSE period[req[s].month].status, revalued |-> TRUE]
  <2>2. period[req[s].month] \in R!PeriodRow /\ period \in [Month -> R!PeriodRow]
    BY DEF GateTypes, MonthsNamed
  <2>3. row \in R!PeriodRow
    BY <2>2 DEF R!PeriodRow
  <2>4. R!Marked(s) = [period EXCEPT ![req[s].month] = row]
    BY DEF R!Marked
  <2> HIDE DEF row
  <2> QED BY <2>1, <2>2, <2>3, <2>4
<1>3. CASE R!Lock(s) \/ R!Reopen(s)
  <2>1. R!Commit(s)
    BY <1>3 DEF R!Lock, R!Reopen
  <2>2. PICK status \in {"open", "closed"} :
          period' = [period EXCEPT ![req[s].month].status = status]
    BY <1>3 DEF R!Lock, R!Reopen
  <2>3. period[req[s].month] \in R!PeriodRow /\ period \in [Month -> R!PeriodRow]
    BY DEF GateTypes, MonthsNamed
  <2>4. [period[req[s].month] EXCEPT !.status = status] \in R!PeriodRow
    BY <2>3 DEF R!PeriodRow
  <2> QED BY <2>1, <2>2, <2>3, <2>4
<1> QED BY <1>1, <1>2, <1>3 DEF Committed

LEMMA BeginGate ==
  ASSUME R!RequestAssumption, GatedInv, NEW s \in Session, R!Begin(s)
  PROVE  GatedInv'
<1>1. PICK r \in Retranslation : req' = [req EXCEPT ![s] = r]
  BY DEF R!Begin
<1>2. /\ pc'[s] = "check" /\ Others(s) /\ UNCHANGED period /\ R!Held' = R!Held
      /\ \A t \in Session : t # s => moved'[t] = moved[t]
  BY <1>1, HeldStands DEF R!Begin, R!Goto, R!KeepBooks, GatedInv, GateTypes, Others
<1>3. GateTypes'
  BY <1>1 DEF R!RequestAssumption, R!Begin, R!Goto, R!KeepBooks, GatedInv, GateTypes, MonthsNamed, Places
<1> QED BY <1>2, <1>3 DEF GatedInv, GateInv, Others

LEMMA ReadGate ==
  ASSUME GatedInv, NEW s \in Session, R!ReadPeriod(s)
  PROVE  GatedInv'
<1>1. /\ UNCHANGED <<period, req, moved>> /\ R!Held' = R!Held
      /\ seen'[s] = period[req[s].month] /\ pc'[s] \in {"gate", "compute"}
      /\ Others(s)
  BY HeldStands DEF R!ReadPeriod, R!Goto, R!KeepBooks, GatedInv, GateTypes, Others
<1>2. GateTypes'
  BY DEF R!ReadPeriod, R!Goto, R!KeepBooks, GatedInv, GateTypes, MonthsNamed, Places
<1> QED BY <1>1, <1>2 DEF GatedInv, GateInv, Others

LEMMA LookKeeps ==
  ASSUME GatedInv, NEW s \in Session, R!Compute(s) \/ R!Gate(s)
  PROVE  GatedInv'
<1>1. /\ UNCHANGED <<period, req, moved, seen>> /\ R!Held' = R!Held
      /\ \/ pc'[s] = "post"
         \/ pc[s] = "gate" /\ pc'[s] = "lock" /\ R!Awaiting(s) = {}
      /\ Others(s)
  BY HeldStands DEF R!Compute, R!Gate, R!Goto, R!KeepBooks, GatedInv, GateTypes, Others
<1>2. GateTypes'
  BY DEF R!Compute, R!Gate, R!Goto, R!KeepBooks, GatedInv, GateTypes, MonthsNamed, Places
<1>3. R!Awaiting(s) = {} => seen[s].revalued \/ R!Held = {}
  BY DEF R!Awaiting
<1> QED BY <1>1, <1>2, <1>3 DEF GatedInv, GateInv, Others

LEMMA GatedStep ==
  ASSUME R!RequestAssumption
  PROVE  GatedInv /\ [R!Next]_(R!vars) => GatedInv'
<1> SUFFICES ASSUME GatedInv, [R!Next]_(R!vars) PROVE GatedInv'
  OBVIOUS
<1>1. CASE R!Next
  <2>1. PICK s \in Session :
          \/ R!Begin(s) \/ R!ReadPeriod(s) \/ R!Compute(s) \/ R!Gate(s) \/ Refused(s) \/ Committed(s)
    BY <1>1 DEF R!Next, R!Revalue, R!Close, Refused, Committed
  <2>2. Refused(s) => R!Rollback(s)
    BY DEF Refused, R!ComputeRefused, R!RevalueRefused, R!GateRefused, R!LockRefused, R!CheckRefused, R!Crash
  <2>3. Committed(s) => R!Commit(s) /\ period' \in [Month -> R!PeriodRow]
    BY CommittedPeriods DEF GatedInv
  <2> QED BY <2>1, <2>2, <2>3, BeginGate, ReadGate, LookKeeps, RollbackKeeps, CommitKeeps
<1>2. CASE UNCHANGED R!vars
  <2>1. R!Held' = R!Held
    BY <1>2, HeldStands DEF R!vars
  <2> QED BY <1>2, <2>1 DEF R!vars, GatedInv, GateTypes, GateInv, MonthsNamed
<1> QED BY <1>1, <1>2

THEOREM GateInvariant ==
  ASSUME R!RequestAssumption
  PROVE  R!Spec => []GatedInv
BY GatedInit, GatedStep, PTL DEF R!Spec

\* Whoever closes a month undisturbed closes one that somebody has looked at,
\* or with nothing held in foreign currency, however many revaluations, rates,
\* postings, closes and reopenings went before (close's gate).
THEOREM ClosesAreGated ==
  ASSUME R!RequestAssumption
  PROVE  R!Spec => R!LoneCloseWasRevalued
<1>1. GatedInv /\ [R!Next]_(R!vars) =>
        [\A s \in Session :
           pc[s] = "lock" /\ ~moved[s] /\ period' # period /\ pc'[s] = "idle" =>
             period[req[s].month].revalued \/ R!Held = {}]_(R!vars)
  BY DEF GatedInv, GateInv
<1> QED BY <1>1, GateInvariant, PTL DEF R!Spec, R!LoneCloseWasRevalued

-----------------------------------------------------------------------------
(***************************************************************************)
(* What entries and retranslations amount to.  R's sums are those of Sums  *)
(* under another name.                                                     *)
(***************************************************************************)
Bookable == R!ScaleAssumption /\ R!DraftingAssumption /\ R!RequestAssumption
Posting == [account : Account, amount : Int, base : Int]

LEMMA SameSums ==
  /\ \A f, S : R!SumFunctionOnSet(f, S) = SumFunctionOnSet(f, S)
  /\ \A f : R!SumFunction(f) = SumFunctionOnSet(f, DOMAIN f)
<1>1. \A f, S : R!SumFunctionOnSet(f, S) = SumFunctionOnSet(f, S)
  BY DEF R!SumFunctionOnSet, SumFunctionOnSet, R!FoldFunctionOnSet, FoldFunctionOnSet,
         R!MapThenFoldSet, MapThenFoldSet
<1>2. \A f : R!SumFunction(f) = R!SumFunctionOnSet(f, DOMAIN f)
  BY DEF R!SumFunction, R!SumFunctionOnSet, R!FoldFunction, R!FoldFunctionOnSet
<1> QED BY <1>1, <1>2

LEMMA SameSizes ==
  /\ \A S : R!IsFiniteSet(S) <=> IsFiniteSet(S)
  /\ \A S : R!Cardinality(S) = Cardinality(S)
<1>1. \A S : R!IsFiniteSet(S) <=> IsFiniteSet(S)
  BY DEF R!IsFiniteSet, IsFiniteSet
<1>2. \A S : R!Cardinality(S) = Cardinality(S)
  BY DEF R!Cardinality, Cardinality, R!IsFiniteSet, IsFiniteSet
<1> QED BY <1>1, <1>2

\* Rounding leaves half a unit at most.
LEMMA RoundingIsNear ==
  ASSUME NEW d \in Nat \ {0}, NEW p \in Int
  PROVE  /\ R!DivideRounding(p, d) \in Int
         /\ 2 * (d * R!DivideRounding(p, d)) - 2 * p \in (-d)..d
<1>1. ASSUME NEW m \in Nat
      PROVE  /\ (2 * m + d) \div (2 * d) \in Nat
             /\ 2 * (d * ((2 * m + d) \div (2 * d))) - 2 * m \in (-d)..d
  <2> DEFINE a == 2 * m + d
             b == 2 * d
             q == a \div b
  <2>1. a \in Nat /\ b \in Nat /\ b > 0
    OBVIOUS
  <2> HIDE DEF a, b
  <2>2. q \in Nat /\ b * q <= a /\ a < b * q + b
    BY <2>1
  <2> HIDE DEF q
  <2>3. b * q = 2 * (d * q) /\ d * q \in Nat
    BY <2>2 DEF b
  <2>4. 2 * (d * q) - 2 * m \in (-d)..d
    BY <2>2, <2>3 DEF a, b
  <2> QED BY <2>2, <2>4 DEF q, a, b
<1>2. CASE p >= 0
  <2>1. R!DivideRounding(p, d) = (2 * p + d) \div (2 * d)
    BY <1>2 DEF R!DivideRounding
  <2> QED BY <1>1, <1>2, <2>1
<1>3. CASE p < 0
  <2> DEFINE q == (2 * (-p) + d) \div (2 * d)
  <2>1. R!DivideRounding(p, d) = -q
    BY <1>3 DEF R!DivideRounding
  <2>2. q \in Nat /\ 2 * (d * q) - 2 * (-p) \in (-d)..d
    BY <1>1, <1>3
  <2> HIDE DEF q
  <2>3. d * (-q) = -(d * q) /\ d * q \in Int
    BY <2>2
  <2>4. 2 * (d * (-q)) - 2 * p \in (-d)..d
    BY <2>2, <2>3
  <2> QED BY <2>1, <2>2, <2>4
<1> QED BY <1>2, <1>3

LEMMA ConvertIsNear ==
  ASSUME R!ScaleAssumption, NEW n \in Int, NEW rate \in Int
  PROVE  /\ R!Convert(n, rate) \in Int
         /\ 2 * (RateScale * R!Convert(n, rate)) - 2 * (n * rate) \in (-RateScale)..RateScale
<1>1. n * rate \in Int
  OBVIOUS
<1> QED BY <1>1, RoundingIsNear DEF R!Convert, R!ScaleAssumption

LEMMA LineIs ==
  ASSUME Bookable, NEW line \in R!WrittenLine, NEW currency, Grain[currency] \in Nat \ {0}
  PROVE  /\ line.account \in Account /\ R!Amount(line) \in Int
         /\ R!BaseAmount(line, currency) \in Int
<1>1. line.account \in Account /\ line.amount \in Int /\ line.given \in Int
  BY DEF R!WrittenLine
<1>2. Grain[CurrencyOf[line.account]] \in Nat \ {0}
  BY <1>1 DEF Bookable, R!DraftingAssumption
<1>3. R!Amount(line) \in Int
  BY <1>1, <1>2 DEF R!Amount, R!ToMinorUnits
<1>4. R!Stated(line, currency) \in Int
  BY <1>1 DEF R!Stated, R!ToMinorUnits
<1>5. R!Convert(R!Amount(line), line.given) \in Int
  BY <1>1, <1>3, ConvertIsNear DEF Bookable
<1>6. R!BaseAmount(line, currency) \in {R!Amount(line), R!Stated(line, currency),
                                        R!Convert(R!Amount(line), line.given)}
  BY DEF R!BaseAmount
<1> QED BY <1>1, <1>3, <1>4, <1>5, <1>6

\* A request's lines, as postings.
LEMMA ResolvedIs ==
  ASSUME Bookable, NEW r \in Retranslation, r.op = "post"
  PROVE  LET q == R!ResolveBaseAmounts(r.lines, r.currency)
         IN  /\ q \in Seq(Posting) /\ DOMAIN q = DOMAIN r.lines /\ r.lines \in Seq(R!WrittenLine)
             /\ \A i \in DOMAIN r.lines :
                  /\ r.lines[i] \in R!WrittenLine
                  /\ q[i].account = r.lines[i].account /\ q[i].amount = R!Amount(r.lines[i])
                  /\ q[i].base = R!BaseAmount(r.lines[i], r.currency)
<1> DEFINE q == R!ResolveBaseAmounts(r.lines, r.currency)
           n == Len(r.lines)
<1>1. r.lines \in Seq(R!WrittenLine) /\ Grain[r.currency] \in Nat \ {0}
  BY DEF Bookable, R!RequestAssumption
<1>2. n \in Nat /\ DOMAIN r.lines = 1..n /\ \A i \in 1..n : r.lines[i] \in R!WrittenLine
  BY <1>1
<1>3. q = [i \in 1..n |-> [account |-> r.lines[i].account, amount |-> R!Amount(r.lines[i]),
                           base |-> R!BaseAmount(r.lines[i], r.currency)]]
  BY <1>2 DEF R!ResolveBaseAmounts
<1>4. ASSUME NEW i \in 1..n PROVE q[i] \in Posting
  BY <1>1, <1>2, <1>3, LineIs DEF Posting
<1> HIDE DEF n
<1>5. q \in Seq(Posting)
  <2> HIDE DEF q
  <2>1. q \in [1..n -> Posting]
    BY <1>3, <1>4
  <2> QED BY <1>2, <2>1
<1> QED BY <1>1, <1>2, <1>3, <1>5

LEMMA PostingSums ==
  ASSUME NEW q \in Seq(Posting)
  PROVE  /\ IsFiniteSet(DOMAIN q)
         /\ \A i \in DOMAIN q : q[i] \in Posting
         /\ \A S \in SUBSET DOMAIN q : IsFiniteSet(S) /\ R!SumAmount(q, S) \in Int /\ R!SumBase(q, S) \in Int
<1>1. Len(q) \in Nat /\ DOMAIN q = 1..Len(q) /\ \A i \in DOMAIN q : q[i] \in Posting
  OBVIOUS
<1>2. IsFiniteSet(DOMAIN q)
  BY <1>1, FS_Interval
<1>3. ASSUME NEW S \in SUBSET DOMAIN q
      PROVE  IsFiniteSet(S) /\ R!SumAmount(q, S) \in Int /\ R!SumBase(q, S) \in Int
  <2> DEFINE f == [i \in DOMAIN q |-> q[i].amount]
             g == [i \in DOMAIN q |-> q[i].base]
  <2>1. IsFiniteSet(S)
    BY <1>2, FS_Subset
  <2>2. \A i \in S : f[i] \in Int /\ g[i] \in Int
    BY <1>1 DEF Posting
  <2>3. R!SumAmount(q, S) = SumFunctionOnSet(f, S) /\ R!SumBase(q, S) = SumFunctionOnSet(g, S)
    BY SameSums DEF R!SumAmount, R!SumBase
  <2> HIDE DEF f, g
  <2> QED BY <2>1, <2>2, <2>3, SumIsInt
<1> QED BY <1>1, <1>2, <1>3

LEMMA DraftedIs ==
  ASSUME Bookable, NEW r \in Retranslation, r.op = "post"
  PROVE  R!Drafted(r) \in Seq(Posting)
<1> DEFINE q == R!ResolveBaseAmounts(r.lines, r.currency)
<1>1. q \in Seq(Posting)
  BY ResolvedIs
<1>2. R!Residual(q) \in Int
  BY <1>1, PostingSums DEF R!Residual
<1>3. R!Drafted(r) \in {q, R!AppendFxAdjustment(q)}
  BY DEF R!Drafted
<1> HIDE DEF q
<1>4. FxAccount \in Account
  BY DEF Bookable, R!DraftingAssumption
<1>5. [account |-> FxAccount, amount |-> -R!Residual(q), base |-> -R!Residual(q)] \in Posting
  BY <1>2, <1>4 DEF Posting
<1>6. R!AppendFxAdjustment(q) \in Seq(Posting)
  BY <1>1, <1>5 DEF R!AppendFxAdjustment
<1> QED BY <1>1, <1>3, <1>6

\* As a row, an entry adds up to what it added up to as postings.
LEMMA WrittenIs ==
  ASSUME Bookable, NEW q \in Seq(Posting), NEW m \in Month
  PROVE  /\ R!Written(m, q) \in R!EntryRow
         /\ R!SumFunction(R!Written(m, q).base) = R!Residual(q)
<1> DEFINE row == R!Written(m, q)
           f == [i \in DOMAIN q |-> q[i].base]
           key == [i \in DOMAIN q |-> q[i].account]
           part == [a \in Account |-> R!On(q, a)]
<1>1. IsFiniteSet(Account) /\ IsFiniteSet(DOMAIN q) /\ \A i \in DOMAIN q : q[i] \in Posting
  BY SameSizes, PostingSums DEF Bookable, R!DraftingAssumption
<1>2. \A a \in Account : R!On(q, a) \in SUBSET DOMAIN q
  BY DEF R!On
<1>3. row = [month |-> m, amount |-> [a \in Account |-> R!SumAmount(q, R!On(q, a))],
             base |-> [a \in Account |-> R!SumBase(q, R!On(q, a))]]
  BY DEF R!Written
<1>4. \A a \in Account : R!SumAmount(q, R!On(q, a)) \in Int /\ R!SumBase(q, R!On(q, a)) \in Int
  BY <1>2, PostingSums
<1>5. row \in R!EntryRow
  BY <1>3, <1>4 DEF R!EntryRow
<1>6. DOMAIN row.base = Account
      /\ \A a \in Account : row.base[a] = SumFunctionOnSet(f, part[a])
  <2>1. \A a \in Account : R!On(q, a) = part[a]
    OBVIOUS
  <2>2. DOMAIN row.base = Account /\ \A a \in Account : row.base[a] = R!SumBase(q, R!On(q, a))
    BY <1>3
  <2>3. \A a \in Account : R!SumBase(q, R!On(q, a)) = SumFunctionOnSet(f, R!On(q, a))
    BY SameSums DEF R!SumBase
  <2> HIDE DEF row, f, part
  <2> QED BY <2>1, <2>2, <2>3
<1>7. \A i \in DOMAIN q : key[i] \in Account /\ f[i] \in Int
  BY <1>1 DEF Posting
<1>8. R!Residual(q) = SumFunctionOnSet(f, DOMAIN q)
  BY SameSums DEF R!Residual, R!SumBase
<1>9. \A a \in Account : \A i : i \in part[a] <=> i \in DOMAIN q /\ key[i] = a
  BY DEF R!On
<1> HIDE DEF row, f, key, part
<1>10. SumFunctionOnSet(row.base, Account) = SumFunctionOnSet(f, DOMAIN q)
  <2> DEFINE g == row.base
  <2>1. \A a \in Account : g[a] = SumFunctionOnSet(f, part[a])
    BY <1>6
  <2>2. IsFiniteSet(DOMAIN q) /\ IsFiniteSet(Account)
        /\ (\A i \in DOMAIN q : key[i] \in Account) /\ \A i \in DOMAIN q : f[i] \in Int
    BY <1>1, <1>7
  <2> HIDE DEF g
  <2>3. SumFunctionOnSet(g, Account) = SumFunctionOnSet(f, DOMAIN q)
    BY ONLY <2>1, <2>2, <1>9, SumOfFibres
  <2> QED BY <2>3 DEF g
<1>11. R!SumFunction(row.base) = SumFunctionOnSet(row.base, Account)
  BY <1>6, SameSums
<1> QED BY <1>5, <1>8, <1>10, <1>11 DEF row

\* Amounts that cancel, converted at one rate, leave half a unit each at most.
LEMMA RoundingsAdd ==
  ASSUME NEW F, IsFiniteSet(F), NEW x, NEW b, \A i \in F : x[i] \in Int /\ b[i] \in Int,
         NEW k \in Int, NEW d \in Nat \ {0},
         \A i \in F : 2 * (d * b[i]) - 2 * (x[i] * k) \in (-d)..d,
         SumFunctionOnSet(x, F) = 0
  PROVE  2 * SumFunctionOnSet(b, F) \in (-Cardinality(F))..Cardinality(F)
<1> DEFINE B == SumFunctionOnSet(b, F)
           n == Cardinality(F)
           up == [i \in F |-> (2 * d) * b[i]]
           by == [i \in F |-> (-2 * k) * x[i]]
           off == [i \in F |-> up[i] + by[i]]
           one == [i \in F |-> 1]
           most == [i \in F |-> d * one[i]]
           least == [i \in F |-> (-d) * one[i]]
<1>1. B \in Int /\ n \in Nat
  BY SumIsInt, FS_CardinalityType
<1>2. SumFunctionOnSet(up, F) = (2 * d) * B
  <2>1. 2 * d \in Int /\ \A i \in F : b[i] \in Int /\ up[i] = (2 * d) * b[i]
    OBVIOUS
  <2> HIDE DEF up
  <2> QED BY <2>1, SumScales
<1>3. SumFunctionOnSet(by, F) = 0
  <2>1. -2 * k \in Int /\ \A i \in F : x[i] \in Int /\ by[i] = (-2 * k) * x[i]
    OBVIOUS
  <2> HIDE DEF by
  <2>2. SumFunctionOnSet(by, F) = (-2 * k) * SumFunctionOnSet(x, F)
    BY <2>1, SumScales
  <2> QED BY <2>1, <2>2
<1>4. \A i \in F : up[i] \in Int /\ by[i] \in Int /\ off[i] = up[i] + by[i]
  OBVIOUS
<1>5. \A i \in F : most[i] = d /\ least[i] = -d /\ one[i] = 1
  OBVIOUS
<1>6. \A i \in F : least[i] <= off[i] /\ off[i] <= most[i]
  <2> TAKE i \in F
  <2>1. x[i] \in Int /\ b[i] \in Int /\ 2 * (d * b[i]) - 2 * (x[i] * k) \in (-d)..d
    OBVIOUS
  <2>2. off[i] = 2 * (d * b[i]) - 2 * (x[i] * k)
    <3>1. off[i] = (2 * d) * b[i] + (-2 * k) * x[i]
      OBVIOUS
    <3>2. (2 * d) * b[i] = 2 * (d * b[i]) /\ (-2 * k) * x[i] = -(2 * (x[i] * k))
      BY <2>1
    <3>3. d * b[i] \in Int /\ x[i] * k \in Int
      BY <2>1
    <3> HIDE DEF off
    <3> QED BY <3>1, <3>2, <3>3
  <2> HIDE DEF off, most, least
  <2> QED BY <1>5, <2>1, <2>2
<1>7. \A i \in F : most[i] = d * one[i] /\ least[i] = (-d) * one[i]
  OBVIOUS
<1> HIDE DEF up, by, off, one, most, least, B, n
<1>8. SumFunctionOnSet(off, F) = (2 * d) * B
  <2>1. SumFunctionOnSet(off, F) = SumFunctionOnSet(up, F) + SumFunctionOnSet(by, F)
    <3>1. IsFiniteSet(F) /\ \A i \in F : up[i] \in Int /\ by[i] \in Int /\ off[i] = up[i] + by[i]
      BY <1>4
    <3> QED BY ONLY <3>1, SumOfPairs
  <2> DEFINE p == (2 * d) * B
  <2>2. p \in Int /\ SumFunctionOnSet(up, F) = p
    BY <1>1, <1>2
  <2> HIDE DEF p
  <2>3. SumFunctionOnSet(off, F) = p
    BY <1>3, <2>1, <2>2
  <2> QED BY <2>3 DEF p
<1>9. SumFunctionOnSet(one, F) = n
  BY <1>5, SumOfOnes DEF n
<1>10. SumFunctionOnSet(most, F) = d * n /\ SumFunctionOnSet(least, F) = (-d) * n
  <2>1. \A i \in F : one[i] \in Int
    BY <1>5
  <2>2. d \in Int /\ -d \in Int
    OBVIOUS
  <2>3. SumFunctionOnSet(most, F) = d * n
    <3>1. \A i \in F : one[i] \in Int /\ most[i] = d * one[i]
      BY <1>7, <2>1
    <3>2. SumFunctionOnSet(most, F) = d * SumFunctionOnSet(one, F)
      BY <2>2, <3>1, SumScales
    <3> QED BY <1>9, <3>2
  <2>4. SumFunctionOnSet(least, F) = (-d) * n
    <3>1. \A i \in F : one[i] \in Int /\ least[i] = (-d) * one[i]
      BY <1>7, <2>1
    <3>2. SumFunctionOnSet(least, F) = (-d) * SumFunctionOnSet(one, F)
      BY <2>2, <3>1, SumScales
    <3> QED BY <1>9, <3>2
  <2> QED BY <2>3, <2>4
<1>11. (-d) * n <= (2 * d) * B /\ (2 * d) * B <= d * n
  <2>1. \A i \in F : least[i] \in Int /\ off[i] \in Int /\ most[i] \in Int
    BY <1>4, <1>5
  <2>2. SumFunctionOnSet(off, F) <= SumFunctionOnSet(most, F)
    BY <1>6, <2>1, SumGrows
  <2>3. SumFunctionOnSet(least, F) <= SumFunctionOnSet(off, F)
    BY <1>6, <2>1, SumGrows
  <2> QED BY <1>8, <1>10, <2>2, <2>3
<1>12. -n <= 2 * B
  <2> SUFFICES ASSUME -n > 2 * B PROVE FALSE
    BY <1>1
  <2>1. -n - 2 * B >= 1
    BY <1>1
  <2>2. d * (-n - 2 * B) >= d
    BY <1>1, <2>1
  <2>3. d * (-n - 2 * B) = (-d) * n - (2 * d) * B
    BY <1>1
  <2> QED BY <1>1, <1>11, <2>2, <2>3
<1>13. 2 * B <= n
  <2> SUFFICES ASSUME 2 * B > n PROVE FALSE
    BY <1>1
  <2>1. 2 * B - n >= 1
    BY <1>1
  <2>2. d * (2 * B - n) >= d
    BY <1>1, <2>1
  <2>3. d * (2 * B - n) = (2 * d) * B - d * n
    BY <1>1
  <2> QED BY <1>1, <1>11, <2>2, <2>3
<1> QED BY <1>1, <1>12, <1>13 DEF B, n

\* Where every currency balances, so do all foreign amounts together.
LEMMA ForeignCancels ==
  ASSUME NEW q \in Seq(Posting), R!CurrenciesBalance(q)
  PROVE  LET x == [i \in DOMAIN q |-> q[i].amount]
             F == {i \in DOMAIN q : q[i].account \in R!Foreign}
         IN  SumFunctionOnSet(x, F) = 0 /\ SumFunctionOnSet(x, DOMAIN q \ F) = 0
<1> DEFINE D == DOMAIN q
           x == [i \in D |-> q[i].amount]
           F == {i \in D : q[i].account \in R!Foreign}
           key == [i \in D |-> CurrencyOf[q[i].account]]
           A == {key[i] : i \in F}
           part == [c \in A |-> R!In(q, c)]
           g == [c \in A |-> SumFunctionOnSet(x, part[c])]
<1>1. IsFiniteSet(D) /\ \A i \in D : q[i].account \in Account /\ x[i] \in Int
  BY PostingSums DEF Posting
<1>2. \A i \in D : SumFunctionOnSet(x, R!In(q, key[i])) = 0
  BY SameSums DEF R!CurrenciesBalance, R!SumAmount
<1>3. \A i \in D : i \in F <=> key[i] # Home
  BY <1>1 DEF R!Foreign
<1>4. IsFiniteSet(F) /\ IsFiniteSet(A)
  <2>1. F \in SUBSET D
    OBVIOUS
  <2>2. IsFiniteSet(F)
    BY <1>1, <2>1, FS_Subset
  <2> DEFINE to == [i \in F |-> key[i]]
  <2>3. to \in Surjection(F, A)
    BY DEF Surjection
  <2> HIDE DEF F, A, to
  <2> QED BY <2>2, <2>3, FS_Surjection
<1>5. \A c \in A : \A i : i \in part[c] <=> i \in F /\ key[i] = c
  <2> TAKE c \in A
  <2>1. c # Home
    BY <1>3
  <2>2. part[c] = R!In(q, c)
    OBVIOUS
  <2>3. \A i : i \in part[c] <=> i \in D /\ key[i] = c
    BY <2>2 DEF R!In
  <2> HIDE DEF D, F, A, part, key
  <2>4. \A i \in F : i \in D
    BY DEF F
  <2> QED BY <1>3, <2>1, <2>3, <2>4
<1>6. SumFunctionOnSet(x, F) = 0
  <2>1. \A c \in A : g[c] = SumFunctionOnSet(x, part[c])
    OBVIOUS
  <2>2. \A c \in A : g[c] = 0
    BY <1>2
  <2>3. /\ \A i \in F : key[i] \in A
        /\ \A i \in F : x[i] \in Int
    BY <1>1
  <2> HIDE DEF D, x, F, key, A, part, g
  <2>4. SumFunctionOnSet(g, A) = SumFunctionOnSet(x, F)
    BY ONLY <1>4, <1>5, <2>1, <2>3, SumOfFibres
  <2>5. SumFunctionOnSet(g, A) = 0
    BY <1>4, <2>2, SumOfZeros
  <2> QED BY <2>4, <2>5
<1>7. SumFunctionOnSet(x, D \ F) = 0
  <2>1. CASE D \ F = {}
    BY <2>1, SumOfNone
  <2>2. CASE D \ F # {}
    <3>1. PICK i \in D : key[i] = Home
      BY <1>3, <2>2
    <3>2. R!In(q, Home) = D \ F
      BY <1>3 DEF R!In
    <3> HIDE DEF x, D, F, key
    <3> QED BY <1>2, <3>1, <3>2
  <2> QED BY <2>1, <2>2
<1> QED BY <1>6, <1>7

\* What an entry leaves to the FX account is what its lines fail to add up to.
LEMMA PlugIsResidual ==
  ASSUME Bookable, NEW r \in Retranslation, r.op = "post", R!MayDraft(r)
  PROVE  LET q == R!ResolveBaseAmounts(r.lines, r.currency)
         IN  /\ R!Written(r.month, R!Drafted(r)).base[FxAccount] - R!ByHand(r) = -R!Residual(q)
             /\ R!Residual(q) = 0 \/ R!CurrenciesBalance(q)
<1> DEFINE q == R!ResolveBaseAmounts(r.lines, r.currency)
           D == DOMAIN q
           z == R!Residual(q)
           h == [i \in D |-> R!Amount(r.lines[i])]
           H == R!On(q, FxAccount)
           all == R!Drafted(r)
           plug == [account |-> FxAccount, amount |-> -z, base |-> -z]
<1>1. /\ q \in Seq(Posting) /\ D = DOMAIN r.lines
      /\ \A i \in D : q[i].account = r.lines[i].account /\ q[i].amount = R!Amount(r.lines[i])
                      /\ q[i].base = R!BaseAmount(r.lines[i], r.currency)
  BY ResolvedIs
<1>2. FxAccount \in Account /\ FxAccount \notin R!Foreign
  BY DEF Bookable, R!DraftingAssumption, R!Foreign
<1>3. R!ByHand(r) = SumFunctionOnSet(h, H)
  <2>1. R!On(r.lines, FxAccount) = H
    BY <1>1 DEF R!On
  <2>2. R!ByHand(r) = R!SumFunctionOnSet([i \in DOMAIN r.lines |-> R!Amount(r.lines[i])], R!On(r.lines, FxAccount))
    BY DEF R!ByHand
  <2>3. [i \in DOMAIN r.lines |-> R!Amount(r.lines[i])] = h
    BY <1>1
  <2> HIDE DEF q, h, H
  <2> QED BY <2>1, <2>2, <2>3, SameSums
<1>4. R!Written(r.month, all).base[FxAccount] = R!SumBase(all, R!On(all, FxAccount))
  <2> HIDE DEF all
  <2> QED BY <1>2 DEF R!Written
<1>5. H \in SUBSET D /\ IsFiniteSet(H) /\ z \in Int
  <2>1. H \in SUBSET D
    BY DEF R!On
  <2> HIDE DEF q, H
  <2> QED BY <1>1, <2>1, PostingSums DEF R!Residual
<1>6. R!IsValid(all)
  BY DEF R!MayDraft
<1>7. z = 0 \/ R!CurrenciesBalance(q)
  <2>1. CASE r.fxAdjustment
    BY <2>1 DEF R!MayDraft
  <2>2. CASE ~r.fxAdjustment
    <3>1. all = q
      BY <2>2 DEF R!Drafted
    <3> HIDE DEF q, all
    <3> QED BY <1>6, <3>1 DEF R!IsValid
  <2> QED BY <2>1, <2>2
<1>8. CASE all = q
  <2>1. z = 0
    BY <1>6, <1>8 DEF R!IsValid
  <2>2. R!SumBase(q, H) = SumFunctionOnSet([i \in D |-> q[i].base], H)
    BY SameSums DEF R!SumBase
  <2>3. \A i \in H : h[i] = [j \in D |-> q[j].base][i]
    <3> TAKE i \in H
    <3>1. i \in D /\ r.lines[i].account = FxAccount
      BY <1>1 DEF R!On
    <3>2. R!BaseAmount(r.lines[i], r.currency) = R!Amount(r.lines[i])
      <4> DEFINE line == r.lines[i]
      <4>1. R!Resolvable(line, r.currency) /\ line.account \notin R!Foreign
        BY <1>1, <1>2, <3>1 DEF R!MayDraft
      <4> HIDE DEF line
      <4>2. line.by = "base" => R!Stated(line, r.currency) = R!Amount(line)
        BY <4>1 DEF R!Resolvable
      <4>3. R!BaseAmount(line, r.currency) = R!Amount(line)
        BY <4>1, <4>2 DEF R!BaseAmount
      <4> QED BY <4>3 DEF line
    <3> QED BY <1>1, <3>1, <3>2
  <2> DEFINE b == [j \in D |-> q[j].base]
  <2> HIDE DEF h, b, H, q, z, all, D
  <2>4. SumFunctionOnSet(h, H) = SumFunctionOnSet(b, H)
    BY <1>5, <2>3, SumsAgree DEF b
  <2>5. R!SumBase(all, R!On(all, FxAccount)) = R!ByHand(r)
    BY <1>3, <1>8, <2>2, <2>4 DEF b, H
  <2>6. R!SumBase(q, H) \in Int
    BY <1>1, <1>5, PostingSums DEF D
  <2> QED BY <1>3, <1>4, <1>7, <2>1, <2>2, <2>4, <2>5, <2>6 DEF z, q, all, b
<1>9. CASE all # q
  <2>1. all = Append(q, plug)
    BY <1>9 DEF R!Drafted, R!AppendFxAdjustment
  <2> DEFINE n == Len(q) + 1
  <2>2. n \in Nat /\ n \in DOMAIN all /\ all[n] = plug /\ DOMAIN all = D \cup {n} /\ n \notin D
        /\ \A i \in D : all[i] = q[i]
    <3> HIDE DEF q, all, plug
    <3> QED BY <1>1, <2>1
  <2>3. R!On(all, FxAccount) = {n}
    <3>1. all[n].account = FxAccount
      BY <2>2
    <3> HIDE DEF all, n
    <3> QED BY <1>6, <2>2, <3>1 DEF R!IsValid
  <2>4. H = {}
    <3> SUFFICES ASSUME NEW i \in H PROVE FALSE
      OBVIOUS
    <3>1. i \in D /\ q[i].account = FxAccount
      BY DEF R!On
    <3> HIDE DEF q, all, H, n
    <3>2. i \in R!On(all, FxAccount) /\ i # n
      BY <2>2, <3>1 DEF R!On
    <3> QED BY <2>3, <3>2
  <2> DEFINE b == [j \in DOMAIN all |-> all[j].base]
  <2>5. b[n] = -z
    BY <2>2
  <2>6. R!SumBase(all, {n}) = SumFunctionOnSet(b, {n})
    BY SameSums DEF R!SumBase
  <2> HIDE DEF b, n, all, q, z, h, H
  <2>7. SumFunctionOnSet(b, {n}) = -z
    <3>1. IsFiniteSet({n})
      BY FS_Singleton
    <3>2. b[n] \in Int
      BY <1>5, <2>5
    <3>3. IsFiniteSet({n}) /\ n \in {n} /\ {n} \ {n} = {} /\ \A j \in {n} : b[j] \in Int
      BY <3>1, <3>2
    <3>4. SumFunctionOnSet(b, {n}) = b[n] + SumFunctionOnSet(b, {n} \ {n})
      BY ONLY <3>3, SumTakesAny
    <3>5. SumFunctionOnSet(b, {n} \ {n}) = 0
      BY <3>3, SumOfNone
    <3> QED BY <1>5, <2>5, <3>4, <3>5
  <2>8. R!ByHand(r) = 0
    BY <1>3, <2>4, SumOfNone
  <2> QED BY <1>4, <1>5, <1>7, <2>3, <2>6, <2>7, <2>8 DEF z, q, all
<1> QED BY <1>8, <1>9

\* An entry balances in the functional currency, and one converted at a single
\* rate leaves at most half a unit a line to the FX account.
LEMMA OneRateRounds ==
  ASSUME Bookable, NEW r \in Retranslation, r.op = "post", R!MayDraft(r)
  PROVE  LET row == R!Written(r.month, R!Drafted(r))
             n == R!Cardinality(R!ForeignLines(r))
         IN  /\ R!SumFunction(row.base) = 0
             /\ R!AtOneRate(r) => 2 * (row.base[FxAccount] - R!ByHand(r)) \in (-n)..n
<1> DEFINE q == R!ResolveBaseAmounts(r.lines, r.currency)
           D == DOMAIN q
           F == {i \in D : q[i].account \in R!Foreign}
           x == [i \in D |-> q[i].amount]
           b == [i \in D |-> q[i].base]
           row == R!Written(r.month, R!Drafted(r))
           z == R!Residual(q)
<1>1. R!SumFunction(row.base) = 0
  <2>1. R!Residual(R!Drafted(r)) = 0
    BY DEF R!MayDraft, R!IsValid
  <2>2. R!Drafted(r) \in Seq(Posting) /\ r.month \in Month
    BY DraftedIs DEF Bookable, R!RequestAssumption
  <2> QED BY <2>1, <2>2, WrittenIs
<1>2. /\ q \in Seq(Posting) /\ D = DOMAIN r.lines
      /\ \A i \in D : /\ r.lines[i] \in R!WrittenLine
                      /\ q[i].account = r.lines[i].account /\ q[i].amount = R!Amount(r.lines[i])
                      /\ q[i].base = R!BaseAmount(r.lines[i], r.currency)
  BY ResolvedIs
<1>3. F = R!ForeignLines(r)
  BY <1>2 DEF R!ForeignLines
<1>4. row.base[FxAccount] - R!ByHand(r) = -z /\ (z = 0 \/ R!CurrenciesBalance(q))
  BY PlugIsResidual
<1>5. IsFiniteSet(D) /\ \A i \in D : x[i] \in Int /\ b[i] \in Int
  BY <1>2, PostingSums DEF Posting
<1>6. F \in SUBSET D /\ IsFiniteSet(F) /\ Cardinality(F) \in Nat /\ R!Cardinality(F) = Cardinality(F)
  <2>1. F \in SUBSET D
    OBVIOUS
  <2> HIDE DEF F, D
  <2> QED BY <1>5, <2>1, FS_Subset, FS_CardinalityType, SameSizes
<1>7. ASSUME R!AtOneRate(r), R!CurrenciesBalance(q)
      PROVE  2 * z \in (-Cardinality(F))..Cardinality(F)
  <2>1. SumFunctionOnSet(x, F) = 0 /\ SumFunctionOnSet(x, D \ F) = 0
    BY <1>2, <1>7, ForeignCancels
  <2>2. \A i \in D \ F : b[i] = x[i]
    <3> TAKE i \in D \ F
    <3> DEFINE line == r.lines[i]
    <3>1. R!Resolvable(line, r.currency) /\ line.account \notin R!Foreign
      BY <1>2 DEF R!MayDraft
    <3>2. b[i] = R!BaseAmount(line, r.currency) /\ x[i] = R!Amount(line)
      BY <1>2
    <3> HIDE DEF line, b, x
    <3>3. line.by = "base" => R!Stated(line, r.currency) = R!Amount(line)
      BY <3>1 DEF R!Resolvable
    <3> QED BY <3>1, <3>2, <3>3 DEF R!BaseAmount
  <2>3. z = SumFunctionOnSet(b, F)
    <3>1. z = SumFunctionOnSet(b, D)
      BY SameSums DEF R!Residual, R!SumBase
    <3> HIDE DEF z, b, x, D, F
    <3>2. SumFunctionOnSet(b, D) = SumFunctionOnSet(b, F) + SumFunctionOnSet(b, D \ F)
      BY <1>5, <1>6, SumOfParts
    <3>3. SumFunctionOnSet(b, D \ F) = SumFunctionOnSet(x, D \ F)
      <4>1. IsFiniteSet(D \ F)
        BY <1>5, FS_Difference
      <4> QED BY <2>2, <4>1, SumsAgree
    <3>4. SumFunctionOnSet(b, F) \in Int
      <4>1. \A i \in F : b[i] \in Int
        BY <1>5, <1>6
      <4> QED BY <1>6, <4>1, SumIsInt
    <3> QED BY <2>1, <3>1, <3>2, <3>3, <3>4
  <2>4. CASE F = {}
    <3> HIDE DEF z, b, x, D, F
    <3>1. z = 0
      BY <2>3, <2>4, SumOfNone
    <3>2. Cardinality(F) = 0
      BY <2>4, FS_EmptySet
    <3> QED BY <3>1, <3>2
  <2>5. CASE F # {}
    <3>1. PICK k \in Int : \A i \in F : b[i] = R!Convert(x[i], k)
      <4>1. PICK j \in F : TRUE
        BY <2>5
      <4> DEFINE k == r.lines[j].given
      <4>2. k \in Int
        BY <1>2 DEF R!WrittenLine
      <4>3. ASSUME NEW i \in F PROVE b[i] = R!Convert(x[i], k)
        <5> DEFINE line == r.lines[i]
        <5>1. line.by = "rate" /\ line.given = k
          <6>1. i \in R!ForeignLines(r) /\ j \in R!ForeignLines(r)
            BY <1>3
          <6> QED BY <1>7, <6>1 DEF R!AtOneRate
        <5>2. line.account \in R!Foreign
          BY <1>2
        <5>3. b[i] = R!BaseAmount(line, r.currency) /\ x[i] = R!Amount(line)
          BY <1>2
        <5> HIDE DEF line, b, x, k
        <5>4. R!BaseAmount(line, r.currency) = R!Convert(R!Amount(line), k)
          BY <5>1, <5>2 DEF R!BaseAmount
        <5> QED BY <5>3, <5>4
      <4> QED BY <4>2, <4>3
    <3>2. RateScale \in Nat \ {0} /\ R!ScaleAssumption
      BY DEF Bookable, R!ScaleAssumption
    <3> HIDE DEF z, b, x, D, F
    <3>3. \A i \in F : x[i] \in Int /\ b[i] \in Int
      BY <1>5, <1>6
    <3>4. \A i \in F : 2 * (RateScale * b[i]) - 2 * (x[i] * k) \in (-RateScale)..RateScale
      <4> TAKE i \in F
      <4>1. 2 * (RateScale * R!Convert(x[i], k)) - 2 * (x[i] * k) \in (-RateScale)..RateScale
        BY <3>2, <3>3, ConvertIsNear
      <4> QED BY <3>1, <4>1
    <3>5. 2 * SumFunctionOnSet(b, F) \in (-Cardinality(F))..Cardinality(F)
      BY <1>6, <2>1, <3>2, <3>3, <3>4, RoundingsAdd
    <3> QED BY <2>3, <3>5
  <2> QED BY <2>4, <2>5
<1>8. z \in Int
  <2> HIDE DEF q
  <2> QED BY <1>2, PostingSums DEF R!Residual
<1>9. ASSUME R!AtOneRate(r) PROVE 2 * (-z) \in (-Cardinality(F))..Cardinality(F)
  <2>1. 2 * z \in (-Cardinality(F))..Cardinality(F)
    <3> HIDE DEF z, F, q
    <3> QED BY <1>4, <1>6, <1>7, <1>9
  <2> HIDE DEF z, F, q
  <2> QED BY <1>6, <1>8, <2>1
<1> HIDE DEF row, z, F
<1> QED BY <1>1, <1>3, <1>4, <1>6, <1>9 DEF row

(***************************************************************************)
(* The books, and what a revaluation is about to write in them.            *)
(***************************************************************************)
BookTypes ==
  /\ journal \in Seq(R!EntryRow)
  /\ \A r \in rates : r.month \in Month /\ r.rate \in Nat
  /\ lines \in [Session -> [R!Foreign -> Int]]

\* Undisturbed, what a session computed is still what there is to write.
Planned(s) ==
  \E month, at : month = req[s].month /\ at \in R!Closing(month) /\ lines[s] = R!Differences(at)
PlanInv == \A s \in Session : pc[s] = "post" /\ ~moved[s] => Planned(s)

BookInv == GatedInv /\ BookTypes /\ PlanInv

LEMMA SumsAreInt ==
  ASSUME BookTypes, NEW a \in Account
  PROVE  R!Balance(a) \in Int /\ R!Carried(a) \in Int
<1> DEFINE f == [i \in DOMAIN journal |-> journal[i].amount[a]]
           g == [i \in DOMAIN journal |-> journal[i].base[a]]
<1>1. DOMAIN journal = 1..Len(journal) /\ Len(journal) \in Nat
      /\ \A i \in DOMAIN journal : journal[i] \in R!EntryRow
  BY DEF BookTypes
<1>2. IsFiniteSet(DOMAIN journal)
  BY <1>1, FS_Interval
<1>3. \A i \in DOMAIN journal : f[i] \in Int /\ g[i] \in Int
  BY <1>1 DEF R!EntryRow
<1>4. R!Balance(a) = SumFunctionOnSet(f, DOMAIN journal)
  BY SameSums DEF R!Balance, R!AmountIn
<1>5. R!Carried(a) = SumFunctionOnSet(g, DOMAIN journal)
  BY SameSums DEF R!Carried, R!BaseIn
<1> HIDE DEF f, g
<1> QED BY <1>2, <1>3, <1>4, <1>5, SumIsInt

LEMMA DifferencesAre ==
  ASSUME Bookable, BookTypes, NEW m, NEW at \in R!Closing(m)
  PROVE  /\ \A a \in R!Held : R!Convert(R!Balance(a), at[a]) \in Int
         /\ R!Differences(at) \in [R!Foreign -> Int]
<1>1. ASSUME NEW a \in R!Held PROVE at[a] \in Nat
  <2>1. at[a] \in R!RateOn(CurrencyOf[a], m)
    BY DEF R!Closing
  <2> QED BY <2>1 DEF R!RateOn, BookTypes
<1>2. ASSUME NEW a \in R!Held PROVE R!Convert(R!Balance(a), at[a]) \in Int /\ R!Carried(a) \in Int
  <2>1. R!Balance(a) \in Int /\ R!Carried(a) \in Int
    BY SumsAreInt DEF R!Held, R!Foreign
  <2>2. R!Convert(R!Balance(a), at[a]) \in Int
    <3>1. PICK rate \in Int : rate = at[a]
      BY <1>1
    <3>2. R!ScaleAssumption
      BY DEF Bookable
    <3>3. R!Convert(R!Balance(a), rate) \in Int
      BY ONLY <2>1, <3>2, ConvertIsNear, rate \in Int
    <3> QED BY <3>1, <3>3
  <2> QED BY <2>1, <2>2
<1>3. \A a \in R!Held : R!Convert(R!Balance(a), at[a]) - R!Carried(a) \in Int
  BY <1>2
<1> QED BY <1>2, <1>3 DEF R!Differences

LEMMA PlansStand ==
  ASSUME UNCHANGED <<journal, rates>>
  PROVE  /\ \A m : R!Closing(m)' = R!Closing(m)
         /\ \A at : R!Differences(at)' = R!Differences(at)
<1>1. \A a : R!Balance(a)' = R!Balance(a) /\ R!Carried(a)' = R!Carried(a)
  BY DEF R!Balance, R!Carried, R!AmountIn, R!BaseIn
<1>2. \A c, m : R!RateOn(c, m)' = R!RateOn(c, m)
  BY DEF R!RateOn
<1>3. R!Held' = R!Held
  BY HeldStands
<1>4. ASSUME NEW m PROVE R!Closing(m)' = R!Closing(m)
  BY <1>2, <1>3 DEF R!Closing
<1>5. ASSUME NEW at PROVE R!Differences(at)' = R!Differences(at)
  BY <1>1, <1>3 DEF R!Differences
<1> QED BY <1>4, <1>5

LEMMA BookInit == Bookable /\ R!Init => BookInv
<1> SUFFICES ASSUME Bookable, R!Init PROVE BookInv
  OBVIOUS
<1>1. BookTypes
  BY DEF R!Init, R!NoLines, BookTypes
<1>2. PlanInv
  BY DEF R!Init, PlanInv
<1> QED BY <1>1, <1>2, GatedInit DEF BookInv

\* A request that is under way is one of those there are.
LEMMA RequestIs ==
  ASSUME GatedInv, NEW s \in Session
  PROVE  /\ req[s].month \in Month
         /\ req[s].op # "none" => req[s] \in Retranslation
BY DEF GatedInv, GateTypes, MonthsNamed, R!NoRequest

LEMMA AdjustmentIs ==
  ASSUME Bookable, GatedInv, BookTypes, NEW s \in Session, R!Adjust(s)
  PROVE  \E row \in R!EntryRow :
           /\ journal' = Append(journal, row)
           /\ \A a \in R!Foreign : row.base[a] = lines[s][a]
           /\ row.base[FxAccount] = -R!Total(lines[s])
<1> DEFINE total == R!Total(lines[s])
           row == [month |-> req[s].month,
                   amount |-> [a \in Account |-> IF a = FxAccount THEN -total ELSE 0],
                   base |-> [a \in Account |-> CASE a = FxAccount -> -total
                                                 [] a \in R!Foreign -> lines[s][a] [] OTHER -> 0]]
<1>1. journal' = Append(journal, row)
  BY DEF R!Adjust
<1>2. lines[s] \in [R!Foreign -> Int] /\ FxAccount \in Account /\ FxAccount \notin R!Foreign
      /\ R!Foreign \in SUBSET Account /\ IsFiniteSet(Account)
  BY SameSizes DEF BookTypes, Bookable, R!DraftingAssumption, R!Foreign
<1>3. total \in Int
  <2>1. total = SumFunctionOnSet(lines[s], R!Foreign)
    BY <1>2, SameSums DEF R!Total
  <2>2. IsFiniteSet(R!Foreign) /\ \A a \in R!Foreign : lines[s][a] \in Int
    BY <1>2, FS_Subset
  <2> HIDE DEF total
  <2> QED BY <2>1, <2>2, SumIsInt
<1> HIDE DEF total
<1>4. \A a \in Account : row.base[a] \in Int /\ row.amount[a] \in Int
  BY <1>2, <1>3
<1>5. row \in R!EntryRow
  BY <1>4, RequestIs DEF R!EntryRow
<1>6. row.base[FxAccount] = -total /\ \A a \in R!Foreign : row.base[a] = lines[s][a]
  BY <1>2
<1> QED BY <1>1, <1>5, <1>6 DEF total

LEMMA PostIs ==
  ASSUME Bookable, GatedInv, BookTypes, NEW s \in Session, R!Post(s)
  PROVE  LET row == R!Written(req[s].month, R!Drafted(req[s]))
         IN  /\ journal' = Append(journal, row) /\ row \in R!EntryRow
             /\ req[s] \in Retranslation /\ req[s].op = "post" /\ R!MayDraft(req[s])
<1>1. req[s] \in Retranslation /\ req[s].month \in Month /\ req[s].op = "post" /\ R!MayDraft(req[s])
  BY RequestIs DEF R!Post
<1>2. R!Drafted(req[s]) \in Seq(Posting)
  BY <1>1, DraftedIs
<1>3. R!Written(req[s].month, R!Drafted(req[s])) \in R!EntryRow
  BY <1>1, <1>2, WrittenIs
<1> QED BY <1>1, <1>3 DEF R!Post

\* Every entry there is has the shape of one, whatever is written next.
LEMMA FinishClears ==
  ASSUME BookTypes, NEW s \in Session, R!Finish(s)
  PROVE  lines' \in [Session -> [R!Foreign -> Int]]
<1>1. R!NoLines \in [R!Foreign -> Int]
  BY DEF R!NoLines
<1> QED BY <1>1 DEF R!Finish, BookTypes

LEMMA CommittedBooks ==
  ASSUME Bookable, GatedInv, BookTypes, NEW s \in Session, Committed(s)
  PROVE  BookTypes'
<1>1. lines' \in [Session -> [R!Foreign -> Int]]
  BY CommittedPeriods, FinishClears DEF GatedInv, R!Commit
<1>2. CASE R!Record(s)
  <2>1. req[s] \in Retranslation /\ req[s].month \in Month /\ req[s].rate \in Nat
    BY <1>2, RequestIs DEF R!Record, Bookable, R!RequestAssumption
  <2>2. \A q \in rates' : \/ q \in rates
                          \/ q.month = req[s].month /\ q.rate = req[s].rate
    BY <1>2 DEF R!Record
  <2>3. UNCHANGED journal
    BY <1>2 DEF R!Record
  <2> QED BY <1>1, <2>1, <2>2, <2>3 DEF BookTypes
<1>3. CASE R!Post(s) \/ R!Adjust(s)
  <2>1. PICK row \in R!EntryRow : journal' = Append(journal, row)
    BY <1>3, PostIs, AdjustmentIs
  <2>2. UNCHANGED rates
    BY <1>3 DEF R!Post, R!Adjust
  <2>3. journal' \in Seq(R!EntryRow)
    BY <2>1 DEF BookTypes
  <2> QED BY <1>1, <2>2, <2>3 DEF BookTypes
<1>4. CASE R!MarkOnly(s) \/ R!Lock(s) \/ R!Reopen(s)
  <2>1. UNCHANGED <<journal, rates>>
    BY <1>4 DEF R!MarkOnly, R!Lock, R!Reopen
  <2> QED BY <1>1, <2>1 DEF BookTypes
<1> QED BY <1>2, <1>3, <1>4 DEF Committed

\* What was there to write still is, while books and rates are left alone.
LEMMA PlannedStands ==
  ASSUME UNCHANGED <<journal, rates>>, NEW t \in Session, req'[t] = req[t],
         NEW at \in R!Closing(req[t].month), lines'[t] = R!Differences(at)
  PROVE  Planned(t)'
<1>1. PICK m : m = req[t].month
  OBVIOUS
<1>2. m = req'[t].month
  BY <1>1
<1>3. at \in R!Closing(m)' /\ lines'[t] = R!Differences(at)'
  BY <1>1, PlansStand
<1>4. \E m1 : m1 = req'[t].month /\ at \in R!Closing(m1)' /\ lines'[t] = R!Differences(at)'
  BY <1>2, <1>3
<1> QED BY <1>4 DEF Planned

\* Steps of others that leave books, rates and lines alone leave a plan alone.
LEMMA PlansOfOthers ==
  ASSUME PlanInv, UNCHANGED <<journal, rates>>, NEW s \in Session, pc'[s] # "post",
         \A t \in Session \ {s} :
           pc'[t] = pc[t] /\ req'[t] = req[t] /\ lines'[t] = lines[t] /\ moved'[t] = moved[t]
  PROVE  PlanInv'
<1> SUFFICES ASSUME NEW t \in Session, pc'[t] = "post", ~moved'[t] PROVE Planned(t)'
  BY DEF PlanInv
<1>1. t # s /\ pc[t] = "post" /\ ~moved[t]
  OBVIOUS
<1>2. PICK at \in R!Closing(req[t].month) : lines[t] = R!Differences(at)
  BY <1>1 DEF PlanInv, Planned
<1> QED BY <1>1, <1>2, PlannedStands

LEMMA RefusedPlans ==
  ASSUME BookInv, NEW s \in Session, R!Rollback(s)
  PROVE  BookTypes' /\ PlanInv'
<1>1. UNCHANGED <<journal, rates, moved>> /\ R!Finish(s)
  BY DEF R!Rollback, R!KeepBooks
<1>2. lines' \in [Session -> [R!Foreign -> Int]]
  BY <1>1, FinishClears DEF BookInv
<1>3. pc'[s] = "idle" /\ \A t \in Session \ {s} : pc'[t] = pc[t] /\ req'[t] = req[t] /\ lines'[t] = lines[t]
  BY <1>1 DEF R!Finish, R!Goto, BookInv, GatedInv, GateTypes, BookTypes
<1>4. BookTypes'
  BY <1>1, <1>2 DEF BookInv, BookTypes
<1>5. PlanInv'
  BY <1>1, <1>3, PlansOfOthers DEF BookInv
<1> QED BY <1>4, <1>5

LEMMA CommittedPlans ==
  ASSUME Bookable, BookInv, NEW s \in Session, Committed(s)
  PROVE  BookTypes' /\ PlanInv'
<1>1. R!Commit(s)
  BY CommittedPeriods DEF BookInv, GatedInv
<1>2. /\ pc'[s] = "idle" /\ \A t \in Session \ {s} : pc'[t] = pc[t]
      /\ moved' = [t \in Session |-> IF t = s THEN FALSE ELSE pc[t] # "idle"]
  BY <1>1 DEF R!Commit, R!Finish, R!Goto, BookInv, GatedInv, GateTypes
<1>3. \A t \in Session : ~moved'[t] => pc'[t] # "post"
  BY <1>2
<1> QED BY <1>3, CommittedBooks DEF BookInv, PlanInv

LEMMA LookingPlans ==
  ASSUME Bookable, BookInv, NEW s \in Session, R!Begin(s) \/ R!ReadPeriod(s) \/ R!Gate(s)
  PROVE  BookTypes' /\ PlanInv'
<1>1. /\ UNCHANGED <<journal, rates, lines>> /\ pc'[s] # "post"
      /\ \A t \in Session \ {s} : pc'[t] = pc[t] /\ req'[t] = req[t] /\ moved'[t] = moved[t]
  BY DEF R!Begin, R!ReadPeriod, R!Gate, R!Goto, R!KeepBooks, BookInv, GatedInv, GateTypes
<1>2. PlanInv'
  BY <1>1, PlansOfOthers DEF BookInv
<1> QED BY <1>1, <1>2 DEF BookInv, BookTypes

LEMMA ComputePlans ==
  ASSUME Bookable, BookInv, NEW s \in Session, R!Compute(s)
  PROVE  BookTypes' /\ PlanInv'
<1>1. PICK at \in R!Closing(req[s].month) : lines' = [lines EXCEPT ![s] = R!Differences(at)]
  BY DEF R!Compute
<1>2. /\ UNCHANGED <<journal, rates, moved, req>> /\ lines \in [Session -> [R!Foreign -> Int]]
      /\ \A t \in Session \ {s} : pc'[t] = pc[t]
  BY DEF R!Compute, R!Goto, R!KeepBooks, BookInv, BookTypes, GatedInv, GateTypes
<1>3. R!Differences(at) \in [R!Foreign -> Int]
  BY DifferencesAre DEF BookInv
<1>4. lines'[s] = R!Differences(at) /\ \A t \in Session \ {s} : lines'[t] = lines[t]
  BY <1>1, <1>2
<1>5. BookTypes'
  BY <1>1, <1>2, <1>3 DEF BookInv, BookTypes
<1>6. ASSUME NEW t \in Session, pc'[t] = "post", ~moved'[t] PROVE Planned(t)'
  <2>1. PICK as \in R!Closing(req[t].month) : lines'[t] = R!Differences(as)
    <3>1. CASE t = s
      BY <1>4, <3>1
    <3>2. CASE t # s
      BY <1>2, <1>4, <1>6, <3>2 DEF BookInv, PlanInv, Planned
    <3> QED BY <3>1, <3>2
  <2> QED BY <1>2, <2>1, PlannedStands
<1> QED BY <1>5, <1>6 DEF PlanInv

LEMMA BookStep ==
  ASSUME Bookable
  PROVE  BookInv /\ [R!Next]_(R!vars) => BookInv'
<1> SUFFICES ASSUME BookInv, [R!Next]_(R!vars) PROVE BookInv'
  OBVIOUS
<1>1. GatedInv'
  BY GatedStep DEF Bookable, BookInv
<1>2. BookTypes' /\ PlanInv'
  <2>1. CASE R!Next
    <3>1. PICK s \in Session :
            \/ R!Begin(s) \/ R!ReadPeriod(s) \/ R!Compute(s) \/ R!Gate(s) \/ Refused(s) \/ Committed(s)
      BY <2>1 DEF R!Next, R!Revalue, R!Close, Refused, Committed
    <3>2. Refused(s) => R!Rollback(s)
      BY DEF Refused, R!ComputeRefused, R!RevalueRefused, R!GateRefused, R!LockRefused, R!CheckRefused, R!Crash
    <3> QED BY <3>1, <3>2, LookingPlans, ComputePlans, RefusedPlans, CommittedPlans
  <2>2. CASE UNCHANGED R!vars
    <3>1. UNCHANGED <<journal, rates, pc, req, lines, moved>>
      BY <2>2 DEF R!vars
    <3>2. ASSUME NEW t \in Session, pc'[t] = "post", ~moved'[t] PROVE Planned(t)'
      <4>1. PICK at \in R!Closing(req[t].month) : lines[t] = R!Differences(at)
        BY <3>1, <3>2 DEF BookInv, PlanInv, Planned
      <4> QED BY <3>1, <4>1, PlannedStands
    <3> QED BY <3>1, <3>2 DEF BookInv, BookTypes, PlanInv
  <2> QED BY <2>1, <2>2
<1> QED BY <1>1, <1>2 DEF BookInv

LEMMA BookInvariant ==
  ASSUME Bookable
  PROVE  R!Spec => []BookInv
BY BookInit, BookStep, PTL DEF R!Spec

\* The books, rates, periods and sessions of the program that retranslates are
\* what the model says they are: what it converts stays a whole number.
THEOREM RevaluationTyped ==
  ASSUME Bookable
  PROVE  R!Spec => []R!TypeOK
<1>1. BookInv => R!TypeOK
  BY DEF BookInv, BookTypes, GatedInv, GateTypes, Places, R!TypeOK
<1> QED BY <1>1, BookInvariant, PTL

\* The books and the periods change when someone commits, and nobody else's place
\* changes then.
LEMMA WhoCommitted ==
  ASSUME BookInv, R!Next, journal' # journal \/ period' # period
  PROVE  \E s \in Session :
           /\ Committed(s) /\ \A t \in Session \ {s} : pc'[t] = pc[t]
           /\ journal' # journal => R!Post(s) \/ R!Adjust(s)
<1>1. PICK s \in Session :
        \/ R!Begin(s) \/ R!ReadPeriod(s) \/ R!Compute(s) \/ R!Gate(s) \/ Refused(s) \/ Committed(s)
  BY DEF R!Next, R!Revalue, R!Close, Refused, Committed
<1>2. Committed(s)
  <2>1. R!Begin(s) \/ R!ReadPeriod(s) \/ R!Compute(s) \/ R!Gate(s) => UNCHANGED <<journal, period>>
    BY DEF R!Begin, R!ReadPeriod, R!Compute, R!Gate, R!KeepBooks
  <2>2. Refused(s) => UNCHANGED <<journal, period>>
    BY DEF Refused, R!ComputeRefused, R!RevalueRefused, R!GateRefused, R!LockRefused, R!CheckRefused,
           R!Crash, R!Rollback, R!KeepBooks
  <2> QED BY <1>1, <2>1, <2>2
<1>3. \A t \in Session \ {s} : pc'[t] = pc[t]
  <2>1. R!Commit(s) /\ pc \in [Session -> Places]
    BY <1>2, CommittedPeriods DEF BookInv, GatedInv, GateTypes
  <2>2. pc' = [pc EXCEPT ![s] = "idle"]
    BY <2>1 DEF R!Commit, R!Finish, R!Goto
  <2> QED BY <2>1, <2>2
<1>4. journal' # journal => R!Post(s) \/ R!Adjust(s)
  BY <1>2 DEF Committed, R!Record, R!MarkOnly, R!Lock, R!Reopen
<1> QED BY <1>2, <1>3, <1>4

\* "The plug cannot swallow a typo" (appendFxAdjustment): every entry balances in
\* the functional currency, and one whose foreign lines are converted at a single
\* rate leaves at most half a unit a line to the FX account.
THEOREM OneRateEntriesRound ==
  ASSUME Bookable
  PROVE  R!Spec => R!OneRateOnlyRounds
<1> DEFINE Round(s) ==
      R!Posts(s) =>
        /\ R!SumFunction(R!Last(journal').base) = 0
        /\ R!AtOneRate(req[s]) =>
             2 * R!PlugOf(s) \in
               -R!Cardinality(R!ForeignLines(req[s]))..R!Cardinality(R!ForeignLines(req[s]))
<1>1. ASSUME BookInv, [R!Next]_(R!vars), NEW s \in Session, R!Posts(s) PROVE Round(s)
  <2>1. R!Next /\ journal' # journal /\ pc[s] = "check" /\ pc'[s] = "idle"
    BY <1>1 DEF R!Posts, R!vars
  <2>2. R!Post(s)
    <3>1. PICK t \in Session : (R!Post(t) \/ R!Adjust(t)) /\ \A u \in Session \ {t} : pc'[u] = pc[u]
      BY <1>1, <2>1, WhoCommitted
    <3>2. t = s
      BY <2>1, <3>1
    <3> QED BY <2>1, <3>1, <3>2 DEF R!Adjust
  <2> DEFINE row == R!Written(req[s].month, R!Drafted(req[s]))
             n == R!Cardinality(R!ForeignLines(req[s]))
  <2>3. /\ journal' = Append(journal, row) /\ row \in R!EntryRow
        /\ req[s] \in Retranslation /\ req[s].op = "post" /\ R!MayDraft(req[s])
    BY <1>1, <2>2, PostIs DEF BookInv
  <2>4. R!SumFunction(row.base) = 0
        /\ (R!AtOneRate(req[s]) => 2 * (row.base[FxAccount] - R!ByHand(req[s])) \in (-n)..n)
    BY <2>3, OneRateRounds
  <2> HIDE DEF row, n
  <2>5. R!Last(journal') = row
    BY <1>1, <2>3 DEF R!Last, BookInv, BookTypes
  <2>6. R!PlugOf(s) = row.base[FxAccount] - R!ByHand(req[s])
    BY <2>5 DEF R!PlugOf
  <2> QED BY <2>4, <2>5, <2>6 DEF n
<1>2. BookInv /\ [R!Next]_(R!vars) => [\A s \in Session : Round(s)]_(R!vars)
  BY <1>1
<1> QED BY <1>2, BookInvariant, PTL DEF R!Spec, R!OneRateOnlyRounds

\* An entry adds to what an account is carried at.
LEMMA EntryCarries ==
  ASSUME BookTypes, NEW row \in R!EntryRow, journal' = Append(journal, row), NEW a \in Account
  PROVE  R!Carried(a)' = R!Carried(a) + row.base[a]
<1> DEFINE D == DOMAIN journal
           n == Len(journal) + 1
           g == [i \in D |-> journal[i].base[a]]
           f == [i \in D \cup {n} |-> journal'[i].base[a]]
<1>1. /\ D = 1..Len(journal) /\ Len(journal) \in Nat /\ n \notin D /\ DOMAIN journal' = D \cup {n}
      /\ journal'[n] = row /\ \A i \in D : journal[i] \in R!EntryRow /\ journal'[i] = journal[i]
  BY DEF BookTypes
<1>2. IsFiniteSet(D)
  BY <1>1, FS_Interval
<1>3. f[n] = row.base[a] /\ f[n] \in Int /\ \A i \in D : g[i] \in Int /\ f[i] = g[i]
  BY <1>1 DEF R!EntryRow
<1>4. R!Carried(a) = SumFunctionOnSet(g, D)
  BY SameSums DEF R!Carried, R!BaseIn
<1>5. R!Carried(a)' = SumFunctionOnSet(f, D \cup {n})
  BY <1>1, SameSums DEF R!Carried, R!BaseIn
<1> HIDE DEF D, n, f, g
<1>6. IsFiniteSet(D) /\ n \notin D /\ (\A i \in D : g[i] \in Int /\ f[i] = g[i]) /\ f[n] \in Int
  BY <1>1, <1>2, <1>3
<1>7. SumFunctionOnSet(f, D \cup {n}) = SumFunctionOnSet(g, D) + f[n]
  BY ONLY <1>6, SumJoins
<1> QED BY <1>3, <1>4, <1>5, <1>7

\* What is taken from many accounts together is taken from one.
LEMMA OppositeTotals ==
  ASSUME NEW S, IsFiniteSet(S), NEW f \in [S -> Int], NEW g, \A x \in S : g[x] = -f[x]
  PROVE  SumFunctionOnSet(g, S) = -SumFunctionOnSet(f, S)
<1> DEFINE zero == [x \in S |-> 0]
<1>1. /\ IsFiniteSet(S) /\ \A x \in S : f[x] \in Int
      /\ \A x \in S : g[x] \in Int
      /\ \A x \in S : zero[x] = f[x] + g[x]
  OBVIOUS
<1>2. \A x \in S : zero[x] = 0
  OBVIOUS
<1> HIDE DEF zero
<1>3. SumFunctionOnSet(zero, S) = SumFunctionOnSet(f, S) + SumFunctionOnSet(g, S)
  BY <1>1, SumOfPairs
<1>4. SumFunctionOnSet(zero, S) = 0
  BY <1>1, <1>2, SumOfZeros
<1>5. SumFunctionOnSet(f, S) \in Int /\ SumFunctionOnSet(g, S) \in Int
  BY <1>1, SumIsInt
<1> QED BY <1>3, <1>4, <1>5

\* A revaluation that runs alone "needs no memory of the previous adjustment"
\* (revaluation.ts): it leaves every balance held at the rate of the end of its
\* month, and the FX account with what it took from them.
THEOREM LoneRevaluationsSettle ==
  ASSUME Bookable
  PROVE  R!Spec => R!LoneRevaluationSettles
<1> DEFINE Retranslated(s) ==
      pc[s] = "post" /\ ~moved[s] /\ (journal' # journal \/ period' # period) /\ pc'[s] = "idle" =>
        /\ \E at \in R!Closing(req[s].month) : \A a \in R!Foreign :
             R!Carried(a)' = IF a \in R!Held THEN R!Convert(R!Balance(a), at[a]) ELSE R!Carried(a)
        /\ R!Carried(FxAccount)' - R!Carried(FxAccount) =
             R!SumFunction([a \in R!Foreign |-> R!Carried(a) - R!Carried(a)'])
<1>1. ASSUME BookInv, [R!Next]_(R!vars), NEW s \in Session, pc[s] = "post", ~moved[s],
             journal' # journal \/ period' # period, pc'[s] = "idle"
      PROVE  /\ \E at \in R!Closing(req[s].month) : \A a \in R!Foreign :
                  R!Carried(a)' = IF a \in R!Held THEN R!Convert(R!Balance(a), at[a]) ELSE R!Carried(a)
             /\ R!Carried(FxAccount)' - R!Carried(FxAccount) =
                  R!SumFunction([a \in R!Foreign |-> R!Carried(a) - R!Carried(a)'])
  <2>1. R!Next
    BY <1>1 DEF R!vars
  <2>2. R!MarkOnly(s) \/ R!Adjust(s)
    <3>1. PICK t \in Session : Committed(t) /\ \A u \in Session \ {t} : pc'[u] = pc[u]
      BY <1>1, <2>1, WhoCommitted
    <3>2. t = s
      BY <1>1, <3>1
    <3> QED BY <1>1, <3>1, <3>2 DEF Committed, R!Record, R!Post, R!Lock, R!Reopen
  <2>3. PICK at \in R!Closing(req[s].month) : lines[s] = R!Differences(at)
    BY <1>1 DEF BookInv, PlanInv, Planned
  <2>4. /\ \A a \in R!Held : R!Convert(R!Balance(a), at[a]) \in Int
        /\ lines[s] \in [R!Foreign -> Int]
    BY <1>1, <2>3, DifferencesAre DEF BookInv
  <2>5. /\ FxAccount \in Account /\ IsFiniteSet(R!Foreign) /\ R!Foreign \subseteq Account
        /\ \A a \in Account : R!Carried(a) \in Int
    <3>1. R!Foreign \in SUBSET Account
      BY DEF R!Foreign
    <3> QED BY <1>1, <3>1, FS_Subset, SameSizes, SumsAreInt
        DEF BookInv, Bookable, R!DraftingAssumption
  <2>6. /\ \A a \in R!Foreign : R!Carried(a)' = R!Carried(a) + lines[s][a]
        /\ R!Carried(FxAccount)' - R!Carried(FxAccount) = -R!Total(lines[s])
    <3>1. CASE R!Adjust(s)
      <4>1. PICK row \in R!EntryRow :
              /\ journal' = Append(journal, row)
              /\ \A a \in R!Foreign : row.base[a] = lines[s][a]
              /\ row.base[FxAccount] = -R!Total(lines[s])
        BY <1>1, <3>1, AdjustmentIs DEF BookInv
      <4>2. \A a \in Account : R!Carried(a)' = R!Carried(a) + row.base[a]
        BY <1>1, <4>1, EntryCarries DEF BookInv
      <4>3. row.base[FxAccount] \in Int
        BY <2>5 DEF R!EntryRow
      <4> QED BY <2>5, <4>1, <4>2, <4>3
    <3>2. CASE R!MarkOnly(s)
      <4>1. lines[s] = R!NoLines /\ UNCHANGED journal
        BY <3>2 DEF R!MarkOnly
      <4>2. \A a \in Account : R!Carried(a)' = R!Carried(a)
        BY <4>1 DEF R!Carried, R!BaseIn
      <4>3. \A a \in R!Foreign : lines[s][a] = 0
        BY <4>1 DEF R!NoLines
      <4>4. R!Total(lines[s]) = 0
        BY <2>4, <2>5, <4>3, SameSums, SumOfZeros DEF R!Total
      <4> QED BY <2>5, <4>2, <4>3, <4>4
    <3> QED BY <2>2, <3>1, <3>2
  <2>7. \A a \in R!Foreign :
          R!Carried(a)' = IF a \in R!Held THEN R!Convert(R!Balance(a), at[a]) ELSE R!Carried(a)
    <3> TAKE a \in R!Foreign
    <3>1. lines[s][a] = IF a \in R!Held THEN R!Convert(R!Balance(a), at[a]) - R!Carried(a) ELSE 0
      BY <2>3 DEF R!Differences
    <3> QED BY <2>4, <2>5, <2>6, <3>1
  <2>8. R!Total(lines[s]) = SumFunctionOnSet(lines[s], R!Foreign)
    BY <2>4, SameSums DEF R!Total
  <2> DEFINE taken == [a \in R!Foreign |-> R!Carried(a) - R!Carried(a)']
  <2>9. R!SumFunction(taken) = SumFunctionOnSet(taken, R!Foreign)
    BY SameSums
  <2>10. \A a \in R!Foreign : taken[a] = -lines[s][a]
    BY <2>4, <2>5, <2>6
  <2> HIDE DEF taken
  <2>11. SumFunctionOnSet(taken, R!Foreign) = -SumFunctionOnSet(lines[s], R!Foreign)
    BY <2>4, <2>5, <2>10, OppositeTotals
  <2> QED BY <2>6, <2>7, <2>8, <2>9, <2>11 DEF taken
<1>2. BookInv /\ [R!Next]_(R!vars) => [\A s \in Session : Retranslated(s)]_(R!vars)
  BY <1>1
<1> QED BY <1>2, BookInvariant, PTL DEF R!Spec, R!LoneRevaluationSettles

=============================================================================
