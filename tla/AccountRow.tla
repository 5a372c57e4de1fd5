----------------------------- MODULE AccountRow -----------------------------
(***************************************************************************)
(* The arithmetic Postgres does on one row of `accounts`: what the         *)
(* triggers of migrations 0004 and 0010 add to it, and the CHECK           *)
(* constraints every UPDATE of the row must pass.                          *)
(*                                                                         *)
(* Stored amounts are debit-positive.  `sign` is obol_presented_sign of    *)
(* the account's type: 1 for asset and expense, -1 for the others.         *)
(***************************************************************************)
EXTENDS Integers

Row == [balance : Int, base : Int, inflow : Nat, outflow : Nat,
        version : Nat, open : BOOLEAN]

\* One posting: what moved in the account's currency, and its worth in the
\* functional currency (a retranslation moves 0 and is worth something).
\* Migration 0015 refuses one that records neither, so NoLine is no posting.
Line == [amount : Int, base : Int]

NoLine == [amount |-> 0, base |-> 0]

EmptyRow == [balance |-> 0, base |-> 0, inflow |-> 0, outflow |-> 0,
             version |-> 0, open |-> TRUE]

Positive(n) == IF n > 0 THEN n ELSE 0

\* Mutant: the rule before migration 0004, under which a hold reserves nothing.
AvailableIgnoringHolds(row, sign) == sign * row.balance

\* What can still be spent: settled minus reserved outflows, presented.
Available(row, sign) == sign * row.balance - row.outflow

\* accounts_overdraft_check and accounts_pending_non_negative.
RowChecks(row, sign, overdraft) ==
  /\ row.inflow >= 0
  /\ row.outflow >= 0
  /\ overdraft \/ Available(row, sign) >= 0

\* obol_apply_posting_to_balance, by the status of the posting's entry.
ApplyPosting(row, sign, line, status) ==
  LET presented == sign * line.amount
  IN  CASE status = "posted" ->
             [row EXCEPT !.balance = @ + line.amount,
                         !.base    = @ + line.base,
                         !.version = @ + 1]
        [] status = "pending" ->
             [row EXCEPT !.inflow  = @ + Positive(presented),
                         !.outflow = @ + Positive(-presented),
                         !.version = @ + 1]
        [] OTHER -> row

\* The two UPDATEs of obol_apply_status_change for one line.  Each is a
\* statement of its own, so the CHECKs see the row after each.
ReleaseReservation(row, sign, line) ==
  LET presented == sign * line.amount
  IN  [row EXCEPT !.inflow  = @ - Positive(presented),
                  !.outflow = @ - Positive(-presented)]

SettleLine(row, line) ==
  [row EXCEPT !.balance = @ + line.amount, !.base = @ + line.base]

\* Mutant: the last UPDATE of the loop is forgotten.
ApplyStatusChangeKeepingVersion(row, sign, line, to) ==
  LET released == ReleaseReservation(row, sign, line)
  IN  IF to = "posted" THEN SettleLine(released, line) ELSE released

\* The row after the trigger's loop body, and whether every CHECK on the way
\* held.
ApplyStatusChange(row, sign, line, to) ==
  LET released == ReleaseReservation(row, sign, line)
      settled  == IF to = "posted" THEN SettleLine(released, line) ELSE released
  IN  [settled EXCEPT !.version = @ + 1]

StatusChangeChecks(row, sign, line, to, overdraft) ==
  /\ RowChecks(ReleaseReservation(row, sign, line), sign, overdraft)
  /\ RowChecks(ApplyStatusChange(row, sign, line, to), sign, overdraft)

\* deriveBalances and assertNoOverdraft for one account: would `amount` more,
\* presented, take what is available below zero?
WouldOverdraw(row, sign, amount, overdraft) ==
  ~overdraft /\ Available(row, sign) + sign * amount < 0

=============================================================================
