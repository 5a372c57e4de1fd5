--------------------------- MODULE Reconciliation ---------------------------
(***************************************************************************)
(* The statement a controller signs (bank.ts, reconciliation): the books'  *)
(* balance beside the bank's own, and the two lists that explain what is   *)
(* between them.  A report is five SELECTs of one READ COMMITTED           *)
(* transaction, and whatever the sessions of Bank commit may come between  *)
(* two of them.                                                            *)
(***************************************************************************)
EXTENDS Bank

CONSTANT Reader

VARIABLES at,         \* how far a report is
          report,     \* what it has read
          stirred     \* history: something committed since it began

reportVars == <<at, report, stirred>>

\* books - books only + bank only, as far as it has been read.  A balance or a day
\* that is null is the empty set.
NoReport == [explained |-> 0, first |-> {}, balance |-> {}]

ReportInit ==
  /\ Init
  /\ at = [r \in Reader |-> "idle"]
  /\ report = [r \in Reader |-> NoReport]
  /\ stirred = [r \in Reader |-> FALSE]

InBooks == [p \in DOMAIN postings |-> postings[p].amount]
OnStatement == [l \in lines |-> AmountOf[l]]

Read(r, from, to, after) ==
  /\ at[r] = from /\ at' = [at EXCEPT ![r] = to]
  /\ report' = [report EXCEPT ![r] = after]
  /\ UNCHANGED <<bankVars, stirred>>

\* reconcilable: the account with its balance, the sum of what is posted.
ReadLedger(r) ==
  Read(r, "idle", "bank only", [NoReport EXCEPT !.explained = SumFunctionOnSet(InBooks, Posted)])

ReadBankOnly(r) ==
  Read(r, "bank only", "first",
       [report[r] EXCEPT !.explained = @ + SumFunctionOnSet(OnStatement, OpenLines)])

ReadFirst(r) == Read(r, "first", "latest", [report[r] EXCEPT !.first = FirstDay])

\* The lines with a balance on the last day there is one for.  Among them the code
\* takes the last by created_at, the start of an import, and by id, random within one:
\* it can be any.
Latest ==
  LET stated == {l \in lines : BalanceOf[l] # {}}
  IN  {l \in stated : \A k \in stated : DayOf[k] <= DayOf[l]}

ReadLatest(r) ==
  \/ \E l \in Latest :
       Read(r, "latest", "books only", [report[r] EXCEPT !.balance = BalanceOf[l]])
  \/ Latest = {} /\ Read(r, "latest", "books only", report[r])

\* openPostings, from the first line that was read.
ReadBooksOnly(r) ==
  Read(r, "books only", "shown",
       [report[r] EXCEPT
          !.explained = @ - SumFunctionOnSet(InBooks, OpenPostings(report[r].first, 0)),
          !.first = {}])

\* The page is left, or the request ends early.
Leave(r) ==
  /\ at[r] # "idle"
  /\ at' = [at EXCEPT ![r] = "idle"]
  /\ report' = [report EXCEPT ![r] = NoReport]
  /\ stirred' = [stirred EXCEPT ![r] = FALSE]
  /\ UNCHANGED bankVars

Reading(r) ==
  \/ ReadLedger(r) \/ ReadBankOnly(r) \/ ReadFirst(r) \/ ReadLatest(r)
  \/ ReadBooksOnly(r) \/ Leave(r)

\* A step of the bank's sessions, under the reports being read.
Beneath ==
  /\ Next
  /\ UNCHANGED <<at, report>>
  /\ stirred' = [r \in Reader |-> \/ stirred[r]
                                  \/ /\ at[r] # "idle"
                                     /\ <<lines, postings, matches>>' # <<lines, postings, matches>>]

ReportNext == Beneath \/ \E r \in Reader : Reading(r)

ReportSpec == ReportInit /\ [][ReportNext]_<<bankVars, reportVars>>

(***************************************************************************)
(* Properties.                                                             *)
(***************************************************************************)
\* The bank's balance less (books - books only + bank only), if it has one.
Difference(r) == {b - report[r].explained : b \in report[r].balance}

Undisturbed(r) == at[r] = "shown" /\ ~stirred[r]

\* Entries from before the first line that no line has been matched to.
Early == (Posted \ MatchedPostings) \ OpenPostings(FirstDay, 0)

\* "On the statement but not in the books" and "in the books but not yet on the
\* statement" (ADR 25) explain all there is to explain: what a report leaves is what
\* the bank's balance has beside the lines imported (the balance they open with, or
\* lines that are missing), less what the books have from before.  So it is whatever
\* was matched, undone, recorded and imported, and by how many at once.
GapsAreExplained == \A r \in Reader : Undisturbed(r) =>
  Difference(r) = {b - SumFunctionOnSet(OnStatement, lines) - SumFunctionOnSet(InBooks, Early)
                     : b \in report[r].balance}

\* "It is zero when every gap is explained" (ADR 25): the whole statement is here, it
\* opens with nothing, and so do the books.
ZeroWhenExplained == \A r \in Reader :
  Undisturbed(r) /\ lines = Line /\ Early = {} => Difference(r) \subseteq {0}

=============================================================================
