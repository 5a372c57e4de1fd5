---------------------------- MODULE Revaluation -----------------------------
(***************************************************************************)
(* Retranslating what is held in foreign currency (revaluation.ts,         *)
(* rates.ts), and the gate it opens in the close of a month (periods.ts).  *)
(* Sessions interleave statement by statement at READ COMMITTED.  An entry *)
(* is what it does to the monetary foreign accounts and to the FX gain and *)
(* loss account; balance rows are increments, so an account's balance is   *)
(* the sum of its entries.  Rates are kept to the month their date is in,  *)
(* and every closed month has something to close (Periods has the rest).   *)
(***************************************************************************)
EXTENDS Drafting

CONSTANTS Month, Now,     \* months, and the current one
          Session, Request,
          MaxEntries      \* bounds the book

ASSUME MonthAssumption == Month \subseteq Nat /\ IsFiniteSet(Month) /\ Now \in Month
ASSUME RequestAssumption ==
  \A r \in Request :
    /\ r.month \in Month /\ r.op \in {"rate", "post", "revalue", "close", "reopen"}
    /\ r.op = "rate" => r.rate \in Nat
    /\ r.op = "post" => /\ r.lines \in Seq(WrittenLine) /\ r.fxAdjustment \in BOOLEAN
                       /\ Grain[r.currency] \in Nat \ {0}

VARIABLES journal,   \* the entries, in the order they committed
          rates,     \* exchange_rates
          period,    \* rows of accounting_periods
          pc, req,
          seen,      \* the period row read first
          lines,     \* the differences a revaluation computed
          moved      \* history: another session committed since this one began

vars == <<journal, rates, period, pc, req, seen, lines, moved>>

NoLines == [a \in Foreign |-> 0]

\* What an entry adds to balance_minor and base_balance_minor, and to the FX
\* account.
EntryRow == [month : Month, amount : [Account -> Int], base : [Account -> Int]]
PeriodRow == [status : {"none", "open", "closed"}, revalued : BOOLEAN]
NoPeriod == [status |-> "none", revalued |-> FALSE]

NoRequest == [op |-> "none", month |-> Now]

Init ==
  /\ journal = <<>>
  /\ rates = {}
  /\ period = [m \in Month |-> NoPeriod]
  /\ pc = [s \in Session |-> "idle"]
  /\ req = [s \in Session |-> NoRequest]
  /\ seen = [s \in Session |-> NoPeriod]
  /\ lines = [s \in Session |-> NoLines]
  /\ moved = [s \in Session |-> FALSE]

(***************************************************************************)
(* The books.                                                              *)
(***************************************************************************)
Upto(m) == {i \in DOMAIN journal : journal[i].month <= m}
AmountIn(entries, a) == SumFunctionOnSet([i \in DOMAIN journal |-> journal[i].amount[a]], entries)
BaseIn(entries, a) == SumFunctionOnSet([i \in DOMAIN journal |-> journal[i].base[a]], entries)

Balance(a) == AmountIn(DOMAIN journal, a)
Carried(a) == BaseIn(DOMAIN journal, a)
Held == {a \in Foreign : Balance(a) # 0}

\* rateOn: the most recent recorded at or before the date.  Two sources of one
\* day are two rows, and which comes first is left open.
RateOn(c, m) ==
  LET known == {r \in rates : r.currency = c /\ r.month <= m}
  IN  {r.rate : r \in {r \in known : \A q \in known : q.month <= r.month}}

\* The outcomes of computeLines: one rate for each balance held, if there is one.
Closing(m) == {at \in [Held -> UNION {RateOn(CurrencyOf[a], m) : a \in Held}] :
                 \A a \in Held : at[a] \in RateOn(CurrencyOf[a], m)}

\* Mutant: the balance is converted and the carrying amount forgotten.
DifferencesUncarried(at) ==
  [a \in Foreign |-> IF a \in Held THEN Convert(Balance(a), at[a]) ELSE 0]

\* What each balance held is worth, less what it is carried at.
Differences(at) ==
  [a \in Foreign |-> IF a \in Held THEN Convert(Balance(a), at[a]) - Carried(a) ELSE 0]

Total(difference) == SumFunction(difference)
IsClosable(m) == m < Now

(***************************************************************************)
(* Sessions.                                                               *)
(***************************************************************************)
Goto(s, label) == pc' = [pc EXCEPT ![s] = label]
KeepBooks == UNCHANGED <<journal, rates, period>>

Begin(s) ==
  /\ pc[s] = "idle"
  /\ Len(journal) + Cardinality({t \in Session : pc[t] # "idle"}) < MaxEntries
  /\ \E r \in Request : req' = [req EXCEPT ![s] = r]
  /\ Goto(s, "check")
  /\ moved' = [moved EXCEPT ![s] = FALSE]
  /\ KeepBooks /\ UNCHANGED <<seen, lines>>

Finish(s) ==
  /\ Goto(s, "idle")
  /\ req' = [req EXCEPT ![s] = NoRequest]
  /\ seen' = [seen EXCEPT ![s] = NoPeriod]
  /\ lines' = [lines EXCEPT ![s] = NoLines]

\* A refusal, an error or a crash: nothing of the session's is kept.
Rollback(s) == Finish(s) /\ KeepBooks /\ UNCHANGED moved

Commit(s) ==
  /\ Finish(s)
  /\ moved' = [t \in Session |-> IF t = s THEN FALSE ELSE pc[t] # "idle"]

\* rates.record: the pair, day and source are the key, and the last one wins.
Record(s) ==
  /\ pc[s] = "check" /\ req[s].op = "rate"
  /\ LET r == req[s]
         row == [currency |-> r.currency, month |-> r.month, source |-> r.source,
                 rate |-> r.rate]
     IN  rates' = {q \in rates : <<q.currency, q.month, q.source>> #
                                 <<r.currency, r.month, r.source>>} \cup {row}
  /\ UNCHANGED <<journal, period>>
  /\ Commit(s)

\* An entry as a row: an account is in it once.
Written(month, postings) ==
  [month |-> month,
   amount |-> [a \in Account |-> SumAmount(postings, On(postings, a))],
   base |-> [a \in Account |-> SumBase(postings, On(postings, a))]]

\* postEntry by a caller: the trigger refuses a closed month.
Post(s) ==
  /\ pc[s] = "check" /\ req[s].op = "post"
  /\ period[req[s].month].status # "closed" /\ MayDraft(req[s])
  /\ journal' = Append(journal, Written(req[s].month, Drafted(req[s])))
  /\ UNCHANGED <<rates, period>>
  /\ Commit(s)

\* The period row, read first and without a lock, by revalue and by close.
ReadPeriod(s) ==
  /\ pc[s] = "check" /\ req[s].op \in {"revalue", "close"}
  /\ IsClosable(req[s].month)
  /\ period[req[s].month].status # "closed"
  /\ seen' = [seen EXCEPT ![s] = period[req[s].month]]
  /\ Goto(s, IF req[s].op = "close" THEN "gate" ELSE "compute")
  /\ KeepBooks /\ UNCHANGED <<req, lines, moved>>

\* computeLines.
Compute(s) ==
  /\ pc[s] = "compute"
  /\ \E at \in Closing(req[s].month) : lines' = [lines EXCEPT ![s] = Differences(at)]
  /\ Goto(s, "post")
  /\ KeepBooks /\ UNCHANGED <<req, seen, moved>>

\* rate_not_found.
ComputeRefused(s) == pc[s] = "compute" /\ Closing(req[s].month) = {} /\ Rollback(s)

\* markRevalued, by the id that was seen or by an INSERT the unique key fails.
MayMark(s) == seen[s].status = "none" => period[req[s].month].status = "none"

Marked(s) ==
  [period EXCEPT ![req[s].month] =
     [status |-> IF @.status = "none" THEN "open" ELSE @.status, revalued |-> TRUE]]

\* Nothing moved: the month is marked all the same.
MarkOnly(s) ==
  /\ pc[s] = "post" /\ lines[s] = NoLines
  /\ MayMark(s)
  /\ period' = Marked(s)
  /\ UNCHANGED <<journal, rates>>
  /\ Commit(s)

\* Differences that cancel leave the FX account a leg of zero, and a month that
\* closed meanwhile refuses the entry.
MayAdjust(s) == Total(lines[s]) # 0 /\ period[req[s].month].status # "closed"

Adjust(s) ==
  /\ pc[s] = "post" /\ lines[s] # NoLines
  /\ MayAdjust(s) /\ MayMark(s)
  /\ journal' = Append(journal,
       [month |-> req[s].month,
        amount |-> [a \in Account |-> IF a = FxAccount THEN -Total(lines[s]) ELSE 0],
        base |-> [a \in Account |-> CASE a = FxAccount -> -Total(lines[s])
                                      [] a \in Foreign -> lines[s][a] [] OTHER -> 0]])
  /\ period' = Marked(s)
  /\ UNCHANGED rates
  /\ Commit(s)

RevalueRefused(s) ==
  /\ pc[s] = "post"
  /\ ~MayMark(s) \/ (lines[s] # NoLines /\ ~MayAdjust(s))
  /\ Rollback(s)

\* Mutant: the gate asks nothing.
AwaitingNothing(s) == {}

\* foreignBalancesAwaitingRevaluation: a timestamp is enough.
Awaiting(s) == IF seen[s].revalued THEN {} ELSE Held

Gate(s) ==
  /\ pc[s] = "gate"
  /\ Awaiting(s) = {}
  /\ Goto(s, "lock")
  /\ KeepBooks /\ UNCHANGED <<req, seen, lines, moved>>

GateRefused(s) == pc[s] = "gate" /\ Awaiting(s) # {} /\ Rollback(s)

\* The row seen is set closed, keeping its timestamp, or a new one inserted.
Lock(s) ==
  /\ pc[s] = "lock"
  /\ MayMark(s)
  /\ period' = [period EXCEPT ![req[s].month].status = "closed"]
  /\ UNCHANGED <<journal, rates>>
  /\ Commit(s)

LockRefused(s) == pc[s] = "lock" /\ ~MayMark(s) /\ Rollback(s)

\* reopen leaves revaluedAt as it was.
Reopen(s) ==
  /\ pc[s] = "check" /\ req[s].op = "reopen"
  /\ period[req[s].month].status = "closed"
  /\ period' = [period EXCEPT ![req[s].month].status = "open"]
  /\ UNCHANGED <<journal, rates>>
  /\ Commit(s)

CheckRefused(s) ==
  /\ pc[s] = "check" /\ req[s].op # "rate"
  /\ CASE req[s].op = "post" -> period[req[s].month].status = "closed" \/ ~MayDraft(req[s])
       [] req[s].op = "reopen" -> period[req[s].month].status # "closed"
       [] OTHER -> ~IsClosable(req[s].month) \/ period[req[s].month].status = "closed"
  /\ Rollback(s)

Crash(s) == pc[s] # "idle" /\ Rollback(s)

Revalue(s) == Compute(s) \/ ComputeRefused(s) \/ MarkOnly(s) \/ Adjust(s) \/ RevalueRefused(s)
Close(s) == Gate(s) \/ GateRefused(s) \/ Lock(s) \/ LockRefused(s)

Next == \E s \in Session :
  Begin(s) \/ Record(s) \/ Post(s) \/ ReadPeriod(s) \/ Revalue(s) \/ Close(s)
    \/ Reopen(s) \/ CheckRefused(s) \/ Crash(s)

Spec == Init /\ [][Next]_vars

(***************************************************************************)
(* Properties.                                                             *)
(***************************************************************************)
TypeOK ==
  /\ journal \in Seq(EntryRow)
  /\ \A r \in rates : r.month \in Month /\ r.rate \in Nat
  /\ period \in [Month -> PeriodRow]
  /\ pc \in [Session -> {"idle", "check", "compute", "post", "gate", "lock"}]
  /\ seen \in [Session -> PeriodRow]
  /\ lines \in [Session -> [Foreign -> Int]]
  /\ moved \in [Session -> BOOLEAN]

\* "The next period's revaluation ... needs no memory of the previous
\* adjustment": whatever rivals, corrections and late entries left behind, one
\* revaluation that runs alone carries every balance held at the rate of the
\* end of its month, leaves alone an account that holds nothing, and takes the
\* difference to the FX account.
LoneRevaluationSettles ==
  [][\A s \in Session :
       pc[s] = "post" /\ ~moved[s] /\ (journal' # journal \/ period' # period) /\ pc'[s] = "idle" =>
         /\ \E at \in Closing(req[s].month) : \A a \in Foreign :
              Carried(a)' = IF a \in Held THEN Convert(Balance(a), at[a]) ELSE Carried(a)
         /\ Carried(FxAccount)' - Carried(FxAccount) =
              SumFunction([a \in Foreign |-> Carried(a) - Carried(a)'])]_vars

\* "The period close refuses without it": a month closed by someone alone at the
\* books has been looked at, or there was nothing foreign to look at.
LoneCloseWasRevalued ==
  [][\A s \in Session :
       pc[s] = "lock" /\ ~moved[s] /\ period' # period /\ pc'[s] = "idle" =>
         period[req[s].month].revalued \/ Held = {}]_vars

\* "The plug cannot swallow a typo" (appendFxAdjustment): what an entry leaves to
\* the FX account, when its foreign lines are all converted at one rate, is what
\* rounding can leave, half a unit a line; and every entry balances in the
\* functional currency.
Last(q) == q[Len(q)]
ForeignLines(r) == {i \in DOMAIN r.lines : r.lines[i].account \in Foreign}
AtOneRate(r) == \A i, j \in ForeignLines(r) :
  r.lines[i].by = "rate" /\ r.lines[i].given = r.lines[j].given
ByHand(r) == SumFunctionOnSet([i \in DOMAIN r.lines |-> Amount(r.lines[i])], On(r.lines, FxAccount))
PlugOf(s) == Last(journal').base[FxAccount] - ByHand(req[s])
Posts(s) == pc[s] = "check" /\ req[s].op = "post" /\ pc'[s] = "idle" /\ journal' # journal

OneRateOnlyRounds ==
  [][\A s \in Session : Posts(s) =>
       /\ SumFunction(Last(journal').base) = 0
       /\ AtOneRate(req[s]) =>
            2 * PlugOf(s) \in -Cardinality(ForeignLines(req[s]))..Cardinality(ForeignLines(req[s]))]_vars

\* "The only thing that can have caused it is two different rates applied to the
\* same amount" (appendFxAdjustment): at one rate nothing is left to the account.
PlugsAreRateDifferences ==
  [][\A s \in Session : Posts(s) /\ AtOneRate(req[s]) => PlugOf(s) = 0]_vars

\* A base amount is "what this posting was worth in the organisation's functional
\* currency" (createEntrySchema), and is stored as it was stated.
WorthAsStated ==
  [][\A s \in Session : Posts(s) => \A i \in ForeignLines(req[s]) :
       LET line == req[s].lines[i]
       IN  line.by = "base" => Last(journal').base[line.account] * Grain[Home] = line.given]_vars

\* A month is sealed at its closing rate ("or the balance sheet it produces is
\* stated at rates that were out of date when it was signed", close): what was
\* held at its end is carried at what it was worth then.
SealedAtClosingRates ==
  [][\A m \in Month : period[m].status # "closed" /\ period'[m].status = "closed" =>
       \E at \in Closing(m) : \A a \in Held :
         BaseIn(Upto(m), a) = Convert(AmountIn(Upto(m), a), at[a])]_vars

=============================================================================
