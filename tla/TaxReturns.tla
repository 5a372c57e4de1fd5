------------------------------ MODULE TaxReturns ----------------------------
(***************************************************************************)
(* Filing a consumption-tax return (tax-return.ts).  What each entry       *)
(* attracted is recorded as it is posted; a return totals the months it    *)
(* covers, opens with the credit the return before it left, clears the     *)
(* accounts the tax accrued in, and claims its months for ever.  A session *)
(* is one READ COMMITTED transaction of several SELECTs, with no lock      *)
(* before the rows it inserts.  The tax accounts are not the returns'      *)
(* alone: people post to them by hand, and reverse the entry of a supply   *)
(* or of a return, and neither tax_entries nor tax_returns hears of it.    *)
(***************************************************************************)
EXTENDS Integers, Sequences, FiniteSetsExt, Functions

CONSTANTS LastMonth,
          Session,
          Period,         \* the periods somebody types in: <<first, last>>
          Taxed,          \* the supplies booked: the sides they are on and a tax
          ByHand,         \* what somebody posts to the tax accounts
          MaxEntries

TaxAccount == {"output", "input", "payable"}
Side == {"sale", "purchase"}

ASSUME TaxReturnsAssumption ==
  /\ LastMonth \in Nat /\ MaxEntries \in Nat
  /\ \A p \in Period : p[1] \in 1..LastMonth /\ p[2] \in p[1]..LastMonth
  /\ Taxed \subseteq [sides : SUBSET Side, tax : Int]
  /\ ByHand \subseteq [TaxAccount -> Int]

VARIABLES entries,        \* tax_entries, a supply at a time
          returns,        \* tax_returns, with their tax_return_months
          journal,        \* the entries that move the tax accounts
          now,            \* the current month
          pc, period,
          read            \* the entries and the opening credit read

vars == <<entries, returns, journal, now, pc, period, read>>

NoPeriod == <<1, 0>>
Seen(E, credit, previous) == [entries |-> E, credit |-> credit, previous |-> previous]
Unread == Seen({}, 0, 0)

Init ==
  /\ entries = <<>> /\ returns = <<>> /\ journal = <<>>
  /\ now = 1
  /\ pc = [s \in Session |-> "idle"]
  /\ period = [s \in Session |-> NoPeriod]
  /\ read = [s \in Session |-> Unread]

MonthsIn(p) == p[1]..p[2]
Claimed == UNION {MonthsIn(returns[n].period) : n \in DOMAIN returns}

Tax == [e \in DOMAIN entries |-> entries[e].tax]
TaxOf(side, E) == SumFunctionOnSet(Tax, {e \in E : side \in entries[e].sides})

\* An entry: what it adds to what each account stands for.
Moves(output, input, payable) ==
  [a \in TaxAccount |-> IF a = "output" THEN output ELSE IF a = "input" THEN input ELSE payable]
Entry(by, amounts) == [by |-> by, amounts |-> amounts, reversed |-> FALSE]

Idle == UNCHANGED <<pc, period, read>>
Room == Len(journal) < MaxEntries

\* post and recordTaxEntries, in one transaction: whatever the month it is dated
\* in, on both sides for a purchase under reverse charge.
Book ==
  /\ Room
  /\ \E m \in 1..LastMonth, t \in Taxed :
       LET tax(side) == IF side \in t.sides THEN t.tax ELSE 0
       IN  /\ entries' = Append(entries, [month |-> m, sides |-> t.sides, tax |-> t.tax])
           /\ journal' = Append(journal, Entry("tax", Moves(tax("sale"), tax("purchase"), 0)))
  /\ UNCHANGED <<returns, now>> /\ Idle

\* postEntry, straight to the accounts.
PostByHand ==
  /\ Room
  /\ \E amounts \in ByHand : journal' = Append(journal, Entry("hand", amounts))
  /\ UNCHANGED <<entries, returns, now>> /\ Idle

\* reverseEntry: once, whosever the entry; a reversal is itself an entry.
ReverseEntry ==
  /\ Room
  /\ \E n \in DOMAIN journal :
       /\ ~journal[n].reversed
       /\ journal' = Append([journal EXCEPT ![n].reversed = TRUE],
                            Entry("hand", [a \in TaxAccount |-> -journal[n].amounts[a]]))
  /\ UNCHANGED <<entries, returns, now>> /\ Idle

Tick ==
  /\ now <= LastMonth
  /\ now' = now + 1
  /\ UNCHANGED <<entries, returns, journal>> /\ Idle

\* nextPeriod: the first month since the earliest entry that is over and unfiled.
FirstMonth == Min({entries[e].month : e \in DOMAIN entries})
Offered ==
  IF entries = <<>> THEN {}
  ELSE LET due == {m \in FirstMonth..(now - 1) : m \notin Claimed}
       IN  IF due = {} THEN {} ELSE {<<Min(due), Min(due)>>}

Begin(s) ==
  /\ pc[s] = "idle"
  /\ \E p \in Offered \cup Period : period' = [period EXCEPT ![s] = p]
  /\ pc' = [pc EXCEPT ![s] = "check"]
  /\ UNCHANGED <<entries, returns, journal, now, read>>

\* What a session had is forgotten, whether it committed or not.
Finish(s) ==
  /\ pc' = [pc EXCEPT ![s] = "idle"]
  /\ period' = [period EXCEPT ![s] = NoPeriod]
  /\ read' = [read EXCEPT ![s] = Unread]

Refuse(s) == Finish(s) /\ UNCHANGED <<entries, returns, journal, now>>

\* period_already_filed; and earlier_return_unfiled, which looks at the earliest
\* entry of all.
MayFile(s) ==
  /\ MonthsIn(period[s]) \cap Claimed = {}
  /\ entries # <<>> => FirstMonth >= period[s][1] \/ FirstMonth \in Claimed

Check(s) ==
  /\ pc[s] = "check" /\ MayFile(s)
  /\ pc' = [pc EXCEPT ![s] = "entries"]
  /\ UNCHANGED <<entries, returns, journal, now, period, read>>

NotFileable(s) == pc[s] = "check" /\ ~MayFile(s) /\ Refuse(s)

ReadEntries(s) ==
  /\ pc[s] = "entries"
  /\ LET due == {e \in DOMAIN entries : entries[e].month \in MonthsIn(period[s])}
     IN  read' = [read EXCEPT ![s] = Seen(due, 0, 0)]
  /\ pc' = [pc EXCEPT ![s] = "credit"]
  /\ UNCHANGED <<entries, returns, journal, now, period>>

\* The latest return before the period, if there is one.
Latest(p) ==
  LET before == {n \in DOMAIN returns : returns[n].period[1] < p[1]}
  IN  {n \in before : \A k \in before : returns[k].period[1] <= returns[n].period[1]}

ReadCredit(s) ==
  /\ pc[s] = "credit"
  /\ LET before == Latest(period[s])
         credit == SumFunctionOnSet([n \in DOMAIN returns |-> returns[n].carried], before)
         previous == IF before = {} THEN 0 ELSE Max(before)
     IN  read' = [read EXCEPT ![s] = Seen(read[s].entries, credit, previous)]
  /\ pc' = [pc EXCEPT ![s] = "write"]
  /\ UNCHANGED <<entries, returns, journal, now, period>>

Floor(n) == IF n > 0 THEN n ELSE 0

\* buildReturn.
Built(s) ==
  LET output == TaxOf("sale", read[s].entries)
      input == TaxOf("purchase", read[s].entries)
      offset == input + read[s].credit
  IN  [period |-> period[s], declared |-> read[s].entries, previous |-> read[s].previous,
       output |-> output, input |-> input, brought |-> read[s].credit,
       payable |-> Floor(output - offset), carried |-> Floor(offset - output)]

\* Mutant: the output account is debited by what has to be paid.
PayablesOnly(r) == Moves(-r.payable, 0, r.payable)

\* clearingLegs, and of those the ones above zero.
Cleared(r) ==
  LET input == IF r.input < r.output THEN r.input ELSE r.output
  IN  Moves(-Floor(r.output), -Floor(input), Floor(r.output - input))

\* A return that moves nothing has no entry.
Clearing(r) ==
  IF \A a \in TaxAccount : Cleared(r)[a] = 0 THEN <<>> ELSE <<Entry("return", Cleared(r))>>

\* Mutant: no unique index over the months.
Unclaimed(p) == TRUE

\* The unique index.
Free(p) == MonthsIn(p) \cap Claimed = {}

\* nothing_to_file; the signs a return may have, which a month credited for more
\* than it sold does not; the months.
Acceptable(r) ==
  /\ r.declared # {} \/ r.brought # 0
  /\ r.output >= 0 /\ r.input >= 0
  /\ Free(r.period)

WriteReturn(s) ==
  /\ pc[s] = "write" /\ Acceptable(Built(s))
  /\ returns' = Append(returns, Built(s))
  /\ journal' = journal \o Clearing(Built(s))
  /\ Finish(s)
  /\ UNCHANGED <<entries, now>>

ReturnRefused(s) == pc[s] = "write" /\ ~Acceptable(Built(s)) /\ Refuse(s)

Abort(s) == pc[s] # "idle" /\ Refuse(s)

Step(s) ==
  \/ Begin(s) \/ Check(s) \/ NotFileable(s) \/ ReadEntries(s) \/ ReadCredit(s)
  \/ WriteReturn(s) \/ ReturnRefused(s) \/ Abort(s)

Next == Book \/ PostByHand \/ ReverseEntry \/ Tick \/ \E s \in Session : Step(s)

Spec == Init /\ [][Next]_vars

(***************************************************************************)
(* Properties.                                                             *)
(***************************************************************************)
\* "A month belongs to one return" (ADR 17), and so does every supply: nothing is
\* declared twice, however many people press the button, whatever periods they
\* choose and whatever is booked meanwhile.
FiledOnce ==
  \A m, n \in DOMAIN returns : m # n =>
    /\ MonthsIn(returns[m].period) \cap MonthsIn(returns[n].period) = {}
    /\ returns[m].declared \cap returns[n].declared = {}

\* "The chain hands its credit on one link at a time" (tax-return.ts): what one
\* return carried forward opens one other, also when two are filed at once.
CreditsUsedOnce ==
  \A m, n \in DOMAIN returns :
    (m # n /\ returns[m].brought > 0 /\ returns[n].brought > 0) =>
      returns[m].previous # returns[n].previous

Balance(a, E) == SumFunctionOnSet([n \in DOMAIN journal |-> journal[n].amounts[a]], E)
Hand == {n \in DOMAIN journal : journal[n].by = "hand"}

\* "The output-tax account is free to start accruing the next period from zero"
\* (ADR 17): beside what people put there by hand, or took out by reversing an
\* entry, it carries the tax that no return has declared, whatever is booked, and
\* in whichever month, while returns are being filed.
Declared == UNION {returns[n].declared : n \in DOMAIN returns}
OutputIsUndeclared ==
  Balance("output", DOMAIN journal)
    = TaxOf("sale", DOMAIN entries \ Declared) + Balance("output", Hand)

\* "What do I owe" is one balance in one place (ADR 17): what the returns filed
\* have asked to be paid.
PayableAsFiled ==
  Balance("payable", DOMAIN journal \ Hand)
    = MapThenSumSet(LAMBDA n : returns[n].payable, DOMAIN returns)

=============================================================================
