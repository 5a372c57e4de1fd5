-------------------------- MODULE TaxReturnsProofs --------------------------
(***************************************************************************)
(* A month, and what was supplied in it, is declared once, for every       *)
(* number of months, sessions and supplies.  What a session read without a *)
(* lock may be out of date when it files, but it lies in the months of its *)
(* period, and the index over the months lets one return have them.  So    *)
(* what a filing takes out of the output account is what it declares,      *)
(* whatever else people post to it or reverse.                             *)
(***************************************************************************)
EXTENDS TaxReturns, Sums, TLAPS

EntryRow == [month : Int, sides : SUBSET Side, tax : Int]
Labels == {"idle", "check", "entries", "credit", "write"}

SessionTypes ==
  /\ pc \in [Session -> Labels]
  /\ DOMAIN period = Session /\ period = [s \in Session |-> period[s]]
  /\ DOMAIN read = Session /\ read = [s \in Session |-> read[s]]

\* The entries dated in a period.
In(p) == {e \in DOMAIN entries : entries[e].month \in MonthsIn(p)}

\* A sequence of whatever its elements are.
IsSequence(q) == q \in Seq({q[n] : n \in DOMAIN q})

\* What has been read, and what has been declared, lies in its period.
ReadInPeriod == \A s \in Session :
  /\ read[s].entries \subseteq In(period[s])
  /\ pc[s] \notin {"credit", "write"} => read[s].entries = {}
DeclaredInPeriod == \A n \in DOMAIN returns : returns[n].declared \subseteq In(returns[n].period)

MonthsOnce == \A m, n \in DOMAIN returns :
  m # n => MonthsIn(returns[m].period) \cap MonthsIn(returns[n].period) = {}

Inv ==
  /\ SessionTypes /\ entries \in Seq(EntryRow) /\ IsSequence(returns)
  /\ ReadInPeriod /\ DeclaredInPeriod /\ MonthsOnce

LEMMA AppendIsSequence ==
  ASSUME NEW q, IsSequence(q), NEW x
  PROVE  /\ IsSequence(Append(q, x))
         /\ DOMAIN Append(q, x) = 1..(Len(q) + 1) /\ DOMAIN q = 1..Len(q) /\ Len(q) \in Nat
         /\ Append(q, x)[Len(q) + 1] = x
         /\ \A n \in DOMAIN q : Append(q, x)[n] = q[n]
<1> DEFINE S == {q[n] : n \in DOMAIN q} \cup {x}
           r == Append(q, x)
<1>1. q \in Seq(S)
  BY DEF IsSequence
<1> HIDE DEF S
<1>2. x \in S
  BY DEF S
<1>3. /\ r \in Seq(S) /\ DOMAIN r = 1..(Len(q) + 1) /\ DOMAIN q = 1..Len(q) /\ Len(q) \in Nat
      /\ r[Len(q) + 1] = x /\ \A n \in DOMAIN q : r[n] = q[n]
  BY <1>1, <1>2
<1>4. r \in Seq({r[n] : n \in DOMAIN r})
  BY <1>3
<1> QED BY <1>3, <1>4 DEF IsSequence

LEMMA InvInit == Init => Inv
<1> SUFFICES ASSUME Init PROVE Inv
  OBVIOUS
<1>1. SessionTypes
  BY DEF Init, SessionTypes, Labels
<1>2. entries \in Seq(EntryRow) /\ IsSequence(returns) /\ DOMAIN returns = {}
  BY DEF Init, IsSequence
<1>3. \A s \in Session : read[s].entries = {}
  BY DEF Init, Unread, Seen
<1> QED BY <1>1, <1>2, <1>3 DEF Inv, ReadInPeriod, DeclaredInPeriod, MonthsOnce

\* Nothing but the month and the accounts moves.
LEMMA QuietKeeps ==
  ASSUME Inv, UNCHANGED <<entries, returns, pc, period, read>>
  PROVE  Inv'
<1>1. SessionTypes' /\ (entries \in Seq(EntryRow))' /\ IsSequence(returns)'
  BY DEF Inv, SessionTypes
<1>2. ReadInPeriod' /\ DeclaredInPeriod' /\ MonthsOnce'
  BY DEF Inv, ReadInPeriod, DeclaredInPeriod, MonthsOnce, In, MonthsIn
<1> QED BY <1>1, <1>2 DEF Inv

\* Supplies are added and never changed, so a period only gains some.
LEMMA BookKeeps ==
  ASSUME Inv, Book
  PROVE  Inv'
<1>1. PICK m \in 1..LastMonth, t \in Taxed :
        entries' = Append(entries, [month |-> m, sides |-> t.sides, tax |-> t.tax])
  BY DEF Book
<1>2. [month |-> m, sides |-> t.sides, tax |-> t.tax] \in EntryRow
  BY TaxReturnsAssumption DEF EntryRow
<1>3. /\ entries' \in Seq(EntryRow) /\ DOMAIN entries \subseteq DOMAIN entries'
      /\ \A e \in DOMAIN entries : entries'[e] = entries[e]
  BY <1>1, <1>2 DEF Inv
<1>4. \A p : In(p) \subseteq In(p)'
  BY <1>3 DEF In, MonthsIn
<1>5. UNCHANGED <<returns, pc, period, read>>
  BY DEF Book, Idle
<1>6. SessionTypes' /\ IsSequence(returns)' /\ MonthsOnce'
  BY <1>5 DEF Inv, SessionTypes, MonthsOnce, MonthsIn
<1>7. ReadInPeriod' /\ DeclaredInPeriod'
  BY <1>4, <1>5 DEF Inv, ReadInPeriod, DeclaredInPeriod
<1> QED BY <1>3, <1>6, <1>7 DEF Inv

\* A step of one session that files nothing.
LEMMA SessionKeeps ==
  ASSUME Inv, NEW s \in Session, UNCHANGED <<entries, returns>>,
         NEW label \in Labels, NEW p, NEW r, r.entries \subseteq In(p),
         label \notin {"credit", "write"} => r.entries = {},
         pc' = [pc EXCEPT ![s] = label], period' = [period EXCEPT ![s] = p],
         read' = [read EXCEPT ![s] = r]
  PROVE  Inv'
<1>1. SessionTypes'
  BY DEF Inv, SessionTypes
<1>2. \A t \in Session : /\ period'[t] = IF t = s THEN p ELSE period[t]
                         /\ read'[t] = IF t = s THEN r ELSE read[t]
                         /\ pc'[t] = IF t = s THEN label ELSE pc[t]
  BY DEF Inv, SessionTypes
<1>3. ReadInPeriod'
  BY <1>2 DEF Inv, ReadInPeriod, In
<1>4. DeclaredInPeriod' /\ MonthsOnce'
  BY DEF Inv, DeclaredInPeriod, MonthsOnce, In, MonthsIn
<1>5. IsSequence(returns)' /\ (entries \in Seq(EntryRow))'
  BY DEF Inv
<1> QED BY <1>1, <1>3, <1>4, <1>5 DEF Inv

\* A session ends, having filed or not.
LEMMA RefuseKeeps ==
  ASSUME Inv, NEW s \in Session, Refuse(s)
  PROVE  Inv'
<1>1. Unread.entries = {} /\ Unread.entries \subseteq In(NoPeriod)
  BY DEF Unread, Seen
<1> QED BY <1>1, SessionKeeps DEF Refuse, Finish, Labels

LEMMA ReadingKeeps ==
  ASSUME Inv, NEW s \in Session, Begin(s) \/ Check(s) \/ ReadEntries(s) \/ ReadCredit(s)
  PROVE  Inv'
<1>1. /\ pc \in [Session -> Labels] /\ read[s].entries \subseteq In(period[s])
      /\ period = [period EXCEPT ![s] = period[s]] /\ read = [read EXCEPT ![s] = read[s]]
  BY DEF Inv, SessionTypes, ReadInPeriod
<1>2. CASE Check(s)
  <2>1. /\ UNCHANGED <<entries, returns>> /\ "entries" \in Labels
        /\ pc' = [pc EXCEPT ![s] = "entries"]
        /\ period' = [period EXCEPT ![s] = period[s]] /\ read' = [read EXCEPT ![s] = read[s]]
    BY <1>1, <1>2 DEF Check, Labels
  <2>2. read[s].entries = {}
    BY <1>2 DEF Check, Inv, ReadInPeriod
  <2> QED BY <1>1, <2>1, <2>2, SessionKeeps
<1>3. CASE ReadEntries(s)
  <2>1. read' = [read EXCEPT ![s] = Seen(In(period[s]), 0, 0)]
    BY <1>3 DEF ReadEntries, In
  <2>2. Seen(In(period[s]), 0, 0).entries \subseteq In(period[s])
    BY DEF Seen
  <2>3. /\ UNCHANGED <<entries, returns>> /\ "credit" \in Labels
        /\ pc' = [pc EXCEPT ![s] = "credit"] /\ period' = [period EXCEPT ![s] = period[s]]
    BY <1>1, <1>3 DEF ReadEntries, Labels
  <2> QED BY <2>1, <2>2, <2>3, SessionKeeps
<1>4. CASE ReadCredit(s)
  <2>1. PICK credit, previous :
          read' = [read EXCEPT ![s] = Seen(read[s].entries, credit, previous)]
    BY <1>4 DEF ReadCredit
  <2>2. Seen(read[s].entries, credit, previous).entries \subseteq In(period[s])
    BY <1>1 DEF Seen
  <2>3. /\ UNCHANGED <<entries, returns>> /\ "write" \in Labels
        /\ pc' = [pc EXCEPT ![s] = "write"] /\ period' = [period EXCEPT ![s] = period[s]]
    BY <1>1, <1>4 DEF ReadCredit, Labels
  <2> QED BY <2>1, <2>2, <2>3, SessionKeeps
<1>5. CASE Begin(s)
  <2>1. PICK p \in Offered \cup Period : period' = [period EXCEPT ![s] = p]
    BY <1>5 DEF Begin
  <2>2. /\ UNCHANGED <<entries, returns>> /\ "check" \in Labels
        /\ pc' = [pc EXCEPT ![s] = "check"] /\ read' = [read EXCEPT ![s] = read[s]]
    BY <1>1, <1>5 DEF Begin, Labels
  <2>3. read[s].entries = {} /\ read[s].entries \subseteq In(p)
    BY <1>5 DEF Begin, Inv, ReadInPeriod
  <2> QED BY <2>1, <2>2, <2>3, SessionKeeps
<1> QED BY <1>2, <1>3, <1>4, <1>5

\* The index refuses the months of every return there is.
LEMMA FileKeeps ==
  ASSUME Inv, NEW s \in Session, WriteReturn(s)
  PROVE  Inv'
<1> DEFINE r == Built(s)
           k == Len(returns) + 1
<1>1. /\ returns' = Append(returns, r) /\ UNCHANGED entries
      /\ r.period = period[s] /\ r.declared = read[s].entries
      /\ MonthsIn(r.period) \cap Claimed = {}
  BY DEF WriteReturn, Built, Acceptable, Free
<1> HIDE DEF r
<1>2. /\ IsSequence(returns') /\ DOMAIN returns' = 1..k /\ DOMAIN returns = 1..(k - 1) /\ k \in Nat
      /\ returns'[k] = r /\ \A n \in DOMAIN returns : returns'[n] = returns[n]
  BY <1>1, AppendIsSequence DEF Inv
<1>3. \A n \in DOMAIN returns' : n = k \/ n \in DOMAIN returns
  BY <1>2
<1>4. \A n \in DOMAIN returns : MonthsIn(r.period) \cap MonthsIn(returns[n].period) = {}
  BY <1>1 DEF Claimed
<1>5. MonthsOnce'
  BY <1>2, <1>3, <1>4 DEF Inv, MonthsOnce, MonthsIn
<1>6. r.declared \subseteq In(r.period)
  BY <1>1 DEF Inv, ReadInPeriod
<1>7. DeclaredInPeriod'
  BY <1>1, <1>2, <1>3, <1>6 DEF Inv, DeclaredInPeriod, In, MonthsIn
<1>8. SessionTypes' /\ ReadInPeriod'
  <2>1. SessionTypes'
    BY DEF WriteReturn, Finish, Inv, SessionTypes, Labels
  <2>2. \A t \in Session :
          \/ period'[t] = period[t] /\ read'[t] = read[t] /\ pc'[t] = pc[t]
          \/ period'[t] = NoPeriod /\ read'[t] = Unread
    BY DEF WriteReturn, Finish, Inv, SessionTypes
  <2>3. Unread.entries = {}
    BY DEF Unread, Seen
  <2> QED BY <1>1, <2>1, <2>2, <2>3 DEF Inv, ReadInPeriod, In, MonthsIn
<1> QED BY <1>1, <1>2, <1>5, <1>7, <1>8 DEF Inv

LEMMA InvStep == Inv /\ [Next]_vars => Inv'
<1> SUFFICES ASSUME Inv, [Next]_vars PROVE Inv'
  OBVIOUS
<1>1. CASE Book
  BY <1>1, BookKeeps
<1>2. CASE PostByHand \/ ReverseEntry \/ Tick
  BY <1>2, QuietKeeps DEF PostByHand, ReverseEntry, Tick, Idle
<1>3. CASE \E s \in Session : Step(s)
  <2>1. PICK s \in Session : Step(s)
    BY <1>3
  <2>2. CASE NotFileable(s) \/ ReturnRefused(s) \/ Abort(s)
    BY <2>2, RefuseKeeps DEF NotFileable, ReturnRefused, Abort
  <2> QED BY <2>1, <2>2, ReadingKeeps, FileKeeps DEF Step
<1>4. CASE UNCHANGED vars
  BY <1>4, QuietKeeps DEF vars
<1> QED BY <1>1, <1>2, <1>3, <1>4 DEF Next

\* A month belongs to one return, and what was supplied in it is declared once.
THEOREM MonthsBelongOnce == Spec => []FiledOnce
<1>1. Inv => FiledOnce
  <2> SUFFICES ASSUME Inv, NEW m \in DOMAIN returns, NEW n \in DOMAIN returns, m # n
               PROVE  /\ MonthsIn(returns[m].period) \cap MonthsIn(returns[n].period) = {}
                      /\ returns[m].declared \cap returns[n].declared = {}
    BY DEF FiledOnce
  <2>1. MonthsIn(returns[m].period) \cap MonthsIn(returns[n].period) = {}
    BY DEF Inv, MonthsOnce
  <2>2. \A e \in returns[m].declared \cap returns[n].declared :
          entries[e].month \in MonthsIn(returns[m].period) \cap MonthsIn(returns[n].period)
    BY DEF Inv, DeclaredInPeriod, In
  <2> QED BY <2>1, <2>2
<1> QED BY <1>1, InvInit, InvStep, PTL DEF Spec

(***************************************************************************)
(* The output account.  A filing takes from it what the entries it read    *)
(* come to, and declares exactly those: none had been declared, and none   *)
(* changes between the reading and the filing.  What is posted or reversed *)
(* by hand stands on both sides.                                           *)
(***************************************************************************)
JournalRow ==
  [by : {"tax", "return", "hand"}, amounts : [TaxAccount -> Int], reversed : BOOLEAN]

OutputInv == journal \in Seq(JournalRow) /\ OutputIsUndeclared

\* The sales among some of the supplies.
Sales(E) == {e \in E : "sale" \in entries[e].sides}

LEMMA TaxOfSales == \A E : TaxOf("sale", E) = SumFunctionOnSet(Tax, Sales(E))
BY DEF TaxOf, Sales

LEMMA Supplies ==
  ASSUME Inv
  PROVE  /\ DOMAIN entries = 1..Len(entries) /\ Len(entries) \in Nat
         /\ IsFiniteSet(DOMAIN entries)
         /\ \A e \in DOMAIN entries : Tax[e] \in Int
<1>1. DOMAIN entries = 1..Len(entries) /\ Len(entries) \in Nat
  BY DEF Inv
<1>2. \A e \in DOMAIN entries : entries[e] \in EntryRow
  BY DEF Inv
<1> QED BY <1>1, <1>2, FS_Interval DEF EntryRow, Tax

LEMMA TaxIsInt ==
  ASSUME Inv, NEW side, NEW E \in SUBSET DOMAIN entries
  PROVE  TaxOf(side, E) \in Int
<1> DEFINE mine == {e \in E : side \in entries[e].sides}
<1>1. IsFiniteSet(mine) /\ mine \subseteq DOMAIN entries
  BY Supplies, FS_Subset
<1>2. \A e \in mine : Tax[e] \in Int
  BY <1>1, Supplies
<1>3. SumFunctionOnSet(Tax, mine) \in Int
  <2> HIDE DEF mine
  <2> QED BY ONLY <1>1, <1>2, SumIsInt
<1> QED BY <1>3 DEF TaxOf

LEMMA OutputInit == Init => OutputInv
<1> SUFFICES ASSUME Init PROVE OutputInv
  OBVIOUS
<1>1. Sales(DOMAIN entries \ Declared) = {} /\ DOMAIN journal = {} /\ Hand = {}
  BY DEF Init, Sales, Hand
<1>2. TaxOf("sale", DOMAIN entries \ Declared) = 0
  BY <1>1, TaxOfSales, SumOfNone
<1>3. Balance("output", {}) = 0
  BY SumOfNone DEF Balance
<1>4. journal \in Seq(JournalRow)
  BY DEF Init
<1> QED BY <1>1, <1>2, <1>3, <1>4 DEF OutputInv, OutputIsUndeclared

LEMMA QuietAccounts ==
  ASSUME OutputInv, UNCHANGED <<entries, returns, journal>>
  PROVE  OutputInv'
<1>1. Declared' = Declared /\ Tax' = Tax
  BY DEF Declared, Tax
<1> QED BY <1>1 DEF OutputInv, OutputIsUndeclared, TaxOf, Balance, Hand

\* One entry more, whether or not another is marked as reversed.
LEMMA EntryAdds ==
  ASSUME journal \in Seq(JournalRow), NEW row \in JournalRow,
         NEW j \in Seq(JournalRow), Len(j) = Len(journal),
         \A n \in DOMAIN journal : j[n].by = journal[n].by /\ j[n].amounts = journal[n].amounts,
         journal' = Append(j, row)
  PROVE  /\ journal' \in Seq(JournalRow)
         /\ Balance("output", DOMAIN journal) \in Int /\ Balance("output", Hand) \in Int
         /\ Balance("output", DOMAIN journal)' = Balance("output", DOMAIN journal) + row.amounts["output"]
         /\ Balance("output", Hand)'
              = Balance("output", Hand) + (IF row.by = "hand" THEN row.amounts["output"] ELSE 0)
<1> DEFINE k == Len(journal) + 1
           f == [n \in DOMAIN journal |-> journal[n].amounts["output"]]
           g == [n \in DOMAIN journal' |-> journal'[n].amounts["output"]]
           all == DOMAIN journal
           hand == Hand
<1>1. /\ journal' \in Seq(JournalRow) /\ all = 1..Len(journal) /\ Len(journal) \in Nat
      /\ DOMAIN journal' = all \cup {k} /\ k \notin all
      /\ journal'[k] = row /\ \A n \in all : journal'[n] = j[n]
  OBVIOUS
<1>2. \A n \in all : journal[n] \in JournalRow
  OBVIOUS
<1>3. IsFiniteSet(all) /\ IsFiniteSet(hand) /\ hand \subseteq all /\ k \notin hand
  BY <1>1, FS_Interval, FS_Subset DEF Hand
<1>4. (\A n \in all : f[n] \in Int) /\ row.amounts["output"] \in Int
  BY <1>2 DEF JournalRow, TaxAccount
<1>5. (\A n \in all : g[n] = f[n]) /\ g[k] = row.amounts["output"]
  BY <1>1
<1>6. Hand' = IF row.by = "hand" THEN hand \cup {k} ELSE hand
  BY <1>1 DEF Hand
<1>7. /\ Balance("output", DOMAIN journal) = SumFunctionOnSet(f, all)
      /\ Balance("output", Hand) = SumFunctionOnSet(f, hand)
      /\ Balance("output", DOMAIN journal)' = SumFunctionOnSet(g, all \cup {k})
      /\ Balance("output", Hand)' = SumFunctionOnSet(g, IF row.by = "hand" THEN hand \cup {k} ELSE hand)
  BY <1>1, <1>6 DEF Balance
<1>8. (\A n \in all : f[n] \in Int /\ g[n] = f[n]) /\ (\A n \in hand : f[n] \in Int /\ g[n] = f[n])
  BY <1>3, <1>4, <1>5
<1>9. g[k] \in Int
  BY <1>4, <1>5
<1>10. k \notin all /\ k \notin hand
  BY <1>1, <1>3
<1>11. row.by = "hand" \/ row.by # "hand"
  OBVIOUS
<1> HIDE DEF f, g, all, hand, k
<1>12. SumFunctionOnSet(g, all \cup {k}) = SumFunctionOnSet(f, all) + g[k]
  BY ONLY <1>3, <1>8, <1>9, <1>10, SumJoins
<1>13. SumFunctionOnSet(g, hand \cup {k}) = SumFunctionOnSet(f, hand) + g[k]
  BY ONLY <1>3, <1>8, <1>9, <1>10, SumJoins
<1>14. SumFunctionOnSet(g, hand) = SumFunctionOnSet(f, hand)
  BY ONLY <1>3, <1>8, SumsAgree
<1>15. SumFunctionOnSet(f, all) \in Int /\ SumFunctionOnSet(f, hand) \in Int
  BY ONLY <1>3, <1>8, SumIsInt
<1>16. Balance("output", Hand)'
         = Balance("output", Hand) + (IF row.by = "hand" THEN row.amounts["output"] ELSE 0)
  <2>1. CASE row.by = "hand"
    BY <1>5, <1>7, <1>13, <2>1
  <2>2. CASE row.by # "hand"
    BY <1>7, <1>14, <1>15, <2>2
  <2> QED BY <2>1, <2>2
<1> QED BY <1>1, <1>5, <1>7, <1>12, <1>15, <1>16

\* What is posted or reversed by hand counts on both sides.
LEMMA HandStands ==
  ASSUME Inv, OutputInv, PostByHand \/ ReverseEntry
  PROVE  OutputInv'
<1>1. \E j \in Seq(JournalRow), row \in JournalRow :
        /\ Len(j) = Len(journal) /\ row.by = "hand" /\ journal' = Append(j, row)
        /\ \A n \in DOMAIN journal : j[n].by = journal[n].by /\ j[n].amounts = journal[n].amounts
  <2>1. CASE PostByHand
    <3>1. PICK amounts \in ByHand : journal' = Append(journal, Entry("hand", amounts))
      BY <2>1 DEF PostByHand
    <3>2. Entry("hand", amounts) \in JournalRow /\ Entry("hand", amounts).by = "hand"
      BY TaxReturnsAssumption DEF Entry, JournalRow
    <3> QED BY <3>1, <3>2 DEF OutputInv
  <2>2. CASE ReverseEntry
    <3>1. PICK n \in DOMAIN journal :
            journal' = Append([journal EXCEPT ![n].reversed = TRUE],
                              Entry("hand", [a \in TaxAccount |-> -journal[n].amounts[a]]))
      BY <2>2 DEF ReverseEntry
    <3> DEFINE j == [journal EXCEPT ![n].reversed = TRUE]
               row == Entry("hand", [a \in TaxAccount |-> -journal[n].amounts[a]])
    <3>2. \A m \in DOMAIN journal : journal[m] \in JournalRow
      BY DEF OutputInv
    <3>3. row \in JournalRow /\ row.by = "hand"
      BY <3>2 DEF Entry, JournalRow
    <3>4. [journal[n] EXCEPT !.reversed = TRUE] \in JournalRow
      BY <3>2 DEF JournalRow
    <3>5. /\ j \in Seq(JournalRow) /\ Len(j) = Len(journal)
          /\ \A m \in DOMAIN journal : j[m] = IF m = n THEN [journal[n] EXCEPT !.reversed = TRUE]
                                                       ELSE journal[m]
      BY <3>4 DEF OutputInv
    <3>6. \A m \in DOMAIN journal : j[m].by = journal[m].by /\ j[m].amounts = journal[m].amounts
      BY <3>2, <3>5 DEF JournalRow
    <3>7. journal' = Append(j, row)
      BY <3>1
    <3> HIDE DEF j, row
    <3> QED BY <3>3, <3>5, <3>6, <3>7
  <2> QED BY <2>1, <2>2
<1>2. PICK j \in Seq(JournalRow), row \in JournalRow :
        /\ Len(j) = Len(journal) /\ row.by = "hand" /\ journal' = Append(j, row)
        /\ \A n \in DOMAIN journal : j[n].by = journal[n].by /\ j[n].amounts = journal[n].amounts
  BY <1>1
<1>3. /\ journal' \in Seq(JournalRow)
      /\ Balance("output", DOMAIN journal) \in Int /\ Balance("output", Hand) \in Int
      /\ Balance("output", DOMAIN journal)' = Balance("output", DOMAIN journal) + row.amounts["output"]
      /\ Balance("output", Hand)' = Balance("output", Hand) + row.amounts["output"]
  BY <1>2, EntryAdds DEF OutputInv
<1>4. row.amounts["output"] \in Int
  BY DEF JournalRow, TaxAccount
<1>5. Balance("output", DOMAIN journal)
        = TaxOf("sale", DOMAIN entries \ Declared) + Balance("output", Hand)
  BY DEF OutputInv, OutputIsUndeclared
<1>6. UNCHANGED <<entries, returns>>
  BY DEF PostByHand, ReverseEntry
<1>7. (TaxOf("sale", DOMAIN entries \ Declared))' = TaxOf("sale", DOMAIN entries \ Declared)
  BY <1>6 DEF TaxOf, Tax, Declared
<1>8. TaxOf("sale", DOMAIN entries \ Declared) \in Int
  BY TaxIsInt
<1> QED BY <1>3, <1>4, <1>5, <1>7, <1>8 DEF OutputInv, OutputIsUndeclared

\* A supply is undeclared as it is booked, and accrues its tax.
LEMMA BookAccrues ==
  ASSUME Inv, OutputInv, Book
  PROVE  OutputInv'
<1> DEFINE open == DOMAIN entries \ Declared
           k == Len(entries) + 1
           sold == {e \in open \cup {k} : "sale" \in entries'[e].sides}
<1>1. PICK m \in 1..LastMonth, t \in Taxed :
        LET tax(side) == IF side \in t.sides THEN t.tax ELSE 0
        IN  /\ entries' = Append(entries, [month |-> m, sides |-> t.sides, tax |-> t.tax])
            /\ journal' = Append(journal, Entry("tax", Moves(tax("sale"), tax("purchase"), 0)))
  BY DEF Book
<1> DEFINE output == IF "sale" \in t.sides THEN t.tax ELSE 0
           input == IF "purchase" \in t.sides THEN t.tax ELSE 0
           row == Entry("tax", Moves(output, input, 0))
<1>2. t.tax \in Int /\ output \in Int /\ input \in Int
  BY TaxReturnsAssumption
<1>3. journal' = Append(journal, row)
  BY <1>1
<1>4. row \in JournalRow /\ row.by = "tax" /\ row.amounts["output"] = output
  BY <1>2 DEF Entry, JournalRow, Moves, TaxAccount
<1>5. /\ journal' \in Seq(JournalRow)
      /\ Balance("output", DOMAIN journal) \in Int /\ Balance("output", Hand) \in Int
      /\ Balance("output", DOMAIN journal)' = Balance("output", DOMAIN journal) + output
      /\ Balance("output", Hand)' = Balance("output", Hand)
  <2> HIDE DEF row, output
  <2>1. journal \in Seq(JournalRow)
    BY DEF OutputInv
  <2>2. /\ journal' \in Seq(JournalRow)
        /\ Balance("output", DOMAIN journal) \in Int /\ Balance("output", Hand) \in Int
        /\ Balance("output", DOMAIN journal)' = Balance("output", DOMAIN journal) + row.amounts["output"]
        /\ Balance("output", Hand)'
             = Balance("output", Hand) + (IF row.by = "hand" THEN row.amounts["output"] ELSE 0)
    BY <1>3, <1>4, <2>1, EntryAdds
  <2> QED BY <1>4, <2>2
<1>6. /\ DOMAIN entries' = DOMAIN entries \cup {k} /\ k \notin DOMAIN entries
      /\ \A e \in DOMAIN entries : entries'[e] = entries[e]
      /\ entries'[k].sides = t.sides /\ entries'[k].tax = t.tax
  BY <1>1, Supplies DEF Inv
<1>7. Declared' = Declared /\ k \notin Declared
  <2>1. UNCHANGED returns
    BY DEF Book
  <2>2. k \notin Declared
    BY <1>6 DEF Inv, DeclaredInPeriod, Declared, In
  <2> QED BY <2>1, <2>2 DEF Declared
<1>8. DOMAIN entries' \ Declared' = open \cup {k} /\ k \notin open /\ open \subseteq DOMAIN entries
  BY <1>6, <1>7
<1>9. IsFiniteSet(Sales(open)) /\ Sales(open) \subseteq DOMAIN entries
  BY <1>8, Supplies, FS_Subset DEF Sales
<1>10. \A e \in Sales(open) : Tax[e] \in Int /\ Tax'[e] = Tax[e]
  <2>1. \A e \in DOMAIN entries : Tax'[e] = Tax[e]
    BY <1>6 DEF Tax
  <2> QED BY <1>9, <2>1, Supplies
<1>11. Tax'[k] = t.tax
  BY <1>6 DEF Tax
<1>12. TaxOf("sale", open) = SumFunctionOnSet(Tax, Sales(open)) /\ TaxOf("sale", open) \in Int
  BY <1>8, TaxOfSales, TaxIsInt
<1>13. (TaxOf("sale", DOMAIN entries \ Declared))' = SumFunctionOnSet(Tax', sold)
  BY <1>8 DEF TaxOf, Sales
<1>14. SumFunctionOnSet(Tax', sold) = TaxOf("sale", open) + output
  <2> HIDE DEF open, k
  <2>1. CASE "sale" \in t.sides
    <3>1. sold = Sales(open) \cup {k} /\ k \notin Sales(open)
      BY <1>6, <1>8, <2>1 DEF Sales
    <3> DEFINE old == Sales(open)
               after == Tax'
    <3>2. SumFunctionOnSet(after, old \cup {k}) = SumFunctionOnSet(Tax, old) + after[k]
      <4>1. IsFiniteSet(old) /\ k \notin old /\ after[k] \in Int
        BY <1>2, <1>9, <1>11, <3>1
      <4>2. \A e \in old : Tax[e] \in Int /\ after[e] = Tax[e]
        BY <1>10
      <4> HIDE DEF old, after
      <4> QED BY ONLY <4>1, <4>2, SumJoins
    <3> QED BY <1>11, <1>12, <2>1, <3>1, <3>2
  <2>2. CASE "sale" \notin t.sides
    <3>1. sold = Sales(open)
      BY <1>6, <1>8, <2>2 DEF Sales
    <3>2. SumFunctionOnSet(Tax', Sales(open)) = SumFunctionOnSet(Tax, Sales(open))
      BY <1>9, <1>10, SumsAgree
    <3>3. output = 0 /\ TaxOf("sale", open) + 0 = TaxOf("sale", open)
      BY <1>12, <2>2
    <3> HIDE DEF sold, output
    <3> QED BY <1>12, <3>1, <3>2, <3>3
  <2> QED BY <2>1, <2>2
<1>15. Balance("output", DOMAIN journal) = TaxOf("sale", open) + Balance("output", Hand)
  BY DEF OutputInv, OutputIsUndeclared
<1>16. Balance("output", DOMAIN journal)'
         = (TaxOf("sale", DOMAIN entries \ Declared))' + Balance("output", Hand)'
  <2> HIDE DEF open, output, sold
  <2> QED BY <1>2, <1>5, <1>12, <1>13, <1>14, <1>15
<1> QED BY <1>5, <1>16 DEF OutputInv, OutputIsUndeclared

\* The entry that clears a return, if it has one.
LEMMA ClearingMoves ==
  ASSUME journal \in Seq(JournalRow), NEW r, r.output \in Int, r.input \in Int, r.output >= 0,
         journal' = journal \o Clearing(r)
  PROVE  /\ journal' \in Seq(JournalRow)
         /\ Balance("output", DOMAIN journal) \in Int /\ Balance("output", Hand) \in Int
         /\ Balance("output", DOMAIN journal)' = Balance("output", DOMAIN journal) - r.output
         /\ Balance("output", Hand)' = Balance("output", Hand)
<1>1. Cleared(r) \in [TaxAccount -> Int] /\ Cleared(r)["output"] = -r.output
  BY DEF Cleared, Moves, Floor, TaxAccount
<1>2. CASE \A a \in TaxAccount : Cleared(r)[a] = 0
  <2>1. UNCHANGED journal /\ r.output = 0
    BY <1>1, <1>2 DEF Clearing, TaxAccount
  <2>2. \A n \in DOMAIN journal : journal[n].amounts["output"] \in Int
    <3>1. \A n \in DOMAIN journal : journal[n] \in JournalRow
      OBVIOUS
    <3> QED BY <3>1 DEF JournalRow, TaxAccount
  <2> DEFINE f == [n \in DOMAIN journal |-> journal[n].amounts["output"]]
             all == DOMAIN journal
             hand == Hand
  <2>3. IsFiniteSet(all) /\ IsFiniteSet(hand) /\ (\A n \in all : f[n] \in Int)
        /\ \A n \in hand : f[n] \in Int
    <3>1. IsFiniteSet(DOMAIN journal) /\ Hand \subseteq DOMAIN journal
      BY FS_Interval DEF Hand
    <3> QED BY <2>2, <3>1, FS_Subset
  <2>4. SumFunctionOnSet(f, all) \in Int /\ SumFunctionOnSet(f, hand) \in Int
    <3> HIDE DEF f, all, hand
    <3> QED BY ONLY <2>3, SumIsInt
  <2>5. Balance("output", DOMAIN journal)' = Balance("output", DOMAIN journal)
        /\ Balance("output", Hand)' = Balance("output", Hand)
    BY <2>1 DEF Balance, Hand
  <2> QED BY <2>1, <2>4, <2>5 DEF Balance
<1>3. CASE ~(\A a \in TaxAccount : Cleared(r)[a] = 0)
  <2> DEFINE row == Entry("return", Cleared(r))
  <2>1. row \in JournalRow /\ row.by = "return" /\ row.amounts["output"] = -r.output
    BY <1>1 DEF Entry, JournalRow
  <2>2. journal' = Append(journal, row)
    BY <1>3 DEF Clearing
  <2> HIDE DEF row
  <2>3. /\ journal' \in Seq(JournalRow)
        /\ Balance("output", DOMAIN journal) \in Int /\ Balance("output", Hand) \in Int
        /\ Balance("output", DOMAIN journal)' = Balance("output", DOMAIN journal) + row.amounts["output"]
        /\ Balance("output", Hand)'
             = Balance("output", Hand) + (IF row.by = "hand" THEN row.amounts["output"] ELSE 0)
    BY <2>1, <2>2, EntryAdds
  <2> QED BY <2>1, <2>3
<1> QED BY <1>2, <1>3

\* A return declares what nobody had, and takes its tax out of the account.
LEMMA FilingClears ==
  ASSUME Inv, OutputInv, NEW s \in Session, WriteReturn(s)
  PROVE  OutputInv'
<1> DEFINE r == Built(s)
           open == DOMAIN entries \ Declared
           k == Len(returns) + 1
<1>1. /\ returns' = Append(returns, r) /\ UNCHANGED entries
      /\ r.period = period[s] /\ r.declared = read[s].entries
      /\ r.output = TaxOf("sale", read[s].entries) /\ r.input = TaxOf("purchase", read[s].entries)
      /\ r.output >= 0
      /\ MonthsIn(r.period) \cap Claimed = {} /\ journal' = journal \o Clearing(r)
  BY DEF WriteReturn, Built, Acceptable, Free
<1> HIDE DEF r
<1>2. /\ IsSequence(returns') /\ DOMAIN returns' = 1..k /\ DOMAIN returns = 1..(k - 1) /\ k \in Nat
      /\ returns'[k] = r /\ \A n \in DOMAIN returns : returns'[n] = returns[n]
  BY <1>1, AppendIsSequence DEF Inv
<1>3. DOMAIN returns' = DOMAIN returns \cup {k}
  BY <1>2
<1>4. Declared' = Declared \cup r.declared
  BY <1>2, <1>3 DEF Declared
<1>5. r.declared \subseteq In(r.period)
  BY <1>1 DEF Inv, ReadInPeriod
<1>6. r.declared \cap Declared = {}
  <2>1. \A n \in DOMAIN returns : MonthsIn(r.period) \cap MonthsIn(returns[n].period) = {}
    BY <1>1 DEF Claimed
  <2>2. \A e \in r.declared : entries[e].month \in MonthsIn(r.period)
    BY <1>5 DEF In
  <2>3. \A n \in DOMAIN returns : \A e \in returns[n].declared : entries[e].month \in MonthsIn(returns[n].period)
    BY DEF Inv, DeclaredInPeriod, In
  <2> QED BY <2>1, <2>2, <2>3 DEF Declared
<1>7. r.declared \subseteq open /\ open \subseteq DOMAIN entries
  BY <1>5, <1>6 DEF In
<1>8. (DOMAIN entries \ Declared)' = open \ r.declared
  BY <1>1, <1>4
<1>9. r.output \in Int /\ r.input \in Int
  BY <1>1, <1>7, TaxIsInt
<1>10. Balance("output", DOMAIN journal) = TaxOf("sale", open) + Balance("output", Hand)
  BY DEF OutputInv, OutputIsUndeclared
<1> HIDE DEF open
<1>11. /\ IsFiniteSet(Sales(open)) /\ Sales(open) \subseteq DOMAIN entries
       /\ Sales(r.declared) \subseteq Sales(open)
       /\ Sales(open \ r.declared) = Sales(open) \ Sales(r.declared)
  BY <1>7, Supplies, FS_Subset DEF Sales
<1>12. \A e \in Sales(open) : Tax[e] \in Int
  BY <1>11, Supplies
<1>13. SumFunctionOnSet(Tax, Sales(open))
         = SumFunctionOnSet(Tax, Sales(r.declared)) + SumFunctionOnSet(Tax, Sales(open \ r.declared))
  <2> DEFINE old == Sales(open)
             mine == Sales(r.declared)
  <2>1. IsFiniteSet(old) /\ mine \in SUBSET old
    BY <1>11
  <2>2. \A e \in old : Tax[e] \in Int
    BY <1>12
  <2>3. SumFunctionOnSet(Tax, old) = SumFunctionOnSet(Tax, mine) + SumFunctionOnSet(Tax, old \ mine)
    <3> HIDE DEF old, mine
    <3> QED BY ONLY <2>1, <2>2, SumOfParts
  <2> QED BY <1>11, <2>3
<1>14. /\ TaxOf("sale", open) = SumFunctionOnSet(Tax, Sales(open))
       /\ r.output = SumFunctionOnSet(Tax, Sales(r.declared))
       /\ TaxOf("sale", open \ r.declared) = SumFunctionOnSet(Tax, Sales(open \ r.declared))
       /\ TaxOf("sale", open \ r.declared) \in Int
  BY <1>1, <1>7, TaxOfSales, TaxIsInt
<1>15. TaxOf("sale", open) = r.output + TaxOf("sale", open \ r.declared)
  BY <1>13, <1>14
<1>16. (TaxOf("sale", DOMAIN entries \ Declared))' = TaxOf("sale", open \ r.declared)
  BY <1>1, <1>8 DEF TaxOf, Tax
<1>17. /\ journal' \in Seq(JournalRow)
       /\ Balance("output", DOMAIN journal) \in Int /\ Balance("output", Hand) \in Int
       /\ Balance("output", DOMAIN journal)' = Balance("output", DOMAIN journal) - r.output
       /\ Balance("output", Hand)' = Balance("output", Hand)
  <2>1. journal \in Seq(JournalRow)
    BY DEF OutputInv
  <2> QED BY <1>1, <1>9, <2>1, ClearingMoves
<1>18. Balance("output", DOMAIN journal)'
         = (TaxOf("sale", DOMAIN entries \ Declared))' + Balance("output", Hand)'
  BY <1>9, <1>10, <1>14, <1>15, <1>16, <1>17
<1> QED BY <1>17, <1>18 DEF OutputInv, OutputIsUndeclared

LEMMA OutputStep == Inv /\ OutputInv /\ [Next]_vars => OutputInv'
<1> SUFFICES ASSUME Inv, OutputInv, [Next]_vars PROVE OutputInv'
  OBVIOUS
<1>1. CASE Book
  BY <1>1, BookAccrues
<1>2. CASE PostByHand \/ ReverseEntry
  BY <1>2, HandStands
<1>3. CASE Tick
  BY <1>3, QuietAccounts DEF Tick
<1>4. CASE \E s \in Session : Step(s)
  <2>1. PICK s \in Session : Step(s)
    BY <1>4
  <2>2. CASE WriteReturn(s)
    BY <2>2, FilingClears
  <2>3. CASE ~WriteReturn(s)
    <3>1. UNCHANGED <<entries, returns, journal>>
      BY <2>1, <2>3 DEF Step, Begin, Check, NotFileable, ReadEntries, ReadCredit,
                        ReturnRefused, Abort, Refuse
    <3> QED BY <3>1, QuietAccounts
  <2> QED BY <2>2, <2>3
<1>5. CASE UNCHANGED vars
  BY <1>5, QuietAccounts DEF vars
<1> QED BY <1>1, <1>2, <1>3, <1>4, <1>5 DEF Next

\* Beside what people post and reverse, the output account carries the tax of what no
\* return has declared, whatever is booked between a filing's read of the entries and
\* its commit (clearingLegs).
THEOREM OutputAccruesAnew == Spec => []OutputIsUndeclared
<1>1. OutputInv => OutputIsUndeclared
  BY DEF OutputInv
<1> QED BY <1>1, InvInit, InvStep, OutputInit, OutputStep, PTL DEF Spec

=============================================================================
