-------------------------- MODULE EInvoicesProofs --------------------------
(***************************************************************************)
(* The numbers of a series run, and a number once taken stays the next     *)
(* one, for all series, sales, notes and sessions.  The lock of a series   *)
(* has one holder, nothing else is added to that series meanwhile, and so  *)
(* what the holder read is still true when it inserts and commits.         *)
(***************************************************************************)
EXTENDS EInvoices, FiniteSetTheorems, SequenceTheorems, TLAPS

Labels == {"idle", "lock", "number", "insert", "commit"}
Held == {"number", "insert", "commit"}

Row == [by : {"service", "hand"}, series : Series, number : Nat,
        sale : Sale \cup {CHOOSE k \in Sale : TRUE}, note : Note \cup {NoNote},
        adjusts : Nat, year : Nat]

\* The invoices are a sequence of rows, and each session has a draft.
TypeInv ==
  /\ invoices \in Seq(Row) /\ seller \in Series
  /\ pc \in [Session -> Labels] /\ draft \in [Session -> Row]

Members(x) == {m \in Issued : invoices[m].series = x}
Numbers(x) == {0} \cup {invoices[n].number : n \in Members(x)}

\* The last number of a series is how many there are in it.
Counted == \A x \in Series :
  /\ Cardinality(Members(x)) \in Numbers(x)
  /\ \A k \in Numbers(x) : k <= Cardinality(Members(x))

LockIsExclusive == \A s, t \in Session :
  s # t /\ pc[s] \in Held /\ pc[t] \in Held => draft[s].series # draft[t].series

\* A row that is inserted, or that the service is about to insert, is next.
IsNext(r, at) == at = "commit" \/ (at = "insert" /\ r.by = "service")
NextInLine == \A s \in Session :
  /\ IsNext(draft[s], pc[s]) => InSequence(draft[s])
  /\ draft[s].by = "service" /\ pc[s] # "idle" => draft[s].year = YearOf[draft[s].series]

\* An inserted row is in no index already, committed or not.
Apart(s, r) ==
  /\ \A n \in Issued : ~Clash(r, invoices[n])
  /\ \A t \in Session \ {s} : pc[t] = "commit" => ~Clash(r, draft[t])
IndexedOnce == \A s \in Session : pc[s] = "commit" => Apart(s, draft[s])

AdjustsOriginal(r) == r.note # NoNote => r.adjusts \in OriginalOf(SaleOf[r.note])
DraftsAdjust == \A s \in Session : AdjustsOriginal(draft[s])

Inv ==
  /\ TypeInv /\ Counted /\ LockIsExclusive /\ NextInLine
  /\ IndexedOnce /\ DraftsAdjust /\ NumbersRun /\ OneDocumentEach

(***************************************************************************)
(* Every step of a session moves it and its draft, and adds an invoice or  *)
(* none.                                                                   *)
(***************************************************************************)
Moves(s, r, where) ==
  /\ pc' = [pc EXCEPT ![s] = where] /\ draft' = [draft EXCEPT ![s] = r]
  /\ seller' = seller

\* What a session may move to.
Sound(s, r, where) ==
  /\ where \in Held => \/ pc[s] \in Held /\ r.series = draft[s].series
                       \/ Holders(r.series) \ {s} = {}
  /\ IsNext(r, where) => InSequence(r)
  /\ r.by = "service" /\ where # "idle" => r.year = YearOf[r.series]
  /\ where = "commit" => Apart(s, r)
  /\ AdjustsOriginal(r)

Adds(s, where) ==
  \/ invoices' = invoices
  \/ pc[s] = "commit" /\ where = "idle" /\ invoices' = Append(invoices, draft[s])

LEMMA BlankTypes == seller \in Series => Blank \in Row /\ Blank.note = NoNote
BY DEF Blank, Draft, Row

LEMMA InvoiceTypes ==
  ASSUME TypeInv
  PROVE  /\ Issued = 1..Len(invoices) /\ Len(invoices) \in Nat
         /\ \A n \in Issued : invoices[n] \in Row /\ invoices[n].number \in Nat
<1>1. Issued = 1..Len(invoices) /\ Len(invoices) \in Nat /\ \A n \in Issued : invoices[n] \in Row
  BY DEF TypeInv, Issued
<1>2. \A r \in Row : r.number \in Nat
  BY DEF Row
<1> QED BY <1>1, <1>2

LEMMA NumberTypes ==
  ASSUME TypeInv, NEW x
  PROVE  Numbers(x) \subseteq Nat /\ Members(x) \subseteq Issued
<1>1. \A n \in Members(x) : invoices[n].number \in Nat
  BY InvoiceTypes DEF Members
<1> QED BY <1>1 DEF Numbers, Members

LEMMA LastIsCount ==
  ASSUME TypeInv, Counted, NEW x \in Series
  PROVE  Last(x) = Cardinality(Members(x)) /\ Last(x) \in Nat
<1> DEFINE c == Cardinality(Members(x))
<1>1. Numbers(x) \subseteq Nat
  BY NumberTypes
<1>2. c \in Numbers(x) /\ \A k \in Numbers(x) : k <= c
  BY DEF Counted
<1>3. Last(x) = CHOOSE k \in Numbers(x) : \A j \in Numbers(x) : k >= j
  BY DEF Last, Max, Numbers, Members
<1> HIDE DEF c
<1>4. \A k \in Numbers(x) : (\A j \in Numbers(x) : k >= j) => k = c
  BY <1>1, <1>2
<1>5. \A j \in Numbers(x) : c >= j
  BY <1>1, <1>2
<1>6. Last(x) = c
  BY <1>2, <1>3, <1>4, <1>5
<1> QED BY <1>1, <1>2, <1>6 DEF c

LEMMA YearTypes ==
  /\ \A x \in Series : YearOf[x] \in Nat
  /\ \A note \in Note : SaleOf[note] \in Sale
  /\ NoNote \notin Note /\ MaxInvoices \in Nat
BY EInvoicesAssumption

LEMMA MoveShape ==
  ASSUME Inv, NEW s \in Session, Step(s)
  PROVE  \E r \in Row, where \in Labels : Moves(s, r, where) /\ Sound(s, r, where) /\ Adds(s, where)
<1> DEFINE Shaped == \E r \in Row, where \in Labels :
                       Moves(s, r, where) /\ Sound(s, r, where) /\ Adds(s, where)
<1> SUFFICES Shaped
  OBVIOUS
<1>1. /\ TypeInv /\ draft[s] \in Row /\ seller \in Series /\ draft[s].series \in Series
      /\ draft = [draft EXCEPT ![s] = draft[s]] /\ AdjustsOriginal(draft[s])
      /\ pc[s] # "idle" /\ draft[s].by = "service" => draft[s].year = YearOf[draft[s].series]
  BY DEF Inv, TypeInv, Row, DraftsAdjust, NextInLine
<1>2. \A r \in Row : r.note = NoNote => AdjustsOriginal(r)
  BY DEF AdjustsOriginal
<1>3. ASSUME NEW r \in Row, Moves(s, r, "lock"), AdjustsOriginal(r), UNCHANGED invoices,
             r.by = "service" => r.year = YearOf[r.series]
      PROVE  Shaped
  <2>1. Sound(s, r, "lock") /\ Adds(s, "lock") /\ "lock" \in Labels
    BY <1>3 DEF Sound, Adds, Held, IsNext, Labels
  <2> QED BY <1>3, <2>1
<1>4. ASSUME Moves(s, Blank, "idle"), Adds(s, "idle")
      PROVE  Shaped
  <2>1. Blank \in Row /\ Blank.note = NoNote
    BY <1>1, BlankTypes
  <2>2. Sound(s, Blank, "idle") /\ "idle" \in Labels
    BY <1>2, <2>1 DEF Sound, Held, IsNext, Labels
  <2> QED BY <1>4, <2>1, <2>2
<1>5. CASE CheckSale(s)
  <2>1. PICK sale \in Sale :
          draft' = [draft EXCEPT ![s] = Draft("service", seller, 0, sale, NoNote, 0, YearOf[seller])]
    BY <1>5 DEF CheckSale
  <2> DEFINE r == Draft("service", seller, 0, sale, NoNote, 0, YearOf[seller])
  <2>2. /\ r \in Row /\ r.note = NoNote /\ r.year = YearOf[r.series]
    BY <1>1, YearTypes DEF Draft, Row
  <2>3. Moves(s, r, "lock") /\ UNCHANGED invoices
    BY <1>5, <2>1 DEF CheckSale, Moves, Goto
  <2> QED
    <3> HIDE DEF r, Shaped
    <3> QED BY <1>2, <1>3, <2>2, <2>3
<1>6. CASE CheckNote(s)
  <2>1. PICK note \in Note : \E original \in OriginalOf(SaleOf[note]) :
          draft' = [draft EXCEPT ![s] =
              Draft("service", seller, 0, SaleOf[note], note, original, YearOf[seller])]
    BY <1>6 DEF CheckNote
  <2>2. PICK original \in OriginalOf(SaleOf[note]) :
          draft' = [draft EXCEPT ![s] =
              Draft("service", seller, 0, SaleOf[note], note, original, YearOf[seller])]
    BY <2>1
  <2> DEFINE r == Draft("service", seller, 0, SaleOf[note], note, original, YearOf[seller])
  <2>3. original \in Nat
    BY <1>1 DEF OriginalOf, Issued, TypeInv
  <2>4. /\ r \in Row /\ r.note = note /\ r.adjusts = original /\ r.year = YearOf[r.series]
    BY <1>1, <2>3, YearTypes DEF Draft, Row
  <2>5. Moves(s, r, "lock") /\ UNCHANGED invoices
    BY <1>6, <2>2 DEF CheckNote, Moves, Goto
  <2> QED
    <3> HIDE DEF r, Shaped
    <3>1. AdjustsOriginal(r)
      BY <2>4 DEF AdjustsOriginal
    <3> QED BY <1>3, <2>4, <2>5, <3>1
<1>7. CASE InsertByHand(s)
  <2>1. PICK sale \in Sale, x \in Series, n \in 1..MaxInvoices, y \in {YearOf[z] : z \in Series} :
          draft' = [draft EXCEPT ![s] = Draft("hand", x, n, sale, NoNote, 0, y)]
    BY <1>7 DEF InsertByHand
  <2> DEFINE r == Draft("hand", x, n, sale, NoNote, 0, y)
  <2>2. /\ r \in Row /\ r.note = NoNote /\ r.by = "hand"
    BY YearTypes DEF Draft, Row
  <2>3. Moves(s, r, "lock") /\ UNCHANGED invoices
    BY <1>7, <2>1 DEF InsertByHand, Moves, Goto
  <2> QED
    <3> HIDE DEF r, Shaped
    <3> QED BY <1>2, <1>3, <2>2, <2>3
<1>8. CASE LockSeries(s)
  <2> DEFINE where == IF draft[s].by = "service" THEN "number" ELSE "insert"
  <2>1. /\ Moves(s, draft[s], where) /\ Adds(s, where) /\ where \in Labels
        /\ Holders(draft[s].series) \ {s} = {} /\ pc[s] = "lock"
    BY <1>1, <1>8 DEF LockSeries, Moves, Goto, Adds, Labels
  <2>2. ~IsNext(draft[s], where) /\ where # "commit"
    BY DEF IsNext
  <2>3. Sound(s, draft[s], where)
    BY <1>1, <2>1, <2>2 DEF Sound
  <2> QED BY <1>1, <2>1, <2>3
<1>9. CASE TakeNumber(s)
  <2> DEFINE r == [draft[s] EXCEPT !.number = Last(draft[s].series) + 1]
  <2>1. Last(draft[s].series) \in Nat
    BY <1>1, LastIsCount DEF Inv
  <2>2. /\ r \in Row /\ r.number = Last(r.series) + 1 /\ r.series = draft[s].series
        /\ r.by = draft[s].by /\ r.year = draft[s].year
        /\ r.note = draft[s].note /\ r.adjusts = draft[s].adjusts
    BY <1>1, <2>1 DEF Row
  <2>3. Moves(s, r, "insert") /\ Adds(s, "insert") /\ "insert" \in Labels /\ pc[s] = "number"
    BY <1>9 DEF TakeNumber, Moves, Goto, Adds, Labels
  <2> HIDE DEF r
  <2>4. AdjustsOriginal(r)
    BY <1>1, <2>2 DEF AdjustsOriginal
  <2>5. Sound(s, r, "insert")
    BY <1>1, <2>2, <2>3, <2>4 DEF Sound, IsNext, InSequence, Held
  <2> QED BY <2>2, <2>3, <2>5
<1>10. CASE InsertRow(s)
  <2>1. /\ Moves(s, draft[s], "commit") /\ Adds(s, "commit") /\ "commit" \in Labels
        /\ pc[s] = "insert" /\ InSequence(draft[s])
        /\ Rivals(s) = {} /\ Taken(draft[s]) = {}
    BY <1>1, <1>10 DEF InsertRow, Moves, Goto, Adds, Labels
  <2>2. Apart(s, draft[s])
    BY <2>1 DEF Apart, Rivals, Taken
  <2>3. Sound(s, draft[s], "commit")
    BY <1>1, <2>1, <2>2 DEF Sound, Held
  <2> QED BY <1>1, <2>1, <2>3
<1>11. CASE Commit(s)
  <2>1. Moves(s, Blank, "idle") /\ Adds(s, "idle")
    BY <1>11 DEF Commit, Finish, Goto, Moves, Adds
  <2> HIDE DEF Shaped
  <2> QED BY <1>4, <2>1
<1>12. CASE InsertRefused(s) \/ Abort(s)
  <2>1. Moves(s, Blank, "idle") /\ Adds(s, "idle")
    BY <1>12 DEF InsertRefused, Abort, Refuse, Finish, Goto, Moves, Adds
  <2> HIDE DEF Shaped
  <2> QED BY <1>4, <2>1
<1> HIDE DEF Shaped
<1> QED BY <1>5, <1>6, <1>7, <1>8, <1>9, <1>10, <1>11, <1>12 DEF Step

(***************************************************************************)
(* A step as the rest of the proof sees it.                                *)
(***************************************************************************)
StepOf(s, r, where) ==
  /\ s \in Session /\ r \in Row /\ where \in Labels
  /\ Moves(s, r, where) /\ Sound(s, r, where) /\ Adds(s, where)

LEMMA TypesKept ==
  ASSUME Inv, NEW s, NEW r, NEW where, StepOf(s, r, where)
  PROVE  /\ TypeInv' /\ pc'[s] = where /\ draft'[s] = r
         /\ \A t \in Session : t # s => pc'[t] = pc[t] /\ draft'[t] = draft[t]
<1>1. invoices' \in Seq(Row)
  BY AppendProperties DEF Inv, TypeInv, StepOf, Adds
<1> QED BY <1>1 DEF Inv, TypeInv, StepOf, Moves

\* Of what was issued nothing changes; what is added is the draft.
LEMMA IssuedKept ==
  ASSUME Inv, NEW s, NEW r, NEW where, StepOf(s, r, where)
  PROVE  \/ Issued' = Issued /\ invoices' = invoices
         \/ /\ Issued' = Issued \cup {Len(invoices) + 1}
            /\ Len(invoices) + 1 \notin Issued
            /\ \A n \in Issued : invoices'[n] = invoices[n]
            /\ invoices'[Len(invoices) + 1] = draft[s]
            /\ pc[s] = "commit" /\ where = "idle"
<1>1. CASE invoices' = invoices
  BY <1>1 DEF Issued
<1>2. CASE pc[s] = "commit" /\ where = "idle" /\ invoices' = Append(invoices, draft[s])
  <2>1. invoices \in Seq(Row) /\ draft[s] \in Row
    BY DEF Inv, TypeInv, StepOf
  <2>2. /\ Issued = 1..Len(invoices) /\ Len(invoices) \in Nat
    BY InvoiceTypes DEF Inv
  <2>3. DOMAIN Append(invoices, draft[s]) = 1..(Len(invoices) + 1)
    BY <2>1
  <2>4. /\ \A n \in 1..Len(invoices) : invoices'[n] = invoices[n]
        /\ invoices'[Len(invoices) + 1] = draft[s]
    BY <1>2, <2>1, AppendProperties
  <2>5. Issued' = 1..(Len(invoices) + 1)
    BY <1>2, <2>3 DEF Issued
  <2>6. 1..(Len(invoices) + 1) = (1..Len(invoices)) \cup {Len(invoices) + 1}
    BY <2>2
  <2> QED BY <1>2, <2>2, <2>4, <2>5, <2>6
<1> QED BY <1>1, <1>2 DEF StepOf, Adds

\* Members and numbers of a series: all stay, or one is added to one series.
LEMMA MembersKept ==
  ASSUME Inv, NEW s, NEW r, NEW where, StepOf(s, r, where), NEW x
  PROVE  \/ Members(x)' = Members(x) /\ Numbers(x)' = Numbers(x)
         \/ /\ pc[s] = "commit" /\ where = "idle" /\ x = draft[s].series
            /\ Members(x)' = Members(x) \cup {Len(invoices) + 1}
            /\ Len(invoices) + 1 \notin Members(x)
            /\ Numbers(x)' = Numbers(x) \cup {draft[s].number}
<1>1. CASE Issued' = Issued /\ invoices' = invoices
  BY <1>1 DEF Members, Numbers
<1>2. CASE /\ Issued' = Issued \cup {Len(invoices) + 1}
           /\ Len(invoices) + 1 \notin Issued
           /\ \A n \in Issued : invoices'[n] = invoices[n]
           /\ invoices'[Len(invoices) + 1] = draft[s]
           /\ pc[s] = "commit" /\ where = "idle"
  <2>1. CASE x = draft[s].series
    <3>1. Members(x)' = Members(x) \cup {Len(invoices) + 1}
      BY <1>2, <2>1 DEF Members
    <3>2. Len(invoices) + 1 \notin Members(x) /\ \A n \in Members(x) : invoices'[n] = invoices[n]
      BY <1>2 DEF Members
    <3>3. Numbers(x)' = {0} \cup {invoices'[n].number : n \in Members(x)'}
      BY DEF Numbers
    <3>4. Numbers(x)' = Numbers(x) \cup {draft[s].number}
      BY <1>2, <3>1, <3>2, <3>3 DEF Numbers
    <3> QED BY <1>2, <2>1, <3>1, <3>2, <3>4
  <2>2. CASE x # draft[s].series
    <3>1. Members(x)' = Members(x)
      BY <1>2, <2>2 DEF Members
    <3>2. \A n \in Members(x) : invoices'[n] = invoices[n]
      BY <1>2 DEF Members
    <3>3. Numbers(x)' = {0} \cup {invoices'[n].number : n \in Members(x)'}
      BY DEF Numbers
    <3>4. Numbers(x)' = Numbers(x)
      BY <3>1, <3>2, <3>3 DEF Numbers
    <3> QED BY <3>1, <3>4
  <2> QED BY <2>1, <2>2
<1> QED BY <1>1, <1>2, IssuedKept

LEMMA MembersAreFinite ==
  ASSUME TypeInv, NEW x
  PROVE  IsFiniteSet(Members(x)) /\ Cardinality(Members(x)) \in Nat
<1>1. IsFiniteSet(Issued)
  <2>1. Issued = 1..Len(invoices) /\ Len(invoices) \in Int /\ 1 \in Int
    BY InvoiceTypes
  <2>2. IsFiniteSet(1..Len(invoices))
    BY <2>1, FS_Interval
  <2> QED BY <2>1, <2>2
<1>2. Members(x) \in SUBSET Issued
  BY DEF Members
<1> QED BY <1>1, <1>2, FS_Subset, FS_CardinalityType

LEMMA CountedKept ==
  ASSUME Inv, NEW s, NEW r, NEW where, StepOf(s, r, where)
  PROVE  Counted'
<1> SUFFICES ASSUME NEW x \in Series
             PROVE  /\ Cardinality(Members(x)') \in Numbers(x)'
                    /\ \A k \in Numbers(x)' : k <= Cardinality(Members(x)')
  BY DEF Counted
<1>1. /\ IsFiniteSet(Members(x)) /\ Cardinality(Members(x)) \in Nat /\ Numbers(x) \subseteq Nat
      /\ Cardinality(Members(x)) \in Numbers(x)
      /\ \A k \in Numbers(x) : k <= Cardinality(Members(x))
  BY MembersAreFinite, NumberTypes DEF Inv, Counted
<1>2. CASE Members(x)' = Members(x) /\ Numbers(x)' = Numbers(x)
  BY <1>1, <1>2
<1>3. CASE /\ pc[s] = "commit" /\ where = "idle" /\ x = draft[s].series
           /\ Members(x)' = Members(x) \cup {Len(invoices) + 1}
           /\ Len(invoices) + 1 \notin Members(x)
           /\ Numbers(x)' = Numbers(x) \cup {draft[s].number}
  <2>1. Cardinality(Members(x)') = Cardinality(Members(x)) + 1
    BY <1>1, <1>3, FS_AddElement
  <2>2. draft[s].number = Cardinality(Members(x)) + 1
    BY <1>3, LastIsCount DEF Inv, StepOf, NextInLine, IsNext, InSequence
  <2> DEFINE c == Cardinality(Members(x))
  <2>3. /\ c \in Nat /\ Numbers(x) \subseteq Nat /\ Cardinality(Members(x)') = c + 1
        /\ Numbers(x)' = Numbers(x) \cup {c + 1} /\ \A k \in Numbers(x) : k <= c
    BY <1>1, <1>3, <2>1, <2>2
  <2> HIDE DEF c
  <2>4. \A k \in Numbers(x) \cup {c + 1} : k <= c + 1
    BY <2>3
  <2> QED BY <2>3, <2>4
<1> QED BY <1>2, <1>3, MembersKept

LEMMA LockKept ==
  ASSUME Inv, NEW s, NEW r, NEW where, StepOf(s, r, where)
  PROVE  LockIsExclusive'
<1>1. \A t \in Session : t # s /\ pc[t] \in Held /\ where \in Held => r.series # draft[t].series
  BY DEF Inv, LockIsExclusive, StepOf, Sound, Holders, Held
<1>2. ASSUME NEW t \in Session, NEW q \in Session, t # q, pc'[t] \in Held, pc'[q] \in Held
      PROVE  draft'[t].series # draft'[q].series
  <2>1. CASE t # s /\ q # s
    BY <1>2, <2>1, TypesKept DEF Inv, LockIsExclusive
  <2>2. CASE t = s
    BY <1>1, <1>2, <2>2, TypesKept
  <2>3. CASE q = s
    BY <1>1, <1>2, <2>3, TypesKept
  <2> QED BY <2>1, <2>2, <2>3
<1> QED BY <1>2 DEF LockIsExclusive

\* What is added is of a series whose lock nobody else has.
LEMMA NextKept ==
  ASSUME Inv, NEW s, NEW r, NEW where, StepOf(s, r, where)
  PROVE  NextInLine'
<1>1. ASSUME NEW t \in Session
      PROVE  /\ IsNext(draft'[t], pc'[t]) => InSequence(draft[t])'
             /\ draft'[t].by = "service" /\ pc'[t] # "idle" => draft'[t].year = YearOf[draft'[t].series]
  <2>1. CASE t = s
    <3>1. draft'[t].by = "service" /\ pc'[t] # "idle" => draft'[t].year = YearOf[draft'[t].series]
      BY <2>1, TypesKept DEF StepOf, Sound
    <3>2. ASSUME IsNext(r, where) PROVE InSequence(draft[t])'
      <4>1. InSequence(r) /\ r \in Row /\ where # "idle"
        BY <3>2 DEF StepOf, Sound, IsNext
      <4>2. Members(r.series)' = Members(r.series) /\ Numbers(r.series)' = Numbers(r.series)
        BY <4>1, MembersKept
      <4>3. r.number = Last(r.series)' + 1 /\ r.year = YearOf[r.series]
        BY <4>1, <4>2 DEF InSequence, Last, Numbers, Members
      <4> QED BY <2>1, <4>3, TypesKept DEF InSequence, Last, Issued
    <3> QED BY <2>1, <3>1, <3>2, TypesKept
  <2>2. CASE t # s
    <3>1. draft'[t] = draft[t] /\ pc'[t] = pc[t] /\ draft[t] \in Row
      BY <2>2, TypesKept DEF Inv, TypeInv
    <3>2. ASSUME IsNext(draft[t], pc[t]) PROVE InSequence(draft[t])'
      <4>1. InSequence(draft[t])
        BY <3>2 DEF Inv, NextInLine
      <4>2. pc[s] = "commit" => draft[s].series # draft[t].series
        BY <2>2, <3>2 DEF Inv, LockIsExclusive, IsNext, Held, StepOf
      <4>3. /\ Members(draft[t].series)' = Members(draft[t].series)
            /\ Numbers(draft[t].series)' = Numbers(draft[t].series)
        <5>1. ASSUME NEW x, x = draft[t].series
              PROVE  Members(x)' = Members(x) /\ Numbers(x)' = Numbers(x)
          BY <4>2, <5>1, MembersKept
        <5> QED BY <3>1, <5>1 DEF Members, Numbers
      <4>4. draft[t].number = Last(draft[t].series)' + 1 /\ draft[t].year = YearOf[draft[t].series]
        BY <4>1, <4>3, <3>1 DEF InSequence, Last, Numbers, Members
      <4> QED BY <3>1, <4>4 DEF InSequence, Last, Issued
    <3> QED BY <3>1, <3>2 DEF Inv, NextInLine
  <2> QED BY <2>1, <2>2
<1> QED BY <1>1 DEF NextInLine

\* The new number counts what was in its series and itself.
LEMMA NumbersKept ==
  ASSUME Inv, NEW s, NEW r, NEW where, StepOf(s, r, where)
  PROVE  NumbersRun'
<1>1. CASE Issued' = Issued /\ invoices' = invoices
  BY <1>1 DEF Inv, NumbersRun
<1>2. CASE /\ Issued' = Issued \cup {Len(invoices) + 1}
           /\ Len(invoices) + 1 \notin Issued
           /\ \A n \in Issued : invoices'[n] = invoices[n]
           /\ invoices'[Len(invoices) + 1] = draft[s]
           /\ pc[s] = "commit" /\ where = "idle"
  <2> DEFINE new == Len(invoices) + 1
             x == draft[s].series
             Before(n, y) == {m \in 1..n : invoices[m].series = y}
  <2>1. Issued = 1..Len(invoices) /\ Len(invoices) \in Nat
    BY InvoiceTypes DEF Inv
  <2>2. ASSUME NEW n \in Issued
        PROVE  invoices'[n].number = Cardinality({m \in 1..n : invoices'[m].series = invoices'[n].series})
    <3>1. 1..n \subseteq Issued
      BY <2>1
    <3>2. {m \in 1..n : invoices'[m].series = invoices'[n].series} = Before(n, invoices[n].series)
      BY <1>2, <3>1
    <3>3. invoices[n].number = Cardinality(Before(n, invoices[n].series))
      BY DEF Inv, NumbersRun
    <3> QED BY <1>2, <3>2, <3>3
  <2>3. /\ draft[s].number = Cardinality(Members(x)) + 1 /\ x \in Series
    BY <1>2, LastIsCount DEF Inv, TypeInv, Row, StepOf, NextInLine, IsNext, InSequence
  <2>4. {m \in 1..new : invoices'[m].series = invoices'[new].series} = Members(x) \cup {new}
    <3>1. 1..new = Issued \cup {new}
      BY <2>1
    <3>2. Members(x) = {m \in Issued : invoices[m].series = x}
      BY DEF Members
    <3> QED BY <1>2, <3>1, <3>2
  <2>5. Cardinality(Members(x) \cup {new}) = Cardinality(Members(x)) + 1
    <3>1. new \notin Members(x) /\ IsFiniteSet(Members(x))
      BY <1>2, MembersAreFinite DEF Inv, Members
    <3> QED BY <3>1, FS_AddElement
  <2>6. invoices'[new].number = Cardinality({m \in 1..new : invoices'[m].series = invoices'[new].series})
    BY <1>2, <2>3, <2>4, <2>5
  <2>7. Issued' = Issued \cup {new}
    BY <1>2
  <2> HIDE DEF new
  <2> QED BY <2>2, <2>6, <2>7 DEF NumbersRun
<1> QED BY <1>1, <1>2, IssuedKept

LEMMA ClashIsMutual == \A r, q : Clash(r, q) => Clash(q, r)
BY DEF Clash

LEMMA IndexedKept ==
  ASSUME Inv, NEW s, NEW r, NEW where, StepOf(s, r, where)
  PROVE  IndexedOnce'
<1> SUFFICES ASSUME NEW t \in Session, pc'[t] = "commit"
             PROVE  /\ \A n \in Issued' : ~Clash(draft'[t], invoices'[n])
                    /\ \A u \in Session \ {t} : pc'[u] = "commit" => ~Clash(draft'[t], draft'[u])
  BY DEF IndexedOnce, Apart, Clash, Issued
<1>1. CASE t = s
  <2>1. where = "commit" /\ draft'[t] = r /\ Apart(s, r)
    BY <1>1, TypesKept DEF StepOf, Sound
  <2>2. Issued' = Issued /\ invoices' = invoices
    BY <2>1, IssuedKept
  <2> QED BY <1>1, <2>1, <2>2, TypesKept DEF Apart
<1>2. CASE t # s
  <2>1. pc[t] = "commit" /\ draft'[t] = draft[t] /\ Apart(t, draft[t])
    BY <1>2, TypesKept DEF Inv, IndexedOnce
  <2>2. ASSUME NEW n \in Issued' PROVE ~Clash(draft[t], invoices'[n])
    BY <1>2, <2>1, <2>2, IssuedKept DEF Apart, StepOf
  <2>3. ASSUME NEW u \in Session \ {t}, pc'[u] = "commit" PROVE ~Clash(draft[t], draft'[u])
    <3>1. CASE u = s
      <4>1. Apart(s, r) /\ draft'[u] = r
        BY <2>3, <3>1, TypesKept DEF StepOf, Sound
      <4>2. ~Clash(r, draft[t])
        BY <1>2, <2>1, <4>1 DEF Apart
      <4> QED BY <4>1, <4>2, ClashIsMutual
    <3>2. CASE u # s
      BY <2>1, <2>3, <3>2, TypesKept DEF Apart
    <3> QED BY <3>1, <3>2
  <2> QED BY <2>1, <2>2, <2>3
<1> QED BY <1>1, <1>2

LEMMA OriginalsStand ==
  ASSUME Inv, NEW s, NEW r, NEW where, StepOf(s, r, where), NEW sale
  PROVE  OriginalOf(sale) \subseteq OriginalOf(sale)'
BY IssuedKept DEF OriginalOf

LEMMA DraftsKept ==
  ASSUME Inv, NEW s, NEW r, NEW where, StepOf(s, r, where)
  PROVE  DraftsAdjust'
<1>1. ASSUME NEW t \in Session, draft'[t].note # NoNote
      PROVE  draft'[t].adjusts \in OriginalOf(SaleOf[draft'[t].note])
  BY <1>1, TypesKept DEF Inv, DraftsAdjust, AdjustsOriginal, StepOf, Sound
<1>2. ASSUME NEW note, NEW n \in OriginalOf(SaleOf[note])
      PROVE  n \in Issued' /\ invoices'[n].sale = SaleOf[note] /\ invoices'[n].note = NoNote
  BY <1>2, OriginalsStand DEF OriginalOf
<1>3. ASSUME NEW t \in Session, draft'[t].note # NoNote
      PROVE  /\ draft'[t].adjusts \in Issued'
             /\ invoices'[draft'[t].adjusts].sale = SaleOf[draft'[t].note]
             /\ invoices'[draft'[t].adjusts].note = NoNote
  BY <1>1, <1>2, <1>3
<1> QED BY <1>3 DEF DraftsAdjust, AdjustsOriginal, OriginalOf, Issued

LEMMA DocumentsKept ==
  ASSUME Inv, NEW s, NEW r, NEW where, StepOf(s, r, where)
  PROVE  OneDocumentEach'
<1>1. CASE Issued' = Issued /\ invoices' = invoices
  BY <1>1 DEF Inv, OneDocumentEach, OriginalOf
<1>2. CASE /\ Issued' = Issued \cup {Len(invoices) + 1}
           /\ Len(invoices) + 1 \notin Issued
           /\ \A n \in Issued : invoices'[n] = invoices[n]
           /\ invoices'[Len(invoices) + 1] = draft[s]
           /\ pc[s] = "commit" /\ where = "idle"
  <2> DEFINE new == Len(invoices) + 1
  <2>1. Issued = 1..Len(invoices) /\ Len(invoices) \in Nat
    BY InvoiceTypes DEF Inv
  <2>2. \A n \in Issued : ~Clash(draft[s], invoices[n])
    BY <1>2 DEF Inv, IndexedOnce, Apart, StepOf
  <2>3. \A m, n \in Issued' : m # n /\ invoices'[m].note = invoices'[n].note
          => invoices'[m].note = NoNote /\ invoices'[m].sale # invoices'[n].sale
    <3>1. \A m, n \in Issued : m # n /\ invoices[m].note = invoices[n].note
            => invoices[m].note = NoNote /\ invoices[m].sale # invoices[n].sale
      BY DEF Inv, OneDocumentEach
    <3>2. \A n \in Issued : draft[s].note = invoices[n].note
            => draft[s].note = NoNote /\ draft[s].sale # invoices[n].sale
      BY <2>2 DEF Clash
    <3> QED BY <1>2, <3>1, <3>2
  <2>4. ASSUME NEW n \in Issued', invoices'[n].note # NoNote
        PROVE  /\ invoices'[n].adjusts \in 1..(n - 1)
               /\ invoices'[n].adjusts \in OriginalOf(SaleOf[invoices'[n].note])
    <3>1. CASE n \in Issued
      BY <1>2, <2>4, <3>1 DEF Inv, OneDocumentEach
    <3>2. CASE n = new
      <4>1. draft[s].adjusts \in OriginalOf(SaleOf[draft[s].note])
        BY <1>2, <2>4, <3>2 DEF Inv, DraftsAdjust, AdjustsOriginal, StepOf
      <4>2. draft[s].adjusts \in 1..(new - 1)
        BY <2>1, <4>1 DEF OriginalOf
      <4> QED BY <1>2, <3>2, <4>1, <4>2
    <3> QED BY <1>2, <3>1, <3>2
  <2>5. ASSUME NEW note, NEW m \in OriginalOf(SaleOf[note])
        PROVE  m \in Issued' /\ invoices'[m].sale = SaleOf[note] /\ invoices'[m].note = NoNote
    BY <2>5, OriginalsStand DEF OriginalOf
  <2>6. ASSUME NEW n \in Issued', invoices'[n].note # NoNote
        PROVE  /\ invoices'[n].adjusts \in Issued'
               /\ invoices'[invoices'[n].adjusts].sale = SaleOf[invoices'[n].note]
               /\ invoices'[invoices'[n].adjusts].note = NoNote
    BY <2>4, <2>5, <2>6
  <2> QED BY <2>3, <2>4, <2>6 DEF OneDocumentEach, OriginalOf, Issued
<1> QED BY <1>1, <1>2, IssuedKept

(***************************************************************************)
(* The invariant.                                                          *)
(***************************************************************************)
LEMMA InvInit == Init => Inv
<1> SUFFICES ASSUME Init PROVE Inv
  OBVIOUS
<1>1. Issued = {} /\ invoices \in Seq(Row) /\ seller \in Series
  BY DEF Init, Issued
<1>2. TypeInv
  BY <1>1, BlankTypes DEF Init, TypeInv, Labels
<1>3. Counted
  <2>1. ASSUME NEW x PROVE Members(x) = {} /\ Numbers(x) = {0}
    BY <1>1 DEF Members, Numbers
  <2>2. Cardinality({}) = 0
    BY FS_EmptySet
  <2> QED BY <2>1, <2>2 DEF Counted
<1>4. LockIsExclusive /\ NextInLine /\ IndexedOnce
  BY DEF Init, LockIsExclusive, Held, NextInLine, IsNext, IndexedOnce
<1>5. DraftsAdjust
  BY <1>1, BlankTypes DEF Init, DraftsAdjust, AdjustsOriginal
<1>6. NumbersRun /\ OneDocumentEach
  BY <1>1 DEF NumbersRun, OneDocumentEach
<1> QED BY <1>2, <1>3, <1>4, <1>5, <1>6 DEF Inv

LEMMA InvNext == Inv /\ [Next]_vars => Inv'
<1> SUFFICES ASSUME Inv, [Next]_vars PROVE Inv'
  OBVIOUS
<1>1. CASE \E s \in Session : Step(s)
  <2>1. PICK s \in Session, r \in Row, where \in Labels : StepOf(s, r, where)
    BY <1>1, MoveShape DEF StepOf
  <2>2. TypeInv' /\ Counted'
    BY <2>1, TypesKept, CountedKept
  <2>3. LockIsExclusive' /\ NextInLine'
    BY <2>1, LockKept, NextKept
  <2>4. IndexedOnce' /\ DraftsAdjust'
    BY <2>1, IndexedKept, DraftsKept
  <2>5. NumbersRun' /\ OneDocumentEach'
    BY <2>1, NumbersKept, DocumentsKept
  <2> QED BY <2>2, <2>3, <2>4, <2>5 DEF Inv
<1>2. CASE UpdateSeller \/ UNCHANGED vars
  <2>1. UNCHANGED <<invoices, pc, draft>> /\ seller' \in Series
    BY <1>2 DEF UpdateSeller, vars, Inv, TypeInv
  <2>2. TypeInv' /\ LockIsExclusive'
    BY <2>1 DEF Inv, TypeInv, LockIsExclusive
  <2>3. Counted' /\ NumbersRun'
    BY <2>1 DEF Inv, Counted, Members, Numbers, Issued, NumbersRun
  <2>4. NextInLine'
    BY <2>1 DEF Inv, NextInLine, InSequence, Last, Issued
  <2>5. IndexedOnce'
    BY <2>1 DEF Inv, IndexedOnce, Apart, Issued
  <2>6. DraftsAdjust' /\ OneDocumentEach'
    BY <2>1 DEF Inv, DraftsAdjust, AdjustsOriginal, OriginalOf, Issued, OneDocumentEach
  <2> QED BY <2>2, <2>3, <2>4, <2>5, <2>6 DEF Inv
<1> QED BY <1>1, <1>2 DEF Next

\* Numbers run within a series from 1, with no gap, in the order of issue,
\* whoever inserts and whatever fails (0036's trigger under its lock).
THEOREM SeriesHaveNoGap == Spec => []NumbersRun
<1>1. Inv => NumbersRun
  BY DEF Inv
<1> QED BY <1>1, InvInit, InvNext, PTL DEF Spec

\* What the service read under the lock is still so when it inserts: the
\* trigger refuses no row of its own.
THEOREM LockedReadsStand == Spec => []TakenNumbersStand
<1>1. Inv => TakenNumbersStand
  BY DEF Inv, NextInLine, IsNext, TakenNumbersStand
<1> QED BY <1>1, InvInit, InvNext, PTL DEF Spec

\* A sale has one original and a credit note one adjustment, of that original.
THEOREM DocumentsAreSingle == Spec => []OneDocumentEach
<1>1. Inv => OneDocumentEach
  BY DEF Inv
<1> QED BY <1>1, InvInit, InvNext, PTL DEF Spec

=============================================================================
